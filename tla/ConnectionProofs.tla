-------------------------- MODULE ConnectionProofs --------------------------
(***************************************************************************)
(* Theorems about Connection, for every number of processes an application *)
(* starts, with and without heartbeats.                                    *)
(***************************************************************************)
EXTENDS Connection, TLAPS

-----------------------------------------------------------------------------
\* Types

LEMMA InitTyping == Init => TypeOK
<1> SUFFICES ASSUME Init PROVE TypeOK
  OBVIOUS
<1>1. starts \in 0..MaxStarts /\ severed \in 0..MaxStarts
  <2>1. 0 \in 0..MaxStarts
    BY ConnectionAssumption
  <2> QED BY <2>1 DEF Init
<1> QED BY <1>1 DEF Init, TypeOK, States

LEMMA ApplicationTyping ==
    ASSUME TypeOK, Application
    PROVE  TypeOK'
<1> USE DEF TypeOK, States, childVars, replicaVars, timerVars
<1>1. CASE Establish
  <2>1. starts' \in 0..MaxStarts
    BY <1>1, ConnectionAssumption DEF Establish
  <2> QED BY <1>1, <2>1 DEF Establish, MayEstablish, Watch
<1>2. CASE EstablishErrored
  BY <1>2 DEF EstablishErrored, MayEstablish
<1>3. CASE Sever
  BY <1>3 DEF Sever, Watch
<1>4. CASE Destroy
  BY <1>4 DEF Destroy, Abandon, Kill, Runs
<1> QED BY <1>1, <1>2, <1>3, <1>4 DEF Application

LEMMA DeliveryTyping ==
    ASSUME TypeOK, EventLoop \/ SendHeartbeat
    PROVE  TypeOK'
<1> USE DEF TypeOK, States, childVars, replicaVars, timerVars
<1>1. CASE ConnectToUpdaterNode
  BY <1>1 DEF ConnectToUpdaterNode, Delivers
<1>2. CASE ReplicaInitialized
  BY <1>2, ConnectionAssumption DEF ReplicaInitialized, Unwatch
<1>3. CASE DeliverFinished
  BY <1>3 DEF DeliverFinished, Ended, Delivers
<1>4. CASE DeliverReplicaLost
  BY <1>4 DEF DeliverReplicaLost
<1>5. CASE DisconnectTimeout
  BY <1>5 DEF DisconnectTimeout, Kill, Runs
<1>6. CASE DestroyReturns
  BY <1>6 DEF DestroyReturns
<1>7. CASE SendHeartbeat
  BY <1>7 DEF SendHeartbeat
<1> QED BY <1>1, <1>2, <1>3, <1>4, <1>5, <1>6, <1>7 DEF EventLoop

LEMMA ChildTyping ==
    ASSUME TypeOK, Child
    PROVE  TypeOK'
<1> USE DEF TypeOK, States, childVars, replicaVars, timerVars
<1>1. CASE PasswordGiven
  BY <1>1 DEF PasswordGiven
<1>2. CASE SourceAnswers
  BY <1>2 DEF SourceAnswers
<1>3. CASE ProcessEnds
  <2>1. /\ child' \in {"ending", "exited", "crashed"}
        /\ unreported' = TRUE \/ unreported' = unreported
    BY <1>3 DEF ProcessEnds
  <2>2. unreported' \in BOOLEAN
    BY <2>1
  <2>3. UNCHANGED <<conn, watched, asked, starts, replicaVars, timerVars, client>>
    BY <1>3 DEF ProcessEnds
  <2> QED BY <2>1, <2>2, <2>3
<1> QED BY <1>1, <1>2, <1>3 DEF Child

\* Every reachable state of the connection is well typed; in particular the
\* handlers leave UpdaterConnection in one of its states.
THEOREM TypeCorrect == Spec => []TypeOK
<1>1. TypeOK /\ [Next]_vars => TypeOK'
  <2> SUFFICES ASSUME TypeOK, [Next]_vars PROVE TypeOK'
    OBVIOUS
  <2>1. CASE UNCHANGED vars
    BY <2>1 DEF vars, childVars, replicaVars, timerVars, TypeOK
  <2> QED BY <2>1, ApplicationTyping, DeliveryTyping, ChildTyping DEF Next
<1> QED BY InitTyping, <1>1, PTL DEF Spec

-----------------------------------------------------------------------------
\* Who listens to the end of the process

\* What makes EndIsListenedTo inductive: the replica whose state is on its
\* way is the one the connection holds; and what is left of it when the
\* connection is destroyed.
Inv ==
    /\ EndIsListenedTo
    /\ replica \in {"acquired", "answered"} => held
    /\ conn = "Established" => ~watched /\ replica \in {"valid", "lost"}

LEMMA InvInit == Init => Inv
BY DEF Init, Inv, EndIsListenedTo

LEMMA InvApplication ==
    ASSUME TypeOK, Inv, Application
    PROVE  Inv'
<1> USE DEF TypeOK, Inv, EndIsListenedTo, childVars, replicaVars, timerVars
<1>1. CASE Establish
  BY <1>1 DEF Establish, MayEstablish, Watch
<1>2. CASE EstablishErrored
  BY <1>2 DEF EstablishErrored, MayEstablish
<1>3. CASE Sever
  BY <1>3 DEF Sever, Watch
<1>4. CASE Destroy
  BY <1>4 DEF Destroy
<1> QED BY <1>1, <1>2, <1>3, <1>4 DEF Application

LEMMA InvDelivery ==
    ASSUME TypeOK, Inv, EventLoop \/ SendHeartbeat
    PROVE  Inv'
<1> USE DEF TypeOK, Inv, EndIsListenedTo, childVars, replicaVars, timerVars
<1>1. CASE ConnectToUpdaterNode
  BY <1>1 DEF ConnectToUpdaterNode
<1>2. CASE ReplicaInitialized
  BY <1>2 DEF ReplicaInitialized, Unwatch
<1>3. CASE DeliverFinished
  BY <1>3 DEF DeliverFinished, Ended
<1>4. CASE DeliverReplicaLost
  BY <1>4 DEF DeliverReplicaLost
<1>5. CASE DisconnectTimeout
  BY <1>5 DEF DisconnectTimeout
<1>6. CASE DestroyReturns
  BY <1>6 DEF DestroyReturns
<1>7. CASE SendHeartbeat
  BY <1>7 DEF SendHeartbeat, Delivers
<1> QED BY <1>1, <1>2, <1>3, <1>4, <1>5, <1>6, <1>7 DEF EventLoop

LEMMA InvChild ==
    ASSUME TypeOK, Inv, Child
    PROVE  Inv'
<1> USE DEF TypeOK, Inv, EndIsListenedTo, childVars, replicaVars, timerVars
<1>1. CASE PasswordGiven
  BY <1>1 DEF PasswordGiven
<1>2. CASE SourceAnswers
  BY <1>2 DEF SourceAnswers
<1>3. CASE ProcessEnds
  BY <1>3 DEF ProcessEnds
<1> QED BY <1>1, <1>2, <1>3 DEF Child

LEMMA InvAlways == Spec => []Inv
<1>1. TypeOK /\ Inv /\ [Next]_vars => Inv'
  <2> SUFFICES ASSUME TypeOK, Inv, [Next]_vars PROVE Inv'
    OBVIOUS
  <2>1. CASE UNCHANGED vars
    BY <2>1 DEF vars, childVars, replicaVars, timerVars, Inv, EndIsListenedTo
  <2> QED BY <2>1, InvApplication, InvDelivery, InvChild DEF Next
<1> QED BY InvInit, <1>1, TypeCorrect, PTL DEF Spec

\* Whatever the order in which the end of a process is reported, a connection
\* listens to the report that its present state needs, and an established one
\* has everything its operations use.
THEOREM EndAlwaysListenedTo == Spec => []EndIsListenedTo
<1>1. Inv => EndIsListenedTo
  BY DEF Inv
<1> QED BY <1>1, InvAlways, PTL

\* No delivery, timer or call takes an established connection to Disconneted:
\* the application hears that only after it has asked to be disconnected.
THEOREM LossAlwaysAbort == Spec => LossIsAbort
<1> DEFINE Step == conn = "Established" =>
                     conn' \in {"Established", "Disconnecting", "Aborted"}
<1>1. Inv /\ Next => Step
  <2> SUFFICES ASSUME Inv, Next, conn = "Established" PROVE Step
    OBVIOUS
  <2> USE DEF Inv, EndIsListenedTo
  <2>1. CASE Application
    BY <2>1 DEF Application, Establish, EstablishErrored, MayEstablish, Sever,
                Destroy
  <2>2. CASE EventLoop \/ SendHeartbeat
    BY <2>2 DEF EventLoop, SendHeartbeat, ConnectToUpdaterNode,
                ReplicaInitialized, DeliverFinished, DeliverReplicaLost,
                DisconnectTimeout, DestroyReturns, Delivers
  <2>3. CASE Child
    BY <2>3 DEF Child, PasswordGiven, SourceAnswers, ProcessEnds
  <2> QED BY <2>1, <2>2, <2>3 DEF Next
<1>2. Inv /\ [Next]_vars => [Step]_vars
  BY <1>1
<1> QED BY <1>2, InvAlways, PTL DEF Spec, LossIsAbort
=============================================================================
