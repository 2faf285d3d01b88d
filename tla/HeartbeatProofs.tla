-------------------------- MODULE HeartbeatProofs ---------------------------
(***************************************************************************)
(* Theorems about Heartbeat, for every period, latency and bound on the    *)
(* delays.                                                                 *)
(***************************************************************************)
EXTENDS Heartbeat, TLAPS

LEMMA InitTyping == Init => TypeOK
<1> SUFFICES ASSUME Init PROVE TypeOK
  OBVIOUS
<1>1. held \in 0..MaxHeld /\ wire \subseteq 0..MaxTransit
  BY HeartbeatAssumption DEF Init
<1>2. beat \in Nat /\ quiet \in Nat /\ lost \in Nat
  BY DEF Init
<1> QED BY <1>1, <1>2 DEF Init, TypeOK

LEMMA TickTyping ==
    ASSUME TypeOK, Tick
    PROVE  TypeOK'
<1> USE HeartbeatAssumption DEF TypeOK, Tick, MayPass
<1>1. wire' \subseteq 0..MaxTransit
  <2> SUFFICES ASSUME NEW age \in wire PROVE age + 1 \in 0..MaxTransit
    OBVIOUS
  <2>1. age \in 0..MaxTransit /\ age # MaxTransit
    OBVIOUS
  <2> QED BY <2>1
<1>2. held' \in 0..MaxHeld
  OBVIOUS
<1>3. beat' \in Nat /\ quiet' \in Nat /\ lost' \in Nat
  OBVIOUS
<1> QED BY <1>1, <1>2, <1>3

LEMMA StepTyping ==
    ASSUME TypeOK, Next
    PROVE  TypeOK'
<1> USE HeartbeatAssumption DEF TypeOK
<1>1. CASE Connected
  BY <1>1 DEF Connected
<1>2. CASE SendHeartbeat
  <2>1. 0 \in 0..MaxTransit
    BY HeartbeatAssumption
  <2> QED BY <1>2, <2>1 DEF SendHeartbeat
<1>3. CASE Go
  BY <1>3 DEF Go
<1>4. ASSUME NEW age \in wire, Arrive(age) PROVE TypeOK'
  BY <1>4 DEF Arrive
<1>5. CASE HandleHeartbeat
  <2>1. held' \in 0..MaxHeld /\ quiet' \in Nat
    BY <1>5, HeartbeatAssumption DEF HandleHeartbeat
  <2> QED BY <1>5, <2>1 DEF HandleHeartbeat
<1>6. CASE CloseSession
  BY <1>6 DEF CloseSession
<1>7. CASE SessionThreadEnds
  BY <1>7 DEF SessionThreadEnds
<1>8. CASE Timeout
  BY <1>8 DEF Timeout
<1> QED BY <1>1, <1>2, <1>3, <1>4, <1>5, <1>6, <1>7, <1>8, TickTyping DEF Next

\* Every reachable state is well typed; the updater's main thread is never held
\* longer than the bound says.
THEOREM TypeCorrect == Spec => []TypeOK
<1>1. TypeOK /\ [Next]_vars => TypeOK'
  BY StepTyping DEF vars, TypeOK
<1> QED BY InitTyping, <1>1, PTL DEF Spec

-----------------------------------------------------------------------------
\* A client that is there is kept

\* Between two heartbeats handled: how old the first can be when the second is
\* sent.
Gap == MaxStart + Period + MaxLate

\* How long the updater has heard nothing depends on where the next heartbeat is:
\* not sent yet, on its way, or in the socket behind closeSession.
Heard ==
    /\ client = "connecting" =>
         beat <= MaxStart /\ quiet <= beat /\ wire = {} /\ ~arrived /\ ~closing
    /\ client = "beating" =>
         /\ beat <= Period + MaxLate
         /\ wire = {} /\ ~arrived => quiet <= MaxStart + beat
         /\ wire # {} /\ ~arrived => \E age \in wire : quiet <= Gap + age
         /\ arrived => quiet <= Gap + MaxTransit + held

KeptInv == (updater = "up" => Heard) /\ LivingIsKept

LEMMA KeptInit == Init => KeptInv
BY HeartbeatAssumption DEF Init, KeptInv, Heard, LivingIsKept

LEMMA HeardTick ==
    ASSUME TypeOK, Heard, Tick
    PROVE  Heard'
<1> USE HeartbeatAssumption DEF TypeOK
<1>0. UNCHANGED <<client, arrived, closing>> /\ quiet' = quiet + 1
  BY DEF Tick
<1>1. CASE client = "connecting"
  BY <1>0, <1>1 DEF Heard, Tick, MayPass
<1>2. CASE client = "beating"
  <2>1. beat' = beat + 1 /\ beat' <= Period + MaxLate
    BY <1>2 DEF Tick, MayPass
  <2>2. CASE wire = {} /\ ~arrived
    <3>1. wire' = {} /\ ~arrived'
      BY <2>2 DEF Tick
    <3>2. quiet' <= MaxStart + beat'
      BY <1>0, <1>2, <2>1, <2>2 DEF Heard
    <3> QED BY <1>0, <1>2, <2>1, <3>1, <3>2 DEF Heard
  <2>3. CASE wire # {} /\ ~arrived
    <3>1. PICK age \in wire : quiet <= Gap + age
      BY <1>2, <2>3 DEF Heard
    <3>2. age + 1 \in wire'
      BY DEF Tick
    <3>3. quiet' <= Gap + (age + 1)
      <4>1. age \in Nat
        OBVIOUS
      <4> QED BY <1>0, <3>1, <4>1 DEF Gap
    <3> QED BY <1>0, <1>2, <2>1, <2>3, <3>2, <3>3 DEF Heard
  <2>4. CASE arrived
    <3>1. held' = held + 1
      BY <2>4 DEF Tick, MayPass
    <3>2. quiet' <= Gap + MaxTransit + held'
      BY <1>0, <1>2, <2>4, <3>1 DEF Heard, Gap
    <3> QED BY <1>0, <1>2, <2>1, <2>4, <3>2 DEF Heard
  <2> QED BY <2>2, <2>3, <2>4
<1>3. CASE client = "gone"
  BY <1>0, <1>3 DEF Heard
<1> QED BY <1>1, <1>2, <1>3

LEMMA HeardArrive ==
    ASSUME TypeOK, Heard, NEW age \in wire, Arrive(age)
    PROVE  Heard'
<1> USE HeartbeatAssumption DEF TypeOK
<1>1. UNCHANGED <<client, beat, quiet, held>> /\ arrived' = TRUE
  BY DEF Arrive
<1>2. CASE client = "beating"
  <2>1. CASE arrived
    BY <1>1, <1>2, <2>1 DEF Heard
  <2>2. CASE ~arrived
    <3>1. PICK old \in wire : quiet <= Gap + old
      BY <1>2, <2>2 DEF Heard
    <3>2. old \in Nat /\ old <= MaxTransit /\ held \in Nat
      OBVIOUS
    <3>3. quiet <= Gap + MaxTransit + held
      BY <3>1, <3>2 DEF Gap
    <3> QED BY <1>1, <1>2, <3>3 DEF Heard
  <2> QED BY <2>1, <2>2
<1>3. CASE client # "beating"
  BY <1>1, <1>3 DEF Heard
<1> QED BY <1>2, <1>3

LEMMA HeardSend ==
    ASSUME TypeOK, Heard, SendHeartbeat
    PROVE  Heard'
<1> USE HeartbeatAssumption DEF TypeOK
<1>1. /\ client = "beating" /\ client' = "beating"
      /\ beat' = 0 /\ wire' = wire \cup {0}
      /\ UNCHANGED <<arrived, quiet, held>>
  BY DEF SendHeartbeat
<1>2. CASE arrived
  BY <1>1, <1>2 DEF Heard
<1>3. CASE ~arrived /\ wire = {}
  <2>1. quiet <= Gap + 0
    BY <1>1, <1>3 DEF Heard, Gap
  <2>2. 0 \in wire' /\ quiet' = quiet
    BY <1>1
  <2> QED BY <1>1, <1>3, <2>1, <2>2 DEF Heard
<1>4. CASE ~arrived /\ wire # {}
  BY <1>1, <1>4 DEF Heard
<1> QED BY <1>2, <1>3, <1>4

\* The timeout of a client that is there comes later than its heartbeat.
LEMMA NoTimeout ==
    ASSUME TypeOK, Heard, Timeout, InTime
    PROVE  client = "gone"
<1> USE HeartbeatAssumption DEF TypeOK, InTime, Interval, Gap
<1>1. quiet >= Period + Latency
  BY DEF Timeout
<1>2. ASSUME client = "connecting" PROVE FALSE
  BY <1>1, <1>2 DEF Heard
<1>3. ASSUME client = "beating" PROVE FALSE
  <2>1. CASE wire = {} /\ ~arrived
    BY <1>1, <1>3, <2>1 DEF Heard
  <2>2. CASE wire # {} /\ ~arrived
    <3>1. PICK age \in wire : quiet <= Gap + age
      BY <1>3, <2>2 DEF Heard
    <3>2. age \in Nat /\ age <= MaxTransit
      OBVIOUS
    <3> QED BY <1>1, <3>1, <3>2
  <2>3. CASE arrived
    BY <1>1, <1>3, <2>3 DEF Heard
  <2> QED BY <2>1, <2>2, <2>3
<1> QED BY <1>2, <1>3

LEMMA KeptStep ==
    ASSUME TypeOK, KeptInv, Next
    PROVE  KeptInv'
<1> USE HeartbeatAssumption DEF TypeOK, KeptInv, LivingIsKept, InTime
<1>1. CASE Connected
  <2>1. /\ client' = "beating" /\ beat' = 0 /\ updater = "up"
        /\ UNCHANGED <<updater, wire, arrived, quiet>>
        /\ quiet <= beat /\ beat <= MaxStart /\ wire = {} /\ ~arrived
    BY <1>1 DEF Connected, Heard
  <2>2. quiet' <= MaxStart + beat' /\ beat' <= Period + MaxLate
    BY <2>1
  <2> QED BY <2>1, <2>2 DEF Heard
<1>2. CASE SendHeartbeat
  BY <1>2, HeardSend DEF SendHeartbeat
<1>3. CASE Go
  BY <1>3 DEF Go, Heard
<1>4. ASSUME NEW age \in wire, Arrive(age) PROVE KeptInv'
  BY <1>4, HeardArrive DEF Arrive
<1>5. CASE HandleHeartbeat
  <2>1. /\ UNCHANGED <<client, updater, beat, wire>>
        /\ ~arrived' /\ quiet' = 0 /\ updater = "up" /\ arrived
    BY <1>5 DEF HandleHeartbeat
  <2>2. \A age \in wire : 0 <= Gap + age
    <3> SUFFICES ASSUME NEW age \in wire PROVE 0 <= Gap + age
      OBVIOUS
    <3>1. age \in Nat
      OBVIOUS
    <3> QED BY <3>1 DEF Gap
  <2>3. client = "beating" => quiet' <= MaxStart + beat'
    BY <2>1
  <2>4. client # "connecting" /\ (client = "beating" => beat' <= Period + MaxLate)
    BY <2>1 DEF Heard
  <2> QED BY <2>1, <2>2, <2>3, <2>4 DEF Heard
<1>6. CASE CloseSession
  BY <1>6 DEF CloseSession, Heard
<1>7. CASE SessionThreadEnds
  BY <1>7 DEF SessionThreadEnds, Heard
<1>8. CASE Timeout
  BY <1>8, NoTimeout DEF Timeout
<1>9. CASE Tick
  BY <1>9, HeardTick DEF Tick, MayPass
<1> QED BY <1>1, <1>2, <1>3, <1>4, <1>5, <1>6, <1>7, <1>8, <1>9 DEF Next

\* When start-up, lateness, transport and closeSession together stay below the
\* latency, the updater never times out a client that is there.
THEOREM LivingAlwaysKept == Spec => []LivingIsKept
<1>1. TypeOK /\ KeptInv /\ [Next]_vars => KeptInv'
  BY KeptStep DEF vars, KeptInv, Heard, LivingIsKept
<1>2. KeptInv => LivingIsKept
  BY DEF KeptInv
<1> QED BY KeptInit, <1>1, <1>2, TypeCorrect, PTL DEF Spec
-----------------------------------------------------------------------------
\* An updater without a client ends

\* Once the client is gone its last heartbeats arrive, the updater hears of them
\* when closeSession lets it, and its timer runs from then on; what is still on
\* its way was sent before the client was gone.
Bounded ==
    /\ quiet <= Period + Latency + held
    /\ client = "gone" =>
         /\ \A age \in wire : lost <= age
         /\ arrived => lost <= MaxTransit + held
         /\ wire = {} /\ ~arrived => lost <= quiet + MaxTransit + MaxHeld

EndsInv == updater = "up" => Bounded

LEMMA EndsInit == Init => EndsInv
BY HeartbeatAssumption DEF Init, EndsInv, Bounded

LEMMA BoundedTick ==
    ASSUME TypeOK, Bounded, Tick
    PROVE  Bounded'
<1> USE HeartbeatAssumption DEF TypeOK, Bounded
<1>1. /\ UNCHANGED <<client, arrived>> /\ quiet' = quiet + 1
      /\ wire' = {age + 1 : age \in wire}
  BY DEF Tick
<1>2. quiet' <= Period + Latency + held'
  BY DEF Tick, MayPass, Interval
<1>3. CASE client = "gone"
  <2>1. lost' = lost + 1
    BY <1>3 DEF Tick
  <2>2. ASSUME NEW late \in wire' PROVE lost' <= late
    <3>1. PICK age \in wire : late = age + 1
      BY <1>1, <2>2
    <3>2. lost <= age /\ age \in Nat
      BY <1>3
    <3> QED BY <2>1, <3>1, <3>2
  <2>3. arrived' => lost' <= MaxTransit + held'
    BY <1>1, <1>3, <2>1 DEF Tick, MayPass
  <2>4. wire' = {} /\ ~arrived' => lost' <= quiet' + MaxTransit + MaxHeld
    <3>1. wire' = {} => wire = {}
      BY <1>1
    <3> QED BY <1>1, <1>3, <2>1, <3>1
  <2> QED BY <1>2, <2>2, <2>3, <2>4
<1>4. CASE client # "gone"
  BY <1>1, <1>2, <1>4
<1> QED BY <1>3, <1>4

LEMMA BoundedArrive ==
    ASSUME TypeOK, Bounded, NEW age \in wire, Arrive(age)
    PROVE  Bounded'
<1> USE HeartbeatAssumption DEF TypeOK, Bounded
<1>1. /\ UNCHANGED <<client, quiet, held, lost>> /\ arrived' = TRUE
      /\ wire' \subseteq wire
  BY DEF Arrive
<1>2. client = "gone" => lost <= MaxTransit + held
  <2>1. age \in Nat /\ age <= MaxTransit
    OBVIOUS
  <2> QED BY <2>1
<1> QED BY <1>1, <1>2

LEMMA EndsStep ==
    ASSUME TypeOK, EndsInv, Next
    PROVE  EndsInv'
<1> USE HeartbeatAssumption DEF TypeOK, EndsInv
<1>1. CASE Connected
  BY <1>1 DEF Connected, Bounded
<1>2. CASE SendHeartbeat
  BY <1>2 DEF SendHeartbeat, Bounded
<1>3. CASE Go
  <2>1. /\ UNCHANGED <<updater, wire, arrived, quiet, held>>
        /\ client' = "gone" /\ lost' = 0
    BY <1>3 DEF Go
  <2>2. ASSUME NEW age \in wire PROVE 0 <= age
    OBVIOUS
  <2>3. 0 <= MaxTransit + held /\ 0 <= quiet + MaxTransit + MaxHeld
    OBVIOUS
  <2> QED BY <2>1, <2>2, <2>3 DEF Bounded
<1>4. ASSUME NEW age \in wire, Arrive(age) PROVE EndsInv'
  BY <1>4, BoundedArrive DEF Arrive
<1>5. CASE HandleHeartbeat
  <2>1. /\ UNCHANGED <<client, updater, wire, lost>> /\ updater = "up"
        /\ arrived /\ ~arrived' /\ quiet' = 0 /\ held' = 0
    BY <1>5 DEF HandleHeartbeat
  <2>2. client = "gone" => lost <= MaxTransit + MaxHeld
    BY <2>1 DEF Bounded
  <2>3. 0 <= Period + Latency
    OBVIOUS
  <2> QED BY <2>1, <2>2, <2>3 DEF Bounded
<1>6. CASE CloseSession
  BY <1>6 DEF CloseSession, Bounded
<1>7. CASE SessionThreadEnds
  BY <1>7 DEF SessionThreadEnds, Bounded
<1>8. CASE Timeout
  BY <1>8 DEF Timeout
<1>9. CASE Tick
  BY <1>9, BoundedTick DEF Tick, MayPass
<1> QED BY <1>1, <1>2, <1>3, <1>4, <1>5, <1>6, <1>7, <1>8, <1>9 DEF Next

\* Whatever the delays, an updater whose client is gone has ended when the last
\* heartbeat was carried and handled and the timer has run out.
THEOREM AbandonedAlwaysEnds == Spec => []AbandonedEnds
<1>1. TypeOK /\ EndsInv /\ [Next]_vars => EndsInv'
  BY EndsStep DEF vars, EndsInv, Bounded
<1>2. TypeOK /\ EndsInv => AbandonedEnds
  <2> SUFFICES ASSUME TypeOK, EndsInv, client = "gone", updater = "up"
               PROVE  lost <= MaxTransit + MaxHeld + (Period + Latency) + MaxHeld
    BY DEF AbandonedEnds
  <2> USE HeartbeatAssumption DEF TypeOK, EndsInv, Bounded
  <2>1. CASE arrived
    BY <2>1
  <2>2. CASE ~arrived /\ wire = {}
    BY <2>2
  <2>3. CASE wire # {}
    <3>1. PICK age \in wire : TRUE
      BY <2>3
    <3>2. lost <= age /\ age \in Nat /\ age <= MaxTransit
      BY <3>1
    <3> QED BY <3>2
  <2> QED BY <2>1, <2>2, <2>3
<1> QED BY EndsInit, <1>1, <1>2, TypeCorrect, PTL DEF Spec
=============================================================================
