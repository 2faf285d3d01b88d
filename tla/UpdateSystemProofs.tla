-------------------------- MODULE UpdateSystemProofs ------------------------
(***************************************************************************)
(* Theorems about UpdateSystem, for every set of firmware files, every     *)
(* device and every number of calls of the application.                    *)
(***************************************************************************)
EXTENDS UpdateSystem, SequenceTheorems, TLAPS

-----------------------------------------------------------------------------
\* Types

LEMMA CallTyping ==
    /\ \A slot \in Slots : Call(slot) \in Calls
    /\ \A image \in Images : [slot |-> "flash", image |-> image] \in Calls
BY DEF Call, Calls, Slots, WorkSlots

\* What the client invokes leaves a sequence of calls.
LEMMA InvokeTyping ==
    ASSUME IPCTypeOK, NEW calls_ \in Seq(Calls), Invoke(calls_)
    PROVE  toServer' \in Seq(Calls)
BY ConcatProperties DEF IPCTypeOK, Invoke

\* The end of the process leaves a prefix of the signals.
LEMMA DieTyping ==
    ASSUME IPCTypeOK, NEW how \in {"exited", "crashed"}, Die(how)
    PROVE  IPCTypeOK'
<1>1. process' \in {"running", "exited", "crashed"} /\ toServer' \in Seq(Calls)
  BY DEF Die
<1>2. PICK n \in 0..Len(toClient) : toClient' = SubSeq(toClient, 1, n)
  BY DEF Die
<1>3. \A i \in 1..n : toClient[i] \in Signals
  BY <1>2, LenProperties, ElementOfSeq DEF IPCTypeOK
<1>4. toClient' \in Seq(Signals)
  BY <1>2, <1>3, LenProperties, SubSeqProperties DEF IPCTypeOK
<1> QED BY <1>1, <1>4 DEF IPCTypeOK

LEMMA InitTyping == Init => TypeOK
<1> SUFFICES ASSUME Init PROVE TypeOK
  OBVIOUS
<1>1. \A S : <<>> \in Seq(S)
  BY EmptySeq
<1>2. IPCTypeOK
  BY <1>1 DEF Init, IPCInit, IPCTypeOK
<1>3. handlers \in [FlashAnswers -> Seq(HandlerKinds)]
  BY <1>1 DEF Init, ClientInit
<1>4. ClientTypeOK
  <2>1. dispatch \in Seq([handler : HandlerKinds, status : Statuses])
    BY <1>1 DEF Init, ClientInit
  <2>2. request \in [image : Images \cup {NoImage}, checksum : BOOLEAN]
    BY DEF Init, ClientInit
  <2>3. calls \in 0..MaxCalls
    BY ClientAssumption DEF Init, ClientInit
  <2> QED BY <1>3, <2>1, <2>2, <2>3 DEF Init, ClientInit, ClientTypeOK
<1>5. NoJob \in [op : Jobs, image : Content, pos : Nat, open : BOOLEAN]
  BY DEF NoJob, Jobs, Content
<1>6. ServerTypeOK
  BY <1>1, <1>5 DEF Init, ServerInit, ServerTypeOK, Content
<1> QED BY <1>2, <1>4, <1>6 DEF TypeOK

LEMMA ApplicationTyping ==
    ASSUME TypeOK, Application, UNCHANGED serverVars
    PROVE  TypeOK'
<1> USE DEF TypeOK
<1>0. ServerTypeOK'
  BY DEF ServerTypeOK, serverVars, mainVars, sessionVars
<1>1. ASSUME ApplicationCalls PROVE calls' \in 0..MaxCalls
  BY <1>1, ClientAssumption DEF ApplicationCalls, ClientTypeOK
<1>2. CASE InitializeDevice
  <2>1. <<Call("closeSession"), Call("openSession"),
          Call("initializeEdgeDevice")>> \in Seq(Calls)
    BY CallTyping DEF Slots, SessionSlots, WorkSlots
  <2>2. toServer' \in Seq(Calls)
    BY <1>2, <2>1, InvokeTyping DEF InitializeDevice, InitializeDeviceImpl
  <2> QED BY <1>0, <1>1, <1>2, <2>2
          DEF InitializeDevice, InitializeDeviceImpl, IPCTypeOK, ClientTypeOK, Busy
<1>3. CASE \E image \in Images, checksum \in BOOLEAN : Flash(image, checksum)
  <2>1. PICK image \in Images, checksum \in BOOLEAN : Flash(image, checksum)
    BY <1>3
  <2>2. toServer' \in Seq(Calls)
    <3>1. <<[slot |-> "flash", image |-> image]>> \in Seq(Calls)
      BY CallTyping
    <3> QED BY <2>1, <3>1, InvokeTyping DEF Flash, FlashImpl
  <2>3. handlers' \in [FlashAnswers -> Seq(HandlerKinds)]
    <3>1. \A a \in FlashAnswers, h \in HandlerKinds :
             Append(handlers[a], h) \in Seq(HandlerKinds)
      BY AppendProperties DEF ClientTypeOK
    <3> QED BY <2>1, <3>1
            DEF Flash, FlashImpl, ConnectHandlers, ClientTypeOK, HandlerKinds, FlashAnswers
  <2>4. request' \in [image : Images \cup {NoImage}, checksum : BOOLEAN]
    BY <2>1 DEF Flash
  <2> QED BY <1>0, <1>1, <2>1, <2>2, <2>3, <2>4
          DEF Flash, FlashImpl, IPCTypeOK, ClientTypeOK, Busy, Updating
<1>4. CASE Cancel
  <2>1. <<Call("cancel")>> \in Seq(Calls)
    BY CallTyping DEF Slots
  <2>2. toServer' \in Seq(Calls)
    BY <1>4, <2>1, InvokeTyping DEF Cancel
  <2> QED BY <1>0, <1>1, <1>4, <2>2 DEF Cancel, IPCTypeOK, ClientTypeOK
<1>5. CASE Finish
  <2>1. <<Call("finish")>> \in Seq(Calls)
    BY CallTyping DEF Slots
  <2>2. toServer' \in Seq(Calls)
    BY <1>5, <2>1, InvokeTyping DEF Finish
  <2> QED BY <1>0, <1>1, <1>5, <2>2 DEF Finish, IPCTypeOK, ClientTypeOK
<1> QED BY <1>2, <1>3, <1>4, <1>5 DEF Application

LEMMA ReportTyping ==
    ASSUME TypeOK, NEW success \in {"true", "false"}, ReportFlashed(success)
    PROVE  /\ toServer' \in Seq(Calls)
           /\ sessionOpened' \in BOOLEAN
           /\ outcome' \in {"none", "true", "false"}
<1>1. <<Call("closeSession")>> \in Seq(Calls)
  BY CallTyping DEF Slots, SessionSlots
<1> QED BY <1>1, InvokeTyping DEF ReportFlashed, TypeOK

LEMMA ClientLoopTyping ==
    ASSUME TypeOK, ClientLoop, UNCHANGED serverVars
    PROVE  TypeOK'
<1> USE DEF TypeOK
<1>0. ServerTypeOK'
  BY DEF ServerTypeOK, serverVars, mainVars, sessionVars
<1>1. ASSUME toClient # <<>>
      PROVE  Head(toClient) \in Signals /\ Tail(toClient) \in Seq(Signals)
  BY <1>1, HeadTailProperties DEF IPCTypeOK
<1>2. CASE HandleInitializingFinished
  BY <1>0, <1>1, <1>2
     DEF HandleInitializingFinished, IPCTypeOK, ClientTypeOK
<1>3. CASE HandleFlashAnswer
  <2> DEFINE answer == Head(toClient)
             connected == handlers[answer.signal]
             Dispatched == [handler : HandlerKinds, status : Statuses]
  <2>1. answer \in Signals /\ answer.signal \in FlashAnswers
    BY <1>1, <1>3 DEF HandleFlashAnswer
  <2>2. connected \in Seq(HandlerKinds) /\ answer.status \in Statuses
    BY <2>1 DEF ClientTypeOK, Signals
  <2>3. \A i \in 1..Len(connected) : connected[i] \in HandlerKinds
    BY <2>2, ElementOfSeq
  <2>4. dispatch' = [i \in 1..Len(connected) |->
                       [handler |-> connected[i], status |-> answer.status]]
    BY <1>3, <2>2, LenProperties DEF HandleFlashAnswer
  <2>5. dispatch' \in Seq(Dispatched)
    BY <2>2, <2>3, <2>4, LenProperties
  <2>6. handlers' \in [FlashAnswers -> Seq(HandlerKinds)]
    BY <1>3, <2>1, EmptySeq DEF HandleFlashAnswer, ClientTypeOK
  <2> QED BY <1>0, <1>1, <1>3, <2>5, <2>6
          DEF HandleFlashAnswer, IPCTypeOK, ClientTypeOK
<1>4. CASE RunHandler
  <2>1. dispatch' \in Seq([handler : HandlerKinds, status : Statuses])
    BY <1>4, HeadTailProperties DEF RunHandler, ClientTypeOK
  <2>2. <<Call("checkOnCorrectness")>> \in Seq(Calls)
    BY CallTyping DEF Slots, WorkSlots
  <2>3. ASSUME Invoke(<<Call("checkOnCorrectness")>>)
        PROVE  toServer' \in Seq(Calls)
    BY <2>2, <2>3, InvokeTyping
  <2>4. /\ toServer' \in Seq(Calls)
        /\ state' \in Busy \cup {"Idle", "Invalid"}
        /\ sessionOpened' \in BOOLEAN
        /\ outcome' \in {"none", "true", "false"}
    <3>1. ASSUME NEW status, OnFlashingFinished(status) PROVE <2>4!:
      BY <2>3, <3>1, ReportTyping
         DEF OnFlashingFinished, IPCTypeOK, ClientTypeOK, Busy, Updating
    <3>2. ASSUME NEW status, OnUpdatingFinished(status) PROVE <2>4!:
      BY <3>2, ReportTyping
         DEF OnUpdatingFinished, IPCTypeOK, ClientTypeOK
    <3> QED BY <1>4, <3>1, <3>2 DEF RunHandler
  <2> QED BY <1>0, <1>4, <2>1, <2>4 DEF RunHandler, IPCTypeOK, ClientTypeOK
<1>5. CASE ReplicaLost
  BY <1>0, <1>5 DEF ReplicaLost, channels, IPCTypeOK, ClientTypeOK
<1> QED BY <1>2, <1>3, <1>4, <1>5 DEF ClientLoop
LEMMA DeathTyping ==
    ASSUME TypeOK, NEW how \in {"exited", "crashed"}, ProcessDies(how),
           UNCHANGED clientVars
    PROVE  TypeOK'
<1>1. IPCTypeOK'
  BY DieTyping DEF ProcessDies, TypeOK
<1>2. ClientTypeOK'
  BY DEF TypeOK, ClientTypeOK, clientVars
<1>3. posted' \in Seq(Signals) /\ workQ' \in Seq(Calls)
  BY EmptySeq DEF ProcessDies
<1>4. job' \in [op : Jobs, image : Content, pos : Nat, open : BOOLEAN]
  BY DEF ProcessDies, NoJob, Jobs, Content
<1> QED BY <1>1, <1>2, <1>3, <1>4
        DEF ProcessDies, sessionVars, TypeOK, ServerTypeOK

LEMMA MainTyping ==
    ASSUME TypeOK, MainLoop, UNCHANGED clientVars
    PROVE  TypeOK'
<1> USE DEF TypeOK, mainVars, sessionVars
<1>0. ClientTypeOK'
  BY DEF ClientTypeOK, clientVars
<1>1. ASSUME toServer # <<>>
      PROVE  Head(toServer) \in Calls /\ Tail(toServer) \in Seq(Calls)
  BY <1>1, HeadTailProperties DEF IPCTypeOK
<1>2. CASE OpenSession
  BY <1>0, <1>1, <1>2 DEF OpenSession, NewSession, TakeCall, IPCTypeOK, ServerTypeOK
<1>3. CASE CloseSession
  BY <1>0, <1>1, <1>3 DEF CloseSession, TakeCall, IPCTypeOK, ServerTypeOK
<1>4. CASE CloseSessionReturns
  BY <1>0, <1>4, EmptySeq
     DEF CloseSessionReturns, channels, IPCTypeOK, ServerTypeOK
<1>5. CASE PerformWork
  <2> DEFINE call == Head(toServer)
             file == IF call.slot = "flash" THEN call.image ELSE firmware
             work == [slot |-> call.slot, image |-> file]
  <2>1. call \in Calls /\ toServer' \in Seq(Calls)
    BY <1>1, <1>5 DEF PerformWork, TakeCall
  <2>2. file \in Content /\ call.slot \in Slots
    BY <2>1 DEF Calls, Content, ServerTypeOK
  <2>3. work \in Calls
    BY <2>2 DEF Calls, Content
  <2>4. workQ' \in Seq(Calls)
    BY <1>5, <2>3, AppendProperties DEF PerformWork, ServerTypeOK
  <2> QED BY <1>0, <1>5, <2>1, <2>2, <2>4
          DEF PerformWork, Remember, IPCTypeOK, ServerTypeOK
<1>6. CASE CancelWork
  BY <1>0, <1>1, <1>6 DEF CancelWork, TakeCall, IPCTypeOK, ServerTypeOK
<1>7. CASE FinishProcess
  BY <1>7, DeathTyping DEF FinishProcess
<1>8. CASE ForwardAnswer
  <2>1. Head(posted) \in Signals /\ Tail(posted) \in Seq(Signals)
    BY <1>8, HeadTailProperties DEF ForwardAnswer, ServerTypeOK
  <2>2. toClient' \in Seq(Signals)
    BY <1>8, <2>1, AppendProperties DEF ForwardAnswer, IPCTypeOK
  <2> QED BY <1>0, <1>8, <2>1, <2>2
          DEF ForwardAnswer, IPCTypeOK, ServerTypeOK
<1> QED BY <1>2, <1>3, <1>4, <1>5, <1>6, <1>7, <1>8 DEF MainLoop

\* A slot of the session that returns leaves one more signal.
LEMMA AnswerTyping ==
    ASSUME TypeOK, NEW signal \in Answers, NEW status \in Statuses,
           Answer(signal, status)
    PROVE  /\ posted' \in Seq(Signals)
           /\ job' \in [op : Jobs, image : Content, pos : Nat, open : BOOLEAN]
<1>1. [signal |-> signal, status |-> status] \in Signals
  BY DEF Signals
<1>2. posted' \in Seq(Signals)
  BY <1>1, AppendProperties DEF Answer, TypeOK, ServerTypeOK
<1> QED BY <1>2 DEF Answer, NoJob, Jobs, Content

LEMMA SessionTyping ==
    ASSUME TypeOK, SessionLoop, UNCHANGED clientVars
    PROVE  TypeOK'
<1> DEFINE JobType == [op : Jobs, image : Content, pos : Nat, open : BOOLEAN]
<1> USE DEF TypeOK, mainVars, sessionVars, channels
<1>0. ClientTypeOK'
  BY DEF ClientTypeOK, clientVars
<1>1. ASSUME workQ # <<>>
      PROVE  /\ Head(workQ).image \in Content
             /\ Tail(workQ) \in Seq(Calls)
  <2>1. Head(workQ) \in Calls /\ Tail(workQ) \in Seq(Calls)
    BY <1>1, HeadTailProperties DEF ServerTypeOK
  <2> QED BY <2>1 DEF Calls, Content
<1>2. CASE BeginInitialize
  <2>1. job' \in JobType
    BY <1>2 DEF BeginInitialize, NoJob, Jobs, Content
  <2> QED BY <1>0, <1>1, <1>2, <2>1
          DEF BeginInitialize, TakeWork, IPCTypeOK, ServerTypeOK
<1>3. CASE EndInitialize
  <2>1. posted' \in Seq(Signals) /\ job' \in JobType
    BY <1>3, AnswerTyping
       DEF EndInitialize, NotPlugged, Initialized, Answers, Statuses
  <2> QED BY <1>0, <1>3, <2>1
          DEF EndInitialize, NotPlugged, Initialized, IPCTypeOK, ServerTypeOK
<1>4. CASE BeginFlash
  <2>1. CASE ~edgeDevice /\ Segfault
    BY <2>1, DeathTyping DEF Segfault
  <2>2. CASE edgeDevice
    <3>1. job' \in JobType
      BY <1>1, <1>4, <2>2 DEF BeginFlash, TakeWork, Jobs
    <3> QED BY <1>0, <1>1, <1>4, <2>2, <3>1
            DEF BeginFlash, TakeWork, IPCTypeOK, ServerTypeOK
  <2> QED BY <1>4, <2>1, <2>2 DEF BeginFlash
<1>5. CASE FlashBlock
  <2>1. [job EXCEPT !.pos = job.pos + 1] \in JobType
    BY DEF ServerTypeOK
  <2>2. posted' \in Seq(Signals) /\ job' \in JobType
    BY <1>5, <2>1, AnswerTyping
       DEF FlashBlock, Advance, Answers, Statuses, ServerTypeOK
  <2>3. dev' \in [Blocks -> Content]
    BY <1>5 DEF FlashBlock, ServerTypeOK, Content
  <2> QED BY <1>0, <1>5, <2>2, <2>3 DEF FlashBlock, IPCTypeOK, ServerTypeOK
<1>6. CASE EndFlash
  <2>1. posted' \in Seq(Signals) /\ job' \in JobType
    BY <1>6, AnswerTyping DEF EndFlash, Answers, Statuses
  <2> QED BY <1>0, <1>6, <2>1 DEF EndFlash, IPCTypeOK, ServerTypeOK
<1>7. CASE CancelFlash
  <2>1. posted' \in Seq(Signals) /\ job' \in JobType
    BY <1>7, AnswerTyping DEF CancelFlash, Answers, Statuses
  <2> QED BY <1>0, <1>7, <2>1 DEF CancelFlash, IPCTypeOK, ServerTypeOK
<1>8. CASE BeginCheck
  <2>1. [op |-> "crcImage", image |-> Head(workQ).image, pos |-> 0,
         open |-> TRUE] \in JobType
    BY <1>1, <1>8 DEF BeginCheck, TakeWork, Jobs
  <2>2. CASE Answer("checkOnCorrectnessFinished", "Failed")
    <3>1. posted' \in Seq(Signals) /\ job' \in JobType
      BY <2>2, AnswerTyping DEF Answers, Statuses
    <3> QED BY <1>0, <1>1, <1>8, <3>1
            DEF BeginCheck, TakeWork, IPCTypeOK, ServerTypeOK
  <2>3. CASE ~Answer("checkOnCorrectnessFinished", "Failed")
    <3>1. posted' \in Seq(Signals) /\ job' \in JobType
      BY <1>8, <2>1, <2>3 DEF BeginCheck, ServerTypeOK
    <3> QED BY <1>0, <1>1, <1>8, <3>1
            DEF BeginCheck, TakeWork, IPCTypeOK, ServerTypeOK
  <2> QED BY <2>2, <2>3
<1>9. CASE ComputeImageCRC
  <2>1. CASE Segfault
    BY <2>1, DeathTyping DEF Segfault
  <2>2. CASE ~Segfault
    <3>1. posted' \in Seq(Signals) /\ job' \in JobType
      BY <1>9, <2>2, AnswerTyping
         DEF ComputeImageCRC, ComputeCRC, Answers, Statuses, Jobs, ServerTypeOK
    <3> QED BY <1>0, <1>9, <2>2, <3>1
            DEF ComputeImageCRC, ComputeCRC, IPCTypeOK, ServerTypeOK
  <2> QED BY <2>1, <2>2
<1>10. CASE ComputeDeviceCRC
  <2>1. posted' \in Seq(Signals) /\ job' \in JobType
    BY <1>10, AnswerTyping
       DEF ComputeDeviceCRC, ComputeCRC, Verdict, Answers, Statuses
  <2> QED BY <1>0, <1>10, <2>1
          DEF ComputeDeviceCRC, ComputeCRC, IPCTypeOK, ServerTypeOK
<1>11. CASE ThreadEnds
  BY <1>0, <1>11 DEF ThreadEnds, IPCTypeOK, ServerTypeOK
<1> QED BY <1>2, <1>3, <1>4, <1>5, <1>6, <1>7, <1>8, <1>9, <1>10, <1>11
        DEF SessionLoop

\* Every reachable state is well typed: channels hold calls and signals of the
\* remote object, and no step of a handler or of a thread leaves its states.
THEOREM TypeCorrect == Spec => []TypeOK
<1>1. Init => TypeOK
  BY InitTyping
<1>2. TypeOK /\ [Next]_vars => TypeOK'
  <2> SUFFICES ASSUME TypeOK, [Next]_vars PROVE TypeOK'
    OBVIOUS
  <2>1. CASE ClientStep
    BY <2>1, ApplicationTyping, ClientLoopTyping DEF ClientStep
  <2>2. CASE ServerStep
    BY <2>2, MainTyping, SessionTyping, DeathTyping
       DEF ServerStep, HeartbeatTimeout
  <2>3. CASE UNCHANGED vars
    BY <2>3 DEF TypeOK, IPCTypeOK, ClientTypeOK, ServerTypeOK, vars, channels,
                clientVars, serverVars, mainVars, sessionVars
  <2> QED BY <2>1, <2>2, <2>3 DEF Next
<1> QED BY <1>1, <1>2, PTL DEF Spec
-----------------------------------------------------------------------------
\* The session the client believes in

LEMMA LeadsToAppendOther ==
    ASSUME NEW queue \in Seq(Calls), NEW call \in Calls,
           call.slot \notin SessionSlots,
           NEW exists, NEW opened, LeadsTo(queue, exists, opened)
    PROVE  LeadsTo(queue \o <<call>>, exists, opened)
<1> DEFINE longer == queue \o <<call>>
<1>1. /\ DOMAIN longer = 1..(Len(queue) + 1)
      /\ DOMAIN queue = 1..Len(queue)
      /\ longer[Len(queue) + 1] = call
      /\ \A i \in DOMAIN queue : longer[i] = queue[i]
  OBVIOUS
<1>2. \A i \in DOMAIN longer : LastSessionCall(longer, i) =>
          i \in DOMAIN queue /\ LastSessionCall(queue, i)
  BY <1>1 DEF LastSessionCall
<1>3. (\A i \in DOMAIN longer : longer[i].slot \notin SessionSlots) =>
          \A i \in DOMAIN queue : queue[i].slot \notin SessionSlots
  BY <1>1
<1> QED BY <1>1, <1>2, <1>3 DEF LeadsTo

LEMMA LeadsToAppendSession ==
    ASSUME NEW queue \in Seq(Calls), NEW call \in Calls,
           call.slot \in SessionSlots, NEW exists
    PROVE  LeadsTo(queue \o <<call>>, exists, call.slot = "openSession")
<1> DEFINE longer == queue \o <<call>>
<1>1. /\ DOMAIN longer = 1..(Len(queue) + 1)
      /\ longer[Len(queue) + 1] = call
  OBVIOUS
<1>2. \A i \in DOMAIN longer : LastSessionCall(longer, i) => longer[i] = call
  BY <1>1 DEF LastSessionCall
<1> QED BY <1>1, <1>2 DEF LeadsTo

LEMMA LeadsToTailOther ==
    ASSUME NEW queue \in Seq(Calls), queue # <<>>,
           Head(queue).slot \notin SessionSlots,
           NEW exists, NEW opened, LeadsTo(queue, exists, opened)
    PROVE  LeadsTo(Tail(queue), exists, opened)
<1> DEFINE rest == Tail(queue)
<1>1. /\ DOMAIN rest = 1..(Len(queue) - 1)
      /\ DOMAIN queue = 1..Len(queue)
      /\ Head(queue) = queue[1]
      /\ \A i \in DOMAIN rest : rest[i] = queue[i + 1]
  OBVIOUS
<1>2. \A i \in DOMAIN rest : LastSessionCall(rest, i) =>
          LastSessionCall(queue, i + 1)
  <2> SUFFICES ASSUME NEW i \in DOMAIN rest, LastSessionCall(rest, i)
               PROVE  LastSessionCall(queue, i + 1)
    OBVIOUS
  <2>1. i + 1 \in DOMAIN queue /\ queue[i + 1].slot \in SessionSlots
    BY <1>1 DEF LastSessionCall
  <2>2. ASSUME NEW j \in DOMAIN queue, j > i + 1
        PROVE  queue[j].slot \notin SessionSlots
    <3>1. j - 1 \in DOMAIN rest /\ j - 1 > i /\ (j - 1) + 1 = j
      BY <1>1, <2>2
    <3> QED BY <1>1, <3>1 DEF LastSessionCall
  <2> QED BY <2>1, <2>2 DEF LastSessionCall
<1>3. (\A i \in DOMAIN rest : rest[i].slot \notin SessionSlots) =>
          \A i \in DOMAIN queue : queue[i].slot \notin SessionSlots
  <2> SUFFICES ASSUME \A i \in DOMAIN rest : rest[i].slot \notin SessionSlots,
                      NEW i \in DOMAIN queue
               PROVE  queue[i].slot \notin SessionSlots
    OBVIOUS
  <2>1. CASE i = 1
    BY <1>1, <2>1
  <2>2. CASE i # 1
    <3>1. i - 1 \in DOMAIN rest /\ (i - 1) + 1 = i
      BY <1>1, <2>2
    <3> QED BY <1>1, <3>1
  <2> QED BY <2>1, <2>2
<1>4. \A i \in DOMAIN rest : i + 1 \in DOMAIN queue
  BY <1>1
<1> QED BY <1>1, <1>2, <1>3, <1>4 DEF LeadsTo

LEMMA LeadsToTailSession ==
    ASSUME NEW queue \in Seq(Calls), queue # <<>>,
           Head(queue).slot \in SessionSlots,
           NEW exists, NEW opened, LeadsTo(queue, exists, opened)
    PROVE  LeadsTo(Tail(queue), Head(queue).slot = "openSession", opened)
<1> DEFINE rest == Tail(queue)
<1>1. /\ DOMAIN rest = 1..(Len(queue) - 1)
      /\ DOMAIN queue = 1..Len(queue)
      /\ 1 \in DOMAIN queue
      /\ Head(queue) = queue[1]
      /\ \A i \in DOMAIN rest : rest[i] = queue[i + 1] /\ i + 1 \in DOMAIN queue
  OBVIOUS
<1>2. \A j \in DOMAIN queue : j > 1 => j - 1 \in DOMAIN rest /\ (j - 1) + 1 = j
  BY <1>1
<1>3. \A i \in DOMAIN rest : LastSessionCall(rest, i) =>
          LastSessionCall(queue, i + 1)
  <2> SUFFICES ASSUME NEW i \in DOMAIN rest, LastSessionCall(rest, i)
               PROVE  LastSessionCall(queue, i + 1)
    OBVIOUS
  <2>1. i + 1 \in DOMAIN queue /\ queue[i + 1].slot \in SessionSlots
    BY <1>1 DEF LastSessionCall
  <2>2. ASSUME NEW j \in DOMAIN queue, j > i + 1
        PROVE  queue[j].slot \notin SessionSlots
    <3>1. j - 1 \in DOMAIN rest /\ j - 1 > i /\ (j - 1) + 1 = j
      BY <1>1, <2>2
    <3> QED BY <1>1, <3>1 DEF LastSessionCall
  <2> QED BY <2>1, <2>2 DEF LastSessionCall
<1>4. (\A i \in DOMAIN rest : rest[i].slot \notin SessionSlots) =>
          LastSessionCall(queue, 1)
  BY <1>1, <1>2 DEF LastSessionCall
<1>5. (\A i \in DOMAIN rest : rest[i].slot \notin SessionSlots) =>
          opened = (Head(queue).slot = "openSession")
  BY <1>1, <1>4 DEF LeadsTo
<1>6. \A i \in DOMAIN rest : LastSessionCall(rest, i) =>
          opened = (rest[i].slot = "openSession")
  BY <1>1, <1>3 DEF LeadsTo
<1> QED BY <1>5, <1>6 DEF LeadsTo

LEMMA MirrorInit == Init => SessionMirror
<1> SUFFICES ASSUME Init PROVE LeadsTo(toServer, session /\ ~closing, sessionOpened)
  BY DEF SessionMirror
<1>1. DOMAIN toServer = {}
  BY DEF Init, IPCInit
<1>2. sessionOpened = FALSE /\ (session /\ ~closing) = FALSE
  BY DEF Init, ClientInit, ServerInit
<1> QED BY <1>1, <1>2 DEF LeadsTo

\* Nothing is promised of an updater that has ended.
LEMMA MirrorDeath ==
    ASSUME NEW how \in {"exited", "crashed"}, ProcessDies(how)
    PROVE  SessionMirror'
BY DEF ProcessDies, Die, SessionMirror, Running

\* A step of the client that asks for no other session.
LEMMA MirrorInvokeOther ==
    ASSUME TypeOK, SessionMirror, NEW call \in Calls,
           call.slot \notin SessionSlots, Invoke(<<call>>),
           UNCHANGED <<process, sessionOpened, session, closing>>
    PROVE  SessionMirror'
<1> SUFFICES ASSUME Running' PROVE LeadsTo(toServer, session /\ ~closing, sessionOpened)'
  BY DEF SessionMirror
<1>1. toServer' = toServer \o <<call>> /\ Running
  BY DEF Invoke, Running
<1>2. LeadsTo(toServer \o <<call>>, session /\ ~closing, sessionOpened)
  BY <1>1, LeadsToAppendOther DEF SessionMirror, TypeOK, IPCTypeOK
<1> QED BY <1>1, <1>2

LEMMA MirrorClose ==
    ASSUME TypeOK, SessionMirror, Invoke(<<Call("closeSession")>>),
           sessionOpened' = FALSE, UNCHANGED <<process, session, closing>>
    PROVE  SessionMirror'
<1> SUFFICES ASSUME Running' PROVE LeadsTo(toServer, session /\ ~closing, sessionOpened)'
  BY DEF SessionMirror
<1>1. toServer' = toServer \o <<Call("closeSession")>>
  BY DEF Invoke, Running
<1>2. Call("closeSession") \in Calls /\ Call("closeSession").slot = "closeSession"
  BY CallTyping DEF Call, Slots, SessionSlots
<1>3. LeadsTo(toServer \o <<Call("closeSession")>>, session /\ ~closing,
              Call("closeSession").slot = "openSession")
  BY <1>2, LeadsToAppendSession DEF TypeOK, IPCTypeOK, SessionSlots
<1>4. (Call("closeSession").slot = "openSession") = FALSE
  BY <1>2
<1> QED BY <1>1, <1>3, <1>4

LEMMA ConcatThree ==
    ASSUME NEW S, NEW s \in Seq(S), NEW x \in S, NEW y \in S, NEW z \in S
    PROVE  s \o <<x, y, z>> = ((s \o <<x>>) \o <<y>>) \o <<z>>
<1> DEFINE t == (<<x>> \o <<y>>) \o <<z>>
           u == <<x, y, z>>
<1>1. u = t
  <2>1. t \in Seq(S) /\ Len(t) = 3 /\ t[1] = x /\ t[2] = y /\ t[3] = z
    OBVIOUS
  <2>2. u \in Seq(S) /\ Len(u) = 3 /\ u[1] = x /\ u[2] = y /\ u[3] = z
    OBVIOUS
  <2>3. \A i \in 1..3 : i = 1 \/ i = 2 \/ i = 3
    OBVIOUS
  <2> HIDE DEF t, u
  <2>4. \A i \in 1..Len(u) : u[i] = t[i]
    BY <2>1, <2>2, <2>3
  <2> QED BY <2>1, <2>2, <2>4, SeqEqual
<1>2. (s \o (<<x>> \o <<y>>)) \o <<z>> = ((s \o <<x>>) \o <<y>>) \o <<z>>
  BY ConcatAssociative
<1>3. s \o ((<<x>> \o <<y>>) \o <<z>>) = (s \o (<<x>> \o <<y>>)) \o <<z>>
  <2>1. <<x>> \o <<y>> \in Seq(S) /\ <<z>> \in Seq(S)
    OBVIOUS
  <2> QED BY <2>1, ConcatAssociative
<1> QED BY <1>1, <1>2, <1>3

\* initializeDevice ends with a session that is open, whatever was before.
LEMMA MirrorReopen ==
    ASSUME TypeOK, SessionMirror, sessionOpened' = TRUE,
           Invoke(<<Call("closeSession"), Call("openSession"),
                    Call("initializeEdgeDevice")>>),
           UNCHANGED <<process, session, closing>>
    PROVE  SessionMirror'
<1> DEFINE close == Call("closeSession")
           open == Call("openSession")
           init == Call("initializeEdgeDevice")
           actual == session /\ ~closing
<1> SUFFICES ASSUME Running' PROVE LeadsTo(toServer, actual, sessionOpened)'
  BY DEF SessionMirror
<1>1. toServer' = ((toServer \o <<close>>) \o <<open>>) \o <<init>>
  <2>1. toServer' = toServer \o <<close, open, init>>
    BY DEF Invoke, Running
  <2>2. close \in Calls /\ open \in Calls /\ init \in Calls
    BY CallTyping DEF Slots, SessionSlots, WorkSlots
  <2> HIDE DEF close, open, init
  <2>3. toServer \in Seq(Calls)
    BY DEF TypeOK, IPCTypeOK
  <2> QED BY <2>1, <2>2, <2>3, ConcatThree
<1>2. /\ open \in Calls /\ open.slot = "openSession"
      /\ init \in Calls /\ init.slot = "initializeEdgeDevice"
  BY CallTyping DEF Call, Slots, SessionSlots, WorkSlots
<1>3. toServer \o <<close>> \in Seq(Calls)
  BY CallTyping, ConcatProperties DEF TypeOK, IPCTypeOK, Slots, SessionSlots
<1>4. (toServer \o <<close>>) \o <<open>> \in Seq(Calls)
  BY <1>2, <1>3, ConcatProperties
<1> HIDE DEF open, init, actual
<1>5. LeadsTo((toServer \o <<close>>) \o <<open>>, actual, open.slot = "openSession")
  BY <1>2, <1>3, LeadsToAppendSession DEF SessionSlots
<1>6. LeadsTo((toServer \o <<close>>) \o <<open>>, actual, TRUE)
  <2>1. (open.slot = "openSession") = TRUE
    BY <1>2
  <2> QED BY <1>5, <2>1
<1>7. LeadsTo(((toServer \o <<close>>) \o <<open>>) \o <<init>>, actual, TRUE)
  BY <1>2, <1>4, <1>6, LeadsToAppendOther DEF SessionSlots
<1>8. actual' = actual
  BY DEF actual
<1> QED BY <1>1, <1>7, <1>8

LEMMA MirrorClientStep ==
    ASSUME TypeOK, SessionMirror, ClientStep
    PROVE  SessionMirror'
<1>0. UNCHANGED <<session, closing>>
  BY DEF ClientStep, serverVars, mainVars
<1>1. CASE InitializeDevice
  BY <1>0, <1>1, MirrorReopen DEF InitializeDevice, InitializeDeviceImpl
<1>2. CASE \E image \in Images, checksum \in BOOLEAN : Flash(image, checksum)
  <2>1. PICK image \in Images, checksum \in BOOLEAN : Flash(image, checksum)
    BY <1>2
  <2> DEFINE call == [slot |-> "flash", image |-> image]
  <2>2. call \in Calls /\ call.slot \notin SessionSlots
    BY CallTyping DEF SessionSlots
  <2>3. Invoke(<<call>>) /\ UNCHANGED <<process, sessionOpened>>
    BY <2>1 DEF Flash, FlashImpl
  <2> HIDE DEF call
  <2> QED BY <1>0, <2>2, <2>3, MirrorInvokeOther
<1>3. ASSUME NEW slot \in {"cancel", "finish", "checkOnCorrectness"},
             Invoke(<<Call(slot)>>), UNCHANGED <<process, sessionOpened>>
      PROVE  SessionMirror'
  <2>1. Call(slot) \in Calls /\ Call(slot).slot \notin SessionSlots
    BY CallTyping DEF Call, Slots, WorkSlots, SessionSlots
  <2> QED BY <1>0, <1>3, <2>1, MirrorInvokeOther
<1>4. CASE Cancel
  BY <1>3, <1>4 DEF Cancel
<1>5. CASE Finish
  BY <1>3, <1>5 DEF Finish
<1>6. ASSUME UNCHANGED <<process, toServer, sessionOpened>>
      PROVE  SessionMirror'
  BY <1>0, <1>6 DEF SessionMirror, Running
<1>7. CASE HandleInitializingFinished
  BY <1>6, <1>7 DEF HandleInitializingFinished
<1>8. CASE HandleFlashAnswer
  BY <1>6, <1>8 DEF HandleFlashAnswer
<1>9. CASE RunHandler
  <2>0. process' = process
    BY <1>9 DEF RunHandler
  <2>1. ASSUME NEW success, ReportFlashed(success) PROVE SessionMirror'
    BY <1>0, <2>0, <2>1, MirrorClose DEF ReportFlashed
  <2>2. ASSUME NEW status, OnFlashingFinished(status) PROVE SessionMirror'
    BY <1>3, <1>6, <2>0, <2>1, <2>2 DEF OnFlashingFinished
  <2>3. ASSUME NEW status, OnUpdatingFinished(status) PROVE SessionMirror'
    BY <1>6, <2>0, <2>1, <2>3 DEF OnUpdatingFinished
  <2> QED BY <1>9, <2>2, <2>3 DEF RunHandler
<1>10. CASE ReplicaLost
  BY <1>6, <1>10 DEF ReplicaLost, channels
<1> QED BY <1>1, <1>2, <1>4, <1>5, <1>7, <1>8, <1>9, <1>10
        DEF ClientStep, Application, ClientLoop

LEMMA MirrorServerStep ==
    ASSUME TypeOK, SessionMirror, ServerStep
    PROVE  SessionMirror'
<1> USE DEF mainVars, sessionVars, channels
<1>0. UNCHANGED sessionOpened
  BY DEF ServerStep, clientVars
<1>1. ASSUME UNCHANGED <<process, toServer, session, closing>>
      PROVE  SessionMirror'
  BY <1>0, <1>1 DEF SessionMirror, Running
<1>2. ASSUME NEW slots, TakeCall(slots)
      PROVE  /\ toServer \in Seq(Calls) /\ toServer # <<>>
             /\ Head(toServer).slot \in slots
             /\ closing = FALSE
             /\ LeadsTo(toServer, session /\ ~closing, sessionOpened)
  BY <1>2 DEF TakeCall, MainRuns, SessionMirror, TypeOK, IPCTypeOK, ServerTypeOK
<1>3. CASE OpenSession
  <2>0. TakeCall({"openSession"}) /\ toServer' = Tail(toServer)
    BY <1>3 DEF OpenSession
  <2>1. Head(toServer).slot = "openSession"
    BY <2>0 DEF TakeCall
  <2>2. LeadsTo(Tail(toServer), Head(toServer).slot = "openSession", sessionOpened)
    BY <1>2, <2>0, <2>1, LeadsToTailSession DEF SessionSlots
  <2>3. session' = TRUE /\ closing' = FALSE
    BY <1>2, <1>3, <2>0 DEF OpenSession, TypeOK, ServerTypeOK
  <2>4. (session /\ ~closing)' = (Head(toServer).slot = "openSession")
    BY <2>1, <2>3
  <2> QED BY <1>0, <2>0, <2>2, <2>4 DEF SessionMirror
<1>4. CASE CloseSession
  <2>0. TakeCall({"closeSession"}) /\ toServer' = Tail(toServer)
    BY <1>4 DEF CloseSession
  <2>1. Head(toServer).slot = "closeSession"
    BY <2>0 DEF TakeCall
  <2>2. LeadsTo(Tail(toServer), Head(toServer).slot = "openSession", sessionOpened)
    BY <1>2, <2>0, <2>1, LeadsToTailSession DEF SessionSlots
  <2>3. session' = FALSE \/ closing' = TRUE
    BY <1>2, <1>4, <2>0 DEF CloseSession, TypeOK, ServerTypeOK
  <2>4. (session /\ ~closing)' = (Head(toServer).slot = "openSession")
    BY <2>1, <2>3
  <2> QED BY <1>0, <2>0, <2>2, <2>4 DEF SessionMirror
<1>5. CASE CloseSessionReturns
  <2>1. (session /\ ~closing)' = (session /\ ~closing)
    BY <1>5 DEF CloseSessionReturns
  <2> QED BY <1>0, <1>5, <2>1 DEF CloseSessionReturns, SessionMirror, Running
<1>6. ASSUME NEW slots, slots \cap SessionSlots = {}, TakeCall(slots),
             toServer' = Tail(toServer), UNCHANGED <<process, session, closing>>
      PROVE  SessionMirror'
  <2>1. LeadsTo(Tail(toServer), session /\ ~closing, sessionOpened)
    BY <1>2, <1>6, LeadsToTailOther
  <2> QED BY <1>0, <1>6, <2>1 DEF SessionMirror, Running
<1>7. CASE PerformWork
  BY <1>6, <1>7 DEF PerformWork, WorkSlots, SessionSlots
<1>8. CASE CancelWork
  BY <1>6, <1>8 DEF CancelWork, SessionSlots
<1>9. CASE FinishProcess \/ HeartbeatTimeout
  BY <1>9, MirrorDeath DEF FinishProcess, HeartbeatTimeout
<1>10. CASE ForwardAnswer
  BY <1>1, <1>10 DEF ForwardAnswer
<1>11. CASE SessionLoop
  <2>1. ASSUME Segfault PROVE SessionMirror'
    BY <2>1, MirrorDeath DEF Segfault
  <2>2. CASE BeginFlash
    BY <1>1, <2>1, <2>2 DEF BeginFlash
  <2>3. CASE ComputeImageCRC
    BY <1>1, <2>1, <2>3 DEF ComputeImageCRC
  <2> QED BY <1>1, <1>11, <2>2, <2>3
          DEF SessionLoop, BeginInitialize, EndInitialize, FlashBlock, EndFlash,
              CancelFlash, BeginCheck, ComputeDeviceCRC, ThreadEnds
<1> QED BY <1>3, <1>4, <1>5, <1>7, <1>8, <1>9, <1>10, <1>11
        DEF ServerStep, MainLoop

\* The client's belief about the session of the updater is what the updater
\* makes of the calls on their way, in every behaviour of both, whether the
\* application calls back from handlers or flashes uninitialized devices.
THEOREM SessionMirrored == Spec => []SessionMirror
<1>1. Init => SessionMirror
  BY MirrorInit
<1>2. TypeOK /\ SessionMirror /\ [Next]_vars => SessionMirror'
  <2> SUFFICES ASSUME TypeOK, SessionMirror, [Next]_vars PROVE SessionMirror'
    OBVIOUS
  <2>1. CASE ClientStep
    BY <2>1, MirrorClientStep
  <2>2. CASE ServerStep
    BY <2>2, MirrorServerStep
  <2>3. CASE UNCHANGED vars
    BY <2>3 DEF SessionMirror, Running, vars, channels, clientVars, serverVars,
                mainVars
  <2> QED BY <2>1, <2>2, <2>3 DEF Next
<1> QED BY <1>1, <1>2, TypeCorrect, PTL DEF Spec
=============================================================================
