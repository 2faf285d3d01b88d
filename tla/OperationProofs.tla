-------------------------- MODULE OperationProofs --------------------------
(***************************************************************************)
(* Theorems about the operations an application runs through UpdateSystem: *)
(* that an operation of an application that does not call from inside      *)
(* handlers (~Reentrant) is one piece of work, which is in one place at a  *)
(* time, a call on its way, a slot that is queued, a job, an answer or a   *)
(* handler; and what follows from it, for every set of firmware files,     *)
(* every device and every number of calls.                                 *)
(***************************************************************************)
EXTENDS UpdateSystemProofs

-----------------------------------------------------------------------------
(* The inductive invariant *)

\* Is there one of these slots in the queue?
Has(queue, slots) == \E i \in DOMAIN queue : queue[i].slot \in slots

\* What the client waits for in its state.
Awaits(slot) ==
    \/ state = "Initializing" /\ slot = "initializeEdgeDevice"
    \/ state = "Flashing" /\ slot = "flash"
    \/ state = "ComputingChecksum" /\ slot = "checkOnCorrectness"

AwaitsAnswer(signal) ==
    \/ state = "Initializing" /\ signal = "initializingFinished"
    \/ state = "Flashing" /\ signal = "flashingFinished"
    \/ state = "ComputingChecksum" /\ signal = "checkOnCorrectnessFinished"

AwaitsJob(op) ==
    \/ state = "Initializing" /\ op = "initializeEdgeDevice"
    \/ state = "Flashing" /\ op = "flash"
    \/ state = "ComputingChecksum" /\ op \in {"crcImage", "crcDevice"}

NoWork   == workQ = <<>> /\ job.op = "none"
NoAnswer == posted = <<>> /\ toClient = <<>>

\* In a queue of calls work is behind every open and close, and there is one.
WorkLast(queue) ==
    \A i, j \in DOMAIN queue :
        i < j /\ queue[i].slot \in WorkSlots
          => queue[j].slot \notin WorkSlots \cup SessionSlots

CallsInv ==
    /\ WorkLast(toServer)
    /\ \A i \in DOMAIN toServer : toServer[i].slot \in WorkSlots =>
          /\ Awaits(toServer[i].slot)
          /\ toServer[i].slot = "flash" => toServer[i].image = request.image
    /\ Has(toServer, WorkSlots) => dispatch = <<>>
    /\ Has(toServer, WorkSlots \cup SessionSlots) => NoWork /\ NoAnswer

QueueInv ==
    workQ # <<>> =>
      /\ Len(workQ) = 1
      /\ Awaits(Head(workQ).slot)
      /\ Head(workQ).slot \in {"flash", "checkOnCorrectness"}
           => Head(workQ).image = request.image
      /\ job.op = "none" /\ NoAnswer /\ dispatch = <<>>

JobInv ==
    job.op # "none" =>
      /\ AwaitsJob(job.op)
      /\ job.op # "initializeEdgeDevice" => job.image = request.image
      /\ NoAnswer /\ dispatch = <<>>

AnswerInv ==
    /\ posted # <<>> =>
         /\ Len(posted) = 1 /\ AwaitsAnswer(Head(posted).signal)
         /\ toClient = <<>> /\ dispatch = <<>>
    /\ toClient # <<>> =>
         /\ Len(toClient) = 1 /\ AwaitsAnswer(Head(toClient).signal)
         /\ dispatch = <<>>

\* The handler of the answer to a flash.
FlashHandler == IF request.checksum THEN "check" ELSE "finish"

\* The answer to a flash has one handler; those of a check are all the same.
HandlersInv ==
    /\ state \in {"Idle", "Initializing", "ComputingChecksum"}
         => handlers["flashingFinished"] = <<>>
    /\ state = "Flashing" =>
         handlers["flashingFinished"] = <<>> \/ handlers["flashingFinished"] = <<FlashHandler>>
    /\ state = "Flashing" /\ dispatch # <<>> => handlers["flashingFinished"] = <<>>
    /\ \A i \in DOMAIN handlers["checkOnCorrectnessFinished"] :
         handlers["checkOnCorrectnessFinished"][i] = "finish"

DispatchInv ==
    dispatch # <<>> =>
      /\ state \in {"Flashing", "ComputingChecksum", "Idle"}
      /\ state = "Flashing" => Len(dispatch) = 1 /\ Head(dispatch).handler = FlashHandler
      /\ state # "Flashing" => \A i \in DOMAIN dispatch : dispatch[i].handler = "finish"
      /\ \A i \in DOMAIN dispatch : dispatch[i].status = Head(dispatch).status

\* Whoever waits for work has opened a session for it.
SessionInv == state \in Busy => sessionOpened

\* closeSession finds no work; what a process that has ended had is gone.
ServerInv ==
    /\ closing => NoWork
    /\ ~Running => toServer = <<>> /\ NoWork /\ posted = <<>>

\* The file name the updater remembers is that of the request.
FirmwareInv ==
    Running /\ state \in Updating =>
        firmware = request.image \/ Has(toServer, {"flash"})

OperationInv ==
    /\ CallsInv /\ QueueInv /\ JobInv /\ AnswerInv /\ HandlersInv /\ DispatchInv
    /\ SessionInv /\ ServerInv /\ FirmwareInv

-----------------------------------------------------------------------------
(* What it has to be strengthened with for the properties that follow *)

\* A check that is answered with success has found the image on the device.
Found(answers) ==
    answers # <<>> /\ Head(answers) = [signal |-> "checkOnCorrectnessFinished",
                                       status |-> "Succeed"]
      => Holds(request.image)

\* While a file is written and checked nothing is reported, and what is reported stays.
VerifiedInv ==
    /\ state \in Updating => outcome = "none" /\ request.image \in Images
    /\ Found(posted) /\ Found(toClient)
    /\ dispatch # <<>> /\ state # "Flashing" /\ Head(dispatch).status = "Succeed"
         => Holds(request.image)
    /\ dispatch # <<>> /\ state = "Idle" =>
         /\ Head(dispatch).status = "Succeed" => outcome = "true"
         /\ Head(dispatch).status = "Failed" => outcome = "false"
    /\ VerifiedMeansWritten

\* A session is opened when there is none.
OpensAfterClose(queue, exists) ==
    \A i \in DOMAIN queue : queue[i].slot = "openSession" =>
        \/ i = 1 /\ ~exists
        \/ i > 1 /\ queue[i - 1].slot = "closeSession"

\* Every cancel in the queue is before an open.
CancelsBeforeOpen(queue) ==
    \A i \in DOMAIN queue : queue[i].slot = "cancel" =>
        \E j \in DOMAIN queue : i < j /\ queue[j].slot = "openSession"

NotCancelled(answers) == answers # <<>> => Head(answers).status # "Cancelled"

\* A cancel of before initializeDevice is in a session that will be closed.
CancelInv ==
    /\ OpensAfterClose(toServer, session /\ ~closing)
    /\ ~cancelAsked =>
         /\ NotCancelled(posted) /\ NotCancelled(toClient)
         /\ Running => CancelsBeforeOpen(toServer)
         /\ Running /\ cancelReq => Has(toServer, {"openSession"})

\* An initialization that is answered with success has set the device.
Made(answers) ==
    answers # <<>> /\ Head(answers) = [signal |-> "initializingFinished",
                                       status |-> "Succeed"]
      => edgeDevice

\* An application that flashes only what was initialized finds the device of its
\* session set, and the file of the device from the flash on.
DeviceInv ==
    /\ NoNullDereference
    /\ state = "Initializing" => ~ready
    /\ state \in Updating => ready
    /\ Running =>
         /\ ready => edgeDevice /\ ~Has(toServer, {"openSession"})
         /\ Made(posted) /\ Made(toClient)
         /\ state \in Updating =>
              ioDevice \/ Has(toServer, {"flash"}) \/ Has(workQ, {"flash"})

\* Work is queued to a thread that runs, and who waits for a check listens to it.
LostInv ==
    /\ WorkNotLost
    /\ session /\ ~closing => thread = "running"
    /\ workQ # <<>> => session
    /\ state = "Flashing" /\ request.checksum
         => handlers["checkOnCorrectnessFinished"] # <<>>
    /\ state = "ComputingChecksum" /\ dispatch = <<>>
         => handlers["checkOnCorrectnessFinished"] # <<>>

-----------------------------------------------------------------------------
(* Queues of calls *)

LEMMA HasConcat ==
    ASSUME NEW queue \in Seq(Calls), NEW more \in Seq(Calls), NEW slots
    PROVE  Has(queue \o more, slots) <=> Has(queue, slots) \/ Has(more, slots)
<1> DEFINE longer == queue \o more
<1>1. /\ DOMAIN queue = 1..Len(queue) /\ DOMAIN more = 1..Len(more)
      /\ DOMAIN longer = 1..(Len(queue) + Len(more))
      /\ Len(queue) \in Nat /\ Len(more) \in Nat
      /\ \A i \in DOMAIN longer : longer[i] = IF i <= Len(queue) THEN queue[i]
                                              ELSE more[i - Len(queue)]
  BY ConcatProperties, LenProperties
<1> HIDE DEF longer
<1>2. ASSUME Has(longer, slots) PROVE Has(queue, slots) \/ Has(more, slots)
  <2>1. PICK i \in DOMAIN longer : longer[i].slot \in slots
    BY <1>2 DEF Has
  <2>2. CASE i <= Len(queue)
    BY <1>1, <2>1, <2>2 DEF Has
  <2>3. CASE i > Len(queue)
    <3>1. i - Len(queue) \in DOMAIN more /\ longer[i] = more[i - Len(queue)]
      BY <1>1, <2>3
    <3> QED BY <2>1, <3>1 DEF Has
  <2> QED BY <1>1, <2>2, <2>3
<1>3. ASSUME Has(queue, slots) PROVE Has(longer, slots)
  <2>1. PICK i \in DOMAIN queue : queue[i].slot \in slots
    BY <1>3 DEF Has
  <2>2. i \in DOMAIN longer /\ longer[i] = queue[i]
    BY <1>1
  <2> QED BY <2>1, <2>2 DEF Has
<1>4. ASSUME Has(more, slots) PROVE Has(longer, slots)
  <2>1. PICK i \in DOMAIN more : more[i].slot \in slots
    BY <1>4 DEF Has
  <2>2. i + Len(queue) \in DOMAIN longer /\ ~(i + Len(queue) <= Len(queue))
    BY <1>1
  <2>3. (i + Len(queue)) - Len(queue) = i
    BY <1>1
  <2>4. longer[i + Len(queue)] = more[i]
    BY <1>1, <2>2, <2>3
  <2> QED BY <2>1, <2>2, <2>4 DEF Has
<1> QED BY <1>2, <1>3, <1>4 DEF longer

LEMMA HasTail ==
    ASSUME NEW queue \in Seq(Calls), queue # <<>>, NEW slots
    PROVE  Has(queue, slots) <=> Head(queue).slot \in slots \/ Has(Tail(queue), slots)
<1> DEFINE rest == Tail(queue)
<1>1. /\ DOMAIN rest = 1..(Len(queue) - 1) /\ DOMAIN queue = 1..Len(queue)
      /\ 1 \in DOMAIN queue /\ Head(queue) = queue[1]
      /\ \A i \in DOMAIN rest : rest[i] = queue[i + 1] /\ i + 1 \in DOMAIN queue
  OBVIOUS
<1> HIDE DEF rest
<1>2. \A i \in DOMAIN queue : i = 1 \/ (i - 1 \in DOMAIN rest /\ queue[i] = rest[i - 1])
  <2> SUFFICES ASSUME NEW i \in DOMAIN queue, i # 1
               PROVE  i - 1 \in DOMAIN rest /\ queue[i] = rest[i - 1]
    OBVIOUS
  <2>1. i - 1 \in DOMAIN rest /\ (i - 1) + 1 = i
    BY <1>1
  <2> QED BY <1>1, <2>1
<1> QED BY <1>1, <1>2 DEF Has, rest

LEMMA WorkLastConcat ==
    ASSUME NEW queue \in Seq(Calls), NEW more \in Seq(Calls),
           WorkLast(queue), WorkLast(more),
           ~Has(queue, WorkSlots) \/ ~Has(more, WorkSlots \cup SessionSlots)
    PROVE  WorkLast(queue \o more)
<1> DEFINE longer == queue \o more
<1>1. /\ DOMAIN queue = 1..Len(queue) /\ DOMAIN more = 1..Len(more)
      /\ DOMAIN longer = 1..(Len(queue) + Len(more))
      /\ Len(queue) \in Nat /\ Len(more) \in Nat
      /\ \A i \in DOMAIN longer : longer[i] = IF i <= Len(queue) THEN queue[i]
                                              ELSE more[i - Len(queue)]
  BY ConcatProperties, LenProperties
<1> HIDE DEF longer
<1> SUFFICES ASSUME NEW i \in DOMAIN longer, NEW j \in DOMAIN longer,
                    i < j, longer[i].slot \in WorkSlots
             PROVE  longer[j].slot \notin WorkSlots \cup SessionSlots
  BY DEF WorkLast, longer
<1>2. CASE j <= Len(queue)
  <2>1. i \in DOMAIN queue /\ j \in DOMAIN queue /\ longer[i] = queue[i] /\ longer[j] = queue[j]
    BY <1>1, <1>2
  <2> QED BY <2>1 DEF WorkLast
<1>3. CASE i > Len(queue)
  <2>1. /\ i - Len(queue) \in DOMAIN more /\ j - Len(queue) \in DOMAIN more
        /\ longer[i] = more[i - Len(queue)] /\ longer[j] = more[j - Len(queue)]
        /\ i - Len(queue) < j - Len(queue)
    BY <1>1, <1>3
  <2> QED BY <2>1 DEF WorkLast
<1>4. CASE i <= Len(queue) /\ j > Len(queue)
  <2>1. i \in DOMAIN queue /\ longer[i] = queue[i]
    BY <1>1, <1>4
  <2>2. j - Len(queue) \in DOMAIN more /\ longer[j] = more[j - Len(queue)]
    BY <1>1, <1>4
  <2>3. Has(queue, WorkSlots)
    BY <2>1 DEF Has
  <2> QED BY <2>2, <2>3 DEF Has
<1> QED BY <1>1, <1>2, <1>3, <1>4

LEMMA WorkLastTail ==
    ASSUME NEW queue \in Seq(Calls), queue # <<>>, WorkLast(queue)
    PROVE  /\ WorkLast(Tail(queue))
           /\ Head(queue).slot \in WorkSlots
                => ~Has(Tail(queue), WorkSlots \cup SessionSlots)
<1> DEFINE rest == Tail(queue)
<1>1. /\ DOMAIN rest = 1..(Len(queue) - 1) /\ DOMAIN queue = 1..Len(queue)
      /\ 1 \in DOMAIN queue /\ Head(queue) = queue[1]
      /\ \A i \in DOMAIN rest : rest[i] = queue[i + 1] /\ i + 1 \in DOMAIN queue /\ 1 < i + 1
      /\ \A i, j \in DOMAIN rest : i < j => i + 1 < j + 1
  OBVIOUS
<1> HIDE DEF rest
<1>2. WorkLast(rest)
  BY <1>1 DEF WorkLast
<1>3. ASSUME Head(queue).slot \in WorkSlots PROVE ~Has(rest, WorkSlots \cup SessionSlots)
  BY <1>1, <1>3 DEF WorkLast, Has
<1> QED BY <1>2, <1>3 DEF rest

\* The calls of a queue that grows, or shrinks, are those it had and the new ones.
LEMMA EachConcat ==
    ASSUME NEW queue \in Seq(Calls), NEW more \in Seq(Calls), NEW i \in DOMAIN (queue \o more)
    PROVE  \/ \E k \in DOMAIN queue : (queue \o more)[i] = queue[k]
           \/ \E k \in DOMAIN more : (queue \o more)[i] = more[k]
<1>1. /\ DOMAIN queue = 1..Len(queue) /\ DOMAIN more = 1..Len(more)
      /\ Len(queue) \in Nat /\ Len(more) \in Nat
      /\ i \in 1..(Len(queue) + Len(more))
      /\ (queue \o more)[i] = IF i <= Len(queue) THEN queue[i] ELSE more[i - Len(queue)]
  BY ConcatProperties, LenProperties
<1>2. CASE i <= Len(queue)
  BY <1>1, <1>2
<1>3. CASE i > Len(queue)
  <2>1. i - Len(queue) \in DOMAIN more
    BY <1>1, <1>3
  <2> QED BY <1>1, <1>3, <2>1
<1> QED BY <1>1, <1>2, <1>3

LEMMA EachTail ==
    ASSUME NEW queue \in Seq(Calls), queue # <<>>, NEW i \in DOMAIN Tail(queue)
    PROVE  \E k \in DOMAIN queue : Tail(queue)[i] = queue[k]
<1>1. i + 1 \in DOMAIN queue /\ Tail(queue)[i] = queue[i + 1]
  OBVIOUS
<1> QED BY <1>1

LEMMA EmptyHas == \A slots : ~Has(<<>>, slots)
BY DEF Has

LEMMA OneHas == ASSUME NEW call, NEW slots PROVE Has(<<call>>, slots) <=> call.slot \in slots
<1>1. DOMAIN <<call>> = {1} /\ <<call>>[1] = call
  OBVIOUS
<1> QED BY <1>1 DEF Has

-----------------------------------------------------------------------------
(* Steps of the updater: one piece of work moves on *)

LEMMA OperationInit == Init => OperationInv
<1> SUFFICES ASSUME Init PROVE OperationInv
  OBVIOUS
<1>1. /\ toServer = <<>> /\ toClient = <<>> /\ posted = <<>> /\ workQ = <<>>
      /\ dispatch = <<>> /\ job.op = "none" /\ ~closing /\ state = "Idle" /\ Running
      /\ handlers = [a \in FlashAnswers |-> <<>>]
  BY DEF Init, IPCInit, ClientInit, ServerInit, NoJob, Running
<1>2. CallsInv
  BY <1>1, EmptyHas DEF CallsInv, WorkLast
<1>3. HandlersInv
  BY <1>1 DEF HandlersInv, FlashAnswers
<1> QED BY <1>1, <1>2, <1>3
        DEF OperationInv, QueueInv, JobInv, AnswerInv, DispatchInv, SessionInv, ServerInv,
            FirmwareInv, NoWork, Busy, Updating

\* Calls that are run, or lost with the process, leave the order of those that stay.
LEMMA CallsShrink ==
    ASSUME TypeOK, CallsInv, UNCHANGED <<state, request, dispatch>>,
           \/ toServer' = toServer
           \/ toServer # <<>> /\ toServer' = Tail(toServer)
           \/ toServer' = <<>>,
           Has(toServer', WorkSlots \cup SessionSlots) => NoWork' /\ NoAnswer'
    PROVE  CallsInv'
<1>1. toServer \in Seq(Calls)
  BY DEF TypeOK, IPCTypeOK
<1>2. CASE toServer' = toServer
  BY <1>2 DEF CallsInv, Awaits
<1>3. CASE toServer # <<>> /\ toServer' = Tail(toServer)
  <2>1. WorkLast(toServer')
    BY <1>1, <1>3, WorkLastTail DEF CallsInv
  <2>2. Has(toServer', WorkSlots) => Has(toServer, WorkSlots)
    BY <1>1, <1>3, HasTail
  <2>3. ASSUME NEW i \in DOMAIN toServer', toServer'[i].slot \in WorkSlots
        PROVE  /\ Awaits(toServer'[i].slot)
               /\ toServer'[i].slot = "flash" => toServer'[i].image = request.image
    <3>1. PICK k \in DOMAIN toServer : toServer'[i] = toServer[k]
      BY <1>1, <1>3, EachTail
    <3> QED BY <2>3, <3>1 DEF CallsInv
  <2> QED BY <2>1, <2>2, <2>3 DEF CallsInv, Awaits
<1>4. CASE toServer' = <<>>
  BY <1>4, EmptyHas DEF CallsInv, WorkLast
<1> QED BY <1>2, <1>3, <1>4

\* While the session has work, it is all there is.
LEMMA WorkAlone ==
    ASSUME OperationInv, workQ # <<>> \/ job.op # "none"
    PROVE  /\ ~Has(toServer, WorkSlots \cup SessionSlots)
           /\ NoAnswer /\ dispatch = <<>> /\ ~closing /\ Running
BY DEF OperationInv, CallsInv, QueueInv, JobInv, ServerInv, NoWork

\* Work is begun, goes on or is answered.
LEMMA WorkStep ==
    ASSUME TypeOK, OperationInv, workQ # <<>> \/ job.op # "none",
           UNCHANGED <<clientVars, toServer, toClient, process, firmware, closing>>,
           workQ' = <<>>,
           \/ /\ posted' = posted /\ AwaitsJob(job'.op)
              /\ job'.op # "initializeEdgeDevice" => job'.image = request.image
           \/ /\ job'.op = "none"
              /\ \E s \in Signals : posted' = <<s>> /\ AwaitsAnswer(s.signal)
    PROVE  OperationInv'
<1> USE DEF OperationInv, clientVars
<1>1. /\ ~Has(toServer, WorkSlots \cup SessionSlots)
      /\ posted = <<>> /\ toClient = <<>> /\ dispatch = <<>> /\ ~closing /\ Running
  BY WorkAlone DEF NoAnswer
<1>2. CallsInv'
  BY <1>1, CallsShrink
<1>3. QueueInv' /\ HandlersInv' /\ DispatchInv' /\ SessionInv' /\ FirmwareInv'
  BY <1>1 DEF QueueInv, HandlersInv, FlashHandler, DispatchInv, SessionInv, FirmwareInv, Running
<1>4. ServerInv'
  BY <1>1 DEF ServerInv, Running
<1>5. CASE posted' = posted /\ AwaitsJob(job'.op)
             /\ (job'.op # "initializeEdgeDevice" => job'.image = request.image)
  BY <1>1, <1>2, <1>3, <1>4, <1>5 DEF JobInv, AwaitsJob, AnswerInv, NoAnswer
<1>6. CASE job'.op = "none" /\ \E s \in Signals : posted' = <<s>> /\ AwaitsAnswer(s.signal)
  <2>1. PICK s \in Signals : posted' = <<s>> /\ AwaitsAnswer(s.signal)
    BY <1>6
  <2>2. Len(posted') = 1 /\ Head(posted') = s
    BY <2>1
  <2>3. AnswerInv'
    BY <1>1, <2>1, <2>2 DEF AnswerInv, AwaitsAnswer
  <2> QED BY <1>2, <1>3, <1>4, <1>6, <2>3 DEF JobInv
<1> QED BY <1>5, <1>6

\* A slot of the session returns.
LEMMA AnswerStep ==
    ASSUME TypeOK, OperationInv, workQ # <<>> \/ job.op # "none",
           UNCHANGED <<clientVars, toServer, toClient, process, firmware, closing>>,
           workQ' = <<>>,
           NEW signal \in Answers, NEW status \in Statuses, Answer(signal, status),
           AwaitsAnswer(signal)
    PROVE  OperationInv'
<1> DEFINE s == [signal |-> signal, status |-> status]
<1>1. posted = <<>>
  BY WorkAlone DEF NoAnswer
<1>2. posted' = <<s>> /\ s \in Signals /\ s.signal = signal
  BY <1>1 DEF Answer, Signals
<1>3. job'.op = "none"
  BY DEF Answer, NoJob
<1> HIDE DEF s
<1> QED BY <1>2, <1>3, WorkStep

\* The end of the process leaves the client with at most the answer that was sent.
LEMMA DeathAnswers ==
    ASSUME TypeOK, OperationInv, NEW how \in {"exited", "crashed"}, ProcessDies(how)
    PROVE  toClient' = toClient \/ toClient' = <<>>
<1>1. PICK n \in 0..Len(toClient) : toClient' = SubSeq(toClient, 1, n)
  BY DEF ProcessDies, Die
<1>2. toClient \in Seq(Signals)
  BY DEF TypeOK, IPCTypeOK
<1>3. toClient # <<>> => Len(toClient) = 1
  BY DEF OperationInv, AnswerInv
<1>4. Len(toClient) = 0 \/ Len(toClient) = 1
  BY <1>3, EmptySeq
<1>5. n = 0 \/ n = Len(toClient)
  <2>1. Len(toClient) = 0 => n = 0
    BY <1>1
  <2>2. Len(toClient) = 1 => n \in 0..1
    BY <1>1
  <2>3. \A m \in 0..1 : m = 0 \/ m = 1
    OBVIOUS
  <2>4. CASE Len(toClient) = 1
    BY <2>2, <2>3, <2>4
  <2> QED BY <1>4, <2>1, <2>4
<1>6. n = 0 => toClient' = <<>>
  BY <1>1, SubSeqEmpty
<1>7. n = Len(toClient) => toClient' = toClient
  BY <1>1, <1>2, SubSeqFull
<1> QED BY <1>5, <1>6, <1>7

LEMMA OperationDeath ==
    ASSUME TypeOK, OperationInv, NEW how \in {"exited", "crashed"}, ProcessDies(how),
           UNCHANGED clientVars
    PROVE  OperationInv'
<1> USE DEF OperationInv, clientVars
<1>1. /\ process' = how /\ toServer' = <<>> /\ closing' = FALSE /\ posted' = <<>>
      /\ workQ' = <<>> /\ job'.op = "none"
  BY DEF ProcessDies, Die, NoJob
<1>2. toClient' = toClient \/ toClient' = <<>>
  BY DeathAnswers
<1>3. CallsInv'
  BY <1>1, CallsShrink, EmptyHas
<1>4. AnswerInv'
  BY <1>1, <1>2 DEF AnswerInv, AwaitsAnswer
<1>5. HandlersInv' /\ DispatchInv' /\ SessionInv'
  BY DEF HandlersInv, FlashHandler, DispatchInv, SessionInv
<1> QED BY <1>1, <1>3, <1>4, <1>5
        DEF QueueInv, JobInv, ServerInv, FirmwareInv, NoWork, Running

LEMMA OperationSession ==
    ASSUME TypeOK, OperationInv, SessionLoop, UNCHANGED clientVars
    PROVE  OperationInv'
<1> USE DEF OperationInv, channels, mainVars, sessionVars
<1>1. ASSUME workQ # <<>>
      PROVE  /\ Tail(workQ) = <<>> /\ Awaits(Head(workQ).slot)
             /\ Head(workQ).slot \in {"flash", "checkOnCorrectness"}
                  => Head(workQ).image = request.image
  <2>1. workQ \in Seq(Calls) /\ Len(workQ) = 1
    BY <1>1 DEF TypeOK, ServerTypeOK, QueueInv
  <2>2. Len(Tail(workQ)) = 0 /\ Tail(workQ) \in Seq(Calls)
    BY <1>1, <2>1
  <2>3. Tail(workQ) = <<>>
    BY <2>2, EmptySeq
  <2> QED BY <1>1, <2>3 DEF QueueInv
<1>2. ASSUME job.op # "none"
      PROVE  workQ = <<>> /\ AwaitsJob(job.op)
             /\ (job.op # "initializeEdgeDevice" => job.image = request.image)
  BY <1>2 DEF QueueInv, JobInv
<1>3. CASE BeginInitialize
  <2>1. workQ # <<>> /\ Head(workQ).slot = "initializeEdgeDevice" /\ workQ' = Tail(workQ)
    BY <1>3 DEF BeginInitialize, TakeWork
  <2>2. job'.op = "initializeEdgeDevice"
    BY <1>3 DEF BeginInitialize, NoJob
  <2>3. AwaitsJob(job'.op)
    BY <1>1, <2>1, <2>2 DEF Awaits, AwaitsJob
  <2> QED BY <1>1, <1>3, <2>1, <2>2, <2>3, WorkStep DEF BeginInitialize
<1>4. CASE EndInitialize
  <2>1. job.op = "initializeEdgeDevice"
    BY <1>4 DEF EndInitialize
  <2>2. AwaitsAnswer("initializingFinished") /\ workQ = <<>>
    BY <1>2, <2>1 DEF AwaitsJob, AwaitsAnswer
  <2>3. PICK status \in Statuses : Answer("initializingFinished", status)
    BY <1>4 DEF EndInitialize, NotPlugged, Initialized, Statuses
  <2> QED BY <1>4, <2>1, <2>2, <2>3, AnswerStep DEF EndInitialize, Answers
<1>5. CASE BeginFlash
  <2>1. workQ # <<>> /\ Head(workQ).slot = "flash"
    BY <1>5 DEF BeginFlash, TakeWork
  <2>2. CASE Segfault
    BY <2>2, OperationDeath DEF Segfault
  <2>3. CASE ~Segfault
    <3>1. workQ' = Tail(workQ) /\ job'.op = "flash" /\ job'.image = Head(workQ).image
      BY <1>5, <2>3 DEF BeginFlash
    <3>2. AwaitsJob(job'.op)
      BY <1>1, <2>1, <3>1 DEF Awaits, AwaitsJob
    <3> QED BY <1>1, <1>5, <2>1, <2>3, <3>1, <3>2, WorkStep DEF BeginFlash
  <2> QED BY <2>2, <2>3
<1>6. ASSUME job.op = "flash"
      PROVE  AwaitsAnswer("flashingFinished") /\ workQ = <<>> /\ "flashingFinished" \in Answers
  BY <1>2, <1>6 DEF AwaitsJob, AwaitsAnswer, Answers
<1>7. CASE FlashBlock
  <2>1. job.op = "flash" /\ job \in [op : Jobs, image : Content, pos : Nat, open : BOOLEAN]
    BY <1>7 DEF FlashBlock, TypeOK, ServerTypeOK
  <2>2. CASE Answer("flashingFinished", "Failed")
    BY <1>6, <1>7, <2>1, <2>2, AnswerStep DEF FlashBlock, Statuses
  <2>3. CASE ~Answer("flashingFinished", "Failed")
    <3>1. posted' = posted /\ job' = [job EXCEPT !.pos = job.pos + 1]
      BY <1>7, <2>3 DEF FlashBlock, Advance
    <3>2. job'.op = job.op /\ job'.image = job.image
      BY <2>1, <3>1
    <3> QED BY <1>2, <1>7, <2>1, <3>1, <3>2, WorkStep DEF FlashBlock
  <2> QED BY <2>2, <2>3
<1>8. CASE EndFlash \/ CancelFlash
  <2>1. job.op = "flash" /\ UNCHANGED <<toServer, toClient, process, firmware, closing, workQ>>
    BY <1>8 DEF EndFlash, CancelFlash
  <2>2. PICK status \in Statuses : Answer("flashingFinished", status)
    BY <1>8 DEF EndFlash, CancelFlash, Statuses
  <2> QED BY <1>6, <2>1, <2>2, AnswerStep
<1>9. CASE BeginCheck
  <2>1. workQ # <<>> /\ Head(workQ).slot = "checkOnCorrectness" /\ workQ' = Tail(workQ)
    BY <1>9 DEF BeginCheck, TakeWork
  <2>2. state = "ComputingChecksum"
    BY <1>1, <2>1 DEF Awaits
  <2>3. CASE Answer("checkOnCorrectnessFinished", "Failed")
    BY <1>1, <1>9, <2>1, <2>2, <2>3, AnswerStep DEF BeginCheck, Statuses, Answers, AwaitsAnswer
  <2>4. CASE ~Answer("checkOnCorrectnessFinished", "Failed")
    <3>1. posted' = posted /\ job'.op = "crcImage" /\ job'.image = Head(workQ).image
      BY <1>9, <2>4 DEF BeginCheck
    <3> QED BY <1>1, <1>9, <2>1, <2>2, <3>1, WorkStep DEF BeginCheck, AwaitsJob
  <2> QED BY <2>3, <2>4
<1>10. CASE ComputeImageCRC \/ ComputeDeviceCRC
  <2>1. job.op \in {"crcImage", "crcDevice"}
    BY <1>10 DEF ComputeImageCRC, ComputeDeviceCRC
  <2>2. /\ workQ = <<>> /\ state = "ComputingChecksum" /\ job.image = request.image
        /\ job \in [op : Jobs, image : Content, pos : Nat, open : BOOLEAN]
    BY <1>2, <2>1 DEF AwaitsJob, TypeOK, ServerTypeOK
  <2>3. CASE Segfault
    BY <2>3, OperationDeath DEF Segfault
  <2>4. CASE ~Segfault
    <3>1. UNCHANGED <<toServer, toClient, process, firmware, closing, workQ>>
      BY <1>10, <2>4 DEF ComputeImageCRC, ComputeDeviceCRC
    <3>2. CASE \E status \in Statuses : Answer("checkOnCorrectnessFinished", status)
      BY <2>1, <2>2, <3>1, <3>2, AnswerStep DEF Answers, AwaitsAnswer
    <3>3. CASE ~\E status \in Statuses : Answer("checkOnCorrectnessFinished", status)
      <4>1. posted' = posted /\ job' = [job EXCEPT !.op = "crcDevice"]
        BY <1>10, <2>4, <3>3
           DEF ComputeImageCRC, ComputeDeviceCRC, ComputeCRC, Verdict, Statuses
      <4>2. job'.op = "crcDevice" /\ job'.image = job.image
        BY <2>2, <4>1
      <4> QED BY <2>1, <2>2, <3>1, <4>1, <4>2, WorkStep DEF AwaitsJob
    <3> QED BY <3>2, <3>3
  <2> QED BY <2>3, <2>4
<1>11. CASE ThreadEnds
  <2>1. UNCHANGED <<process, toServer, toClient, closing, firmware, posted, workQ, job>>
    BY <1>11 DEF ThreadEnds
  <2>2. CallsInv'
    BY <2>1, CallsShrink DEF CallsInv, NoWork, NoAnswer, clientVars
  <2> QED BY <2>1, <2>2
          DEF clientVars, QueueInv, JobInv, AnswerInv, HandlersInv, DispatchInv, ServerInv,
              SessionInv, FirmwareInv, Awaits, AwaitsJob, AwaitsAnswer, NoWork, NoAnswer, Running, FlashHandler
<1> QED BY <1>3, <1>4, <1>5, <1>7, <1>8, <1>9, <1>10, <1>11 DEF SessionLoop

-----------------------------------------------------------------------------
(* Steps of the main thread *)

\* The one answer there is moves on.
LEMMA ForwardOne ==
    ASSUME TypeOK, OperationInv, ForwardAnswer
    PROVE  /\ posted # <<>> /\ posted' = <<>>
           /\ Len(toClient') = 1 /\ Head(toClient') = Head(posted)
<1>1. /\ posted # <<>> /\ posted' = Tail(posted)
      /\ toClient' = Append(toClient, Head(posted))
  BY DEF ForwardAnswer
<1>2. posted \in Seq(Signals) /\ Len(posted) = 1 /\ toClient = <<>>
  BY <1>1 DEF OperationInv, AnswerInv, TypeOK, ServerTypeOK
<1>3. Tail(posted) \in Seq(Signals) /\ Len(Tail(posted)) = 0
  BY <1>1, <1>2
<1>4. posted' = <<>>
  BY <1>1, <1>3, EmptySeq
<1>5. toClient' = <<Head(posted)>>
  BY <1>1, <1>2
<1>6. Len(toClient') = 1 /\ Head(toClient') = Head(posted)
  BY <1>5
<1> QED BY <1>1, <1>4, <1>6

\* A slot that is work is run where there is a session, and is what the client
\* waits for; nothing else is anywhere.
LEMMA WorkFindsSession ==
    ASSUME TypeOK, SessionMirror, OperationInv, PerformWork, UNCHANGED clientVars
    PROVE  /\ session
           /\ Awaits(Head(toServer).slot)
           /\ Head(toServer).slot = "flash" => Head(toServer).image = request.image
           /\ ~Has(Tail(toServer), WorkSlots \cup SessionSlots)
           /\ dispatch = <<>> /\ NoWork /\ NoAnswer
<1> USE DEF OperationInv
<1>0. toServer \in Seq(Calls)
  BY DEF TypeOK, IPCTypeOK
<1> DEFINE call == Head(toServer)
<1>1. toServer # <<>> /\ call.slot \in WorkSlots /\ Running /\ ~closing
  BY DEF PerformWork, TakeCall, MainRuns
<1>2. Has(toServer, WorkSlots)
  BY <1>0, <1>1, HasTail
<1>3. Has(toServer, WorkSlots \cup SessionSlots)
  BY <1>0, <1>1, HasTail
<1>4. dispatch = <<>> /\ NoWork /\ NoAnswer
  BY <1>2, <1>3 DEF CallsInv
<1>5. ~Has(Tail(toServer), WorkSlots \cup SessionSlots)
  BY <1>0, <1>1, WorkLastTail DEF CallsInv
<1>6. 1 \in DOMAIN toServer /\ call = toServer[1]
  BY <1>0, <1>1
<1>7. Awaits(call.slot) /\ (call.slot = "flash" => call.image = request.image)
  BY <1>1, <1>6 DEF CallsInv
<1>8. session
  <2>1. ~Has(toServer, SessionSlots)
    <3>1. call.slot \notin SessionSlots
      BY <1>1 DEF WorkSlots, SessionSlots
    <3>2. ~Has(Tail(toServer), SessionSlots)
      BY <1>5 DEF Has
    <3> QED BY <1>0, <1>1, <3>1, <3>2, HasTail
  <2>2. \A i \in DOMAIN toServer : toServer[i].slot \notin SessionSlots
    BY <2>1 DEF Has
  <2>3. sessionOpened
    BY <1>7 DEF Awaits, SessionInv, Busy, Updating
  <2> QED BY <1>1, <2>2, <2>3 DEF SessionMirror, LeadsTo
<1> QED BY <1>4, <1>5, <1>7, <1>8

LEMMA OperationMain ==
    ASSUME TypeOK, SessionMirror, OperationInv, MainLoop, UNCHANGED clientVars
    PROVE  OperationInv'
<1> USE DEF OperationInv, channels, mainVars, sessionVars
<1>0. toServer \in Seq(Calls) /\ closing \in BOOLEAN
  BY DEF TypeOK, IPCTypeOK, ServerTypeOK
<1>1. ASSUME NEW slots, slots \cap {"flash"} = {}, TakeCall(slots), toServer' = Tail(toServer),
             UNCHANGED <<process, toClient, firmware, posted, workQ, job>>,
             closing' => NoWork
      PROVE  OperationInv'
  <2>1. toServer # <<>> /\ Head(toServer).slot \in slots /\ Running
    BY <1>1 DEF TakeCall, MainRuns
  <2>2. \A s : Has(toServer', s) => Has(toServer, s)
    BY <1>0, <1>1, <2>1, HasTail
  <2>3. CallsInv'
    BY <1>1, <2>1, <2>2, CallsShrink DEF CallsInv, NoWork, NoAnswer, clientVars
  <2>4. Has(toServer, {"flash"}) => Has(toServer', {"flash"})
    BY <1>0, <1>1, <2>1, HasTail
  <2>5. FirmwareInv'
    BY <1>1, <2>4 DEF FirmwareInv, Running, clientVars
  <2>6. ServerInv'
    BY <1>1, <2>1 DEF ServerInv, Running, NoWork
  <2> QED BY <1>1, <2>3, <2>5, <2>6
          DEF clientVars, QueueInv, JobInv, AnswerInv, HandlersInv, DispatchInv, SessionInv,
              FlashHandler, Awaits, AwaitsJob, AwaitsAnswer, NoAnswer
<1>2. CASE OpenSession
  <2>1. closing' = closing
    BY <1>2 DEF OpenSession
  <2> QED BY <1>1, <1>2, <2>1 DEF OpenSession, ServerInv
<1>3. CASE CloseSession
  <2>1. toServer # <<>> /\ Head(toServer).slot = "closeSession"
    BY <1>3 DEF CloseSession, TakeCall
  <2>2. Has(toServer, WorkSlots \cup SessionSlots)
    BY <1>0, <2>1, HasTail DEF SessionSlots
  <2> QED BY <1>1, <1>3, <2>2 DEF CloseSession, CallsInv
<1>4. CASE CloseSessionReturns
  <2>1. /\ workQ = <<>> /\ job.op = "none" /\ workQ' = <<>> /\ closing' = FALSE
        /\ UNCHANGED <<process, toServer, toClient, firmware, posted, job>>
    BY <1>4 DEF CloseSessionReturns, ServerInv, NoWork
  <2>2. CallsInv'
    BY <2>1, CallsShrink DEF CallsInv, NoWork, NoAnswer, clientVars
  <2> QED BY <2>1, <2>2
          DEF clientVars, QueueInv, JobInv, AnswerInv, HandlersInv, DispatchInv, ServerInv,
              SessionInv, FirmwareInv, Awaits, AwaitsJob, AwaitsAnswer, NoWork, NoAnswer, Running, FlashHandler
<1>5. CASE PerformWork
  <2> DEFINE call == Head(toServer)
             file == IF call.slot = "flash" THEN call.image ELSE firmware
             work == [slot |-> call.slot, image |-> file]
  <2>1. /\ toServer # <<>> /\ call.slot \in WorkSlots /\ Running /\ ~closing
        /\ toServer' = Tail(toServer) /\ firmware' = file
        /\ UNCHANGED <<process, toClient, closing, posted, job>>
    BY <1>5 DEF PerformWork, TakeCall, MainRuns, Remember
  <2>2. dispatch = <<>> /\ NoWork /\ NoAnswer
    BY <1>5, WorkFindsSession
  <2>3. ~Has(Tail(toServer), WorkSlots \cup SessionSlots)
    BY <1>5, WorkFindsSession
  <2>4. Awaits(call.slot) /\ (call.slot = "flash" => call.image = request.image)
    BY <1>5, WorkFindsSession
  <2>5. session
    BY <1>5, WorkFindsSession
  <2>6. file = request.image \/ call.slot = "initializeEdgeDevice"
    <3>1. CASE call.slot = "checkOnCorrectness"
      <4>1. state = "ComputingChecksum"
        BY <2>4, <3>1 DEF Awaits
      <4>2. ~Has(Tail(toServer), {"flash"})
        BY <2>3 DEF Has, WorkSlots
      <4>3. ~Has(toServer, {"flash"})
        BY <1>0, <2>1, <3>1, <4>2, HasTail
      <4> QED BY <2>1, <3>1, <4>1, <4>3 DEF FirmwareInv, Updating
    <3> QED BY <2>1, <2>4, <3>1 DEF WorkSlots
  <2> HIDE DEF call, file
  <2>7. workQ' = <<work>>
    BY <1>5, <2>2, <2>5 DEF PerformWork, NoWork, call, file
  <2> HIDE DEF work
  <2>8. Len(workQ') = 1 /\ Head(workQ') = work
    BY <2>7
  <2>9. work.slot = call.slot /\ work.image = file
    BY DEF work
  <2>10. CallsInv'
    BY <2>1, <2>3, CallsShrink DEF clientVars
  <2>11. QueueInv'
    <3>1. Head(workQ').slot = call.slot /\ Head(workQ').image = file
      BY <2>8, <2>9
    <3> QED BY <2>1, <2>2, <2>4, <2>6, <2>8, <3>1
            DEF QueueInv, Awaits, NoWork, NoAnswer, clientVars
  <2>12. FirmwareInv'
    <3>1. state' \in Updating => firmware' = request'.image
      BY <2>1, <2>4, <2>6 DEF Awaits, Updating, clientVars
    <3> QED BY <3>1 DEF FirmwareInv
  <2> QED BY <2>1, <2>2, <2>10, <2>11, <2>12
          DEF clientVars, JobInv, AnswerInv, HandlersInv, DispatchInv, SessionInv, ServerInv,
              FlashHandler, NoWork, NoAnswer, Running
<1>6. CASE CancelWork
  <2>1. closing' = closing
    BY <1>6 DEF CancelWork
  <2> QED BY <1>1, <1>6, <2>1 DEF CancelWork, ServerInv
<1>7. CASE FinishProcess
  BY <1>7, OperationDeath DEF FinishProcess
<1>8. CASE ForwardAnswer
  <2>1. /\ posted # <<>> /\ Running
        /\ posted' = Tail(posted) /\ toClient' = Append(toClient, Head(posted))
        /\ UNCHANGED <<process, toServer, workQ, job, firmware, closing>>
    BY <1>8 DEF ForwardAnswer, MainRuns
  <2>2. posted \in Seq(Signals) /\ Len(posted) = 1 /\ AwaitsAnswer(Head(posted).signal)
        /\ toClient = <<>> /\ dispatch = <<>>
    BY <2>1 DEF AnswerInv, TypeOK, ServerTypeOK
  <2>3. posted' = <<>>
    BY <1>8, ForwardOne
  <2>4. Len(toClient') = 1 /\ Head(toClient') = Head(posted)
    BY <1>8, ForwardOne
  <2>5. ~Has(toServer, WorkSlots \cup SessionSlots) /\ NoWork
    BY <2>1 DEF CallsInv, NoAnswer, QueueInv, JobInv, NoWork
  <2>6. CallsInv'
    BY <2>1, <2>5, CallsShrink DEF clientVars
  <2>7. AnswerInv'
    BY <2>2, <2>3, <2>4 DEF AnswerInv, AwaitsAnswer, clientVars
  <2> QED BY <2>1, <2>3, <2>5, <2>6, <2>7
          DEF clientVars, QueueInv, JobInv, HandlersInv, DispatchInv, SessionInv, ServerInv,
              FirmwareInv, NoWork, Running, FlashHandler
<1> QED BY <1>2, <1>3, <1>4, <1>5, <1>6, <1>7, <1>8 DEF MainLoop

-----------------------------------------------------------------------------
(* Steps of the client, which does not call from inside handlers *)

\* What is in the queue after the client has invoked slots.
LEMMA InvokeHas ==
    ASSUME TypeOK, NEW more \in Seq(Calls), Invoke(more), NEW slots
    PROVE  /\ Has(toServer', slots) => Has(toServer, slots) \/ Has(more, slots)
           /\ Running => (Has(toServer, slots) \/ Has(more, slots) => Has(toServer', slots))
BY HasConcat DEF Invoke, TypeOK, IPCTypeOK

\* Calls that are added to the queue, behind work only if they open and close nothing.
LEMMA CallsGrow ==
    ASSUME TypeOK, CallsInv, NEW more \in Seq(Calls), Invoke(more), WorkLast(more),
           \/ ~Has(toServer, WorkSlots)
           \/ /\ ~Has(more, WorkSlots \cup SessionSlots)
              /\ UNCHANGED <<state, request, dispatch>>,
           \A i \in DOMAIN more : more[i].slot \in WorkSlots =>
              /\ Awaits(more[i].slot)'
              /\ more[i].slot = "flash" => more[i].image = request'.image,
           Has(more, WorkSlots) => dispatch' = <<>>,
           Has(toServer', WorkSlots \cup SessionSlots) => NoWork' /\ NoAnswer'
    PROVE  CallsInv'
<1>1. toServer \in Seq(Calls)
  BY DEF TypeOK, IPCTypeOK
<1>2. CASE toServer' = toServer
  BY <1>2 DEF CallsInv, Awaits, Has
<1>3. CASE toServer' = toServer \o more
  <2>1. WorkLast(toServer')
    BY <1>1, <1>3, WorkLastConcat DEF CallsInv
  <2>2. Has(toServer', WorkSlots) => dispatch' = <<>>
    <3>1. Has(toServer', WorkSlots) => Has(toServer, WorkSlots) \/ Has(more, WorkSlots)
      BY InvokeHas
    <3> QED BY <3>1 DEF CallsInv
  <2>3. ASSUME NEW i \in DOMAIN toServer', toServer'[i].slot \in WorkSlots
        PROVE  /\ Awaits(toServer[i].slot)'
               /\ toServer'[i].slot = "flash" => toServer'[i].image = request'.image
    <3>1. \/ \E k \in DOMAIN toServer : toServer'[i] = toServer[k]
          \/ \E k \in DOMAIN more : toServer'[i] = more[k]
      BY <1>1, <1>3, EachConcat
    <3>2. CASE \E k \in DOMAIN toServer : toServer'[i] = toServer[k]
      <4>1. PICK k \in DOMAIN toServer : toServer'[i] = toServer[k]
        BY <3>2
      <4>2. Has(toServer, WorkSlots)
        BY <2>3, <4>1 DEF Has
      <4>3. state' = state /\ request' = request
        BY <4>2
      <4>4. /\ Awaits(toServer[k].slot)
            /\ toServer[k].slot = "flash" => toServer[k].image = request.image
        BY <2>3, <4>1 DEF CallsInv
      <4> QED BY <4>1, <4>3, <4>4 DEF Awaits
    <3>3. CASE \E k \in DOMAIN more : toServer'[i] = more[k]
      <4>1. PICK k \in DOMAIN more : toServer'[i] = more[k]
        BY <3>3
      <4>2. /\ Awaits(more[k].slot)'
            /\ more[k].slot = "flash" => more[k].image = request'.image
        BY <2>3, <4>1
      <4> QED BY <4>1, <4>2 DEF Awaits
    <3> QED BY <3>1, <3>2, <3>3
  <2> QED BY <2>1, <2>2, <2>3 DEF CallsInv, Awaits
<1> QED BY <1>2, <1>3 DEF Invoke

\* A slot that is no work is added to the queue, or none.
LEMMA CallsGrowOther ==
    ASSUME TypeOK, CallsInv, NEW call \in Calls, Invoke(<<call>>),
           call.slot \notin WorkSlots,
           ~Has(toServer, WorkSlots) \/ (call.slot \notin SessionSlots
                                            /\ UNCHANGED <<state, request, dispatch>>),
           Has(toServer', WorkSlots \cup SessionSlots) => NoWork' /\ NoAnswer'
    PROVE  CallsInv'
<1> DEFINE more == <<call>>
<1>1. /\ more \in Seq(Calls) /\ DOMAIN more = {1} /\ more[1] = call
      /\ \A slots : Has(more, slots) <=> call.slot \in slots
  BY OneHas
<1>2. WorkLast(more)
  BY <1>1 DEF WorkLast
<1> HIDE DEF more
<1>3. Invoke(more)
  BY DEF more
<1> QED BY <1>1, <1>2, <1>3, CallsGrow

\* An updater that is idle, and has run its handlers, has left nothing to do.
LEMMA IdleIsQuiet ==
    ASSUME TypeOK, OperationInv, state = "Idle"
    PROVE  ~Has(toServer, WorkSlots) /\ NoWork /\ NoAnswer
BY DEF OperationInv, CallsInv, Has, QueueInv, JobInv, AnswerInv, Awaits, AwaitsJob, AwaitsAnswer,
       NoWork, NoAnswer

\* A handler that is still to be run is all there is.
LEMMA HandlerAlone ==
    ASSUME OperationInv, dispatch # <<>>
    PROVE  ~Has(toServer, WorkSlots) /\ NoWork /\ NoAnswer
BY DEF OperationInv, CallsInv, QueueInv, JobInv, AnswerInv, NoWork, NoAnswer

LEMMA OperationApplication ==
    ASSUME ~Reentrant, TypeOK, OperationInv, Application, UNCHANGED serverVars
    PROVE  OperationInv'
<1> USE DEF OperationInv, serverVars, mainVars
<1>1. ASSUME ApplicationCalls PROVE dispatch = <<>>
  BY <1>1 DEF ApplicationCalls
<1>2. CASE InitializeDevice
  <2> DEFINE more == <<Call("closeSession"), Call("openSession"), Call("initializeEdgeDevice")>>
  <2>1. /\ state = "Idle" /\ dispatch = <<>> /\ state' = "Initializing" /\ sessionOpened' = TRUE
        /\ Invoke(more) /\ UNCHANGED <<process, toClient, handlers, dispatch, request>>
    BY <1>1, <1>2 DEF InitializeDevice, InitializeDeviceImpl, IsIdle
  <2>2. ~Has(toServer, WorkSlots) /\ NoWork /\ NoAnswer
    BY <2>1, IdleIsQuiet
  <2>3. NoWork' /\ NoAnswer'
    BY <2>1, <2>2 DEF NoWork, NoAnswer
  <2>4. CallsInv'
    <3>1. /\ DOMAIN more = {1, 2, 3} /\ more \in Seq(Calls)
          /\ more[1].slot = "closeSession" /\ more[2].slot = "openSession"
          /\ more[3].slot = "initializeEdgeDevice"
      BY CallTyping DEF Call, Slots, WorkSlots, SessionSlots
    <3> HIDE DEF more
    <3>2. WorkLast(more)
      BY <3>1 DEF WorkLast, WorkSlots, SessionSlots
    <3>3. Awaits("initializeEdgeDevice")'
      BY <2>1 DEF Awaits
    <3>4. \A i \in DOMAIN more : more[i].slot \in WorkSlots =>
             more[i].slot = "initializeEdgeDevice"
      BY <3>1 DEF WorkSlots
    <3> QED BY <2>1, <2>2, <2>3, <3>1, <3>2, <3>3, <3>4, CallsGrow
  <2>5. ServerInv'
    BY <2>1, <2>2, <2>3 DEF ServerInv, Invoke, Running
  <2> QED BY <2>1, <2>2, <2>3, <2>4, <2>5
          DEF QueueInv, JobInv, AnswerInv, HandlersInv, DispatchInv, SessionInv, FirmwareInv,
              NoWork, NoAnswer, Updating, FlashHandler
<1>3. CASE \E image \in Images, checksum \in BOOLEAN : Flash(image, checksum)
  <2>1. PICK image \in Images, checksum \in BOOLEAN : Flash(image, checksum)
    BY <1>3
  <2> DEFINE call == [slot |-> "flash", image |-> image]
             more == <<call>>
  <2>2. /\ state = "Idle" /\ dispatch = <<>> /\ state' = "Flashing" /\ sessionOpened
        /\ Invoke(more) /\ UNCHANGED <<process, toClient, sessionOpened, dispatch>>
        /\ request' = [image |-> image, checksum |-> checksum]
        /\ ConnectHandlers(checksum)
    BY <1>1, <2>1 DEF Flash, FlashImpl, IsIdle
  <2>3. ~Has(toServer, WorkSlots) /\ NoWork /\ NoAnswer
    BY <2>2, IdleIsQuiet
  <2>4. NoWork' /\ NoAnswer'
    BY <2>2, <2>3 DEF NoWork, NoAnswer
  <2>5. /\ more \in Seq(Calls) /\ DOMAIN more = {1} /\ more[1] = call
        /\ \A slots : Has(more, slots) <=> "flash" \in slots
    BY CallTyping, OneHas
  <2> HIDE DEF more
  <2>6. CallsInv'
    <3>1. WorkLast(more)
      BY <2>5 DEF WorkLast
    <3>2. Awaits("flash")' /\ request'.image = image
      BY <2>2 DEF Awaits
    <3> QED BY <2>2, <2>3, <2>4, <2>5, <3>1, <3>2, CallsGrow
  <2>7. ServerInv'
    BY <2>2, <2>3, <2>4 DEF ServerInv, Invoke, Running
  <2>8. FirmwareInv'
    <3>1. Running => Has(toServer', {"flash"})
      BY <2>2, <2>5, InvokeHas
    <3> QED BY <2>2, <3>1 DEF FirmwareInv, Running
  <2>9. HandlersInv'
    <3>1. /\ handlers \in [FlashAnswers -> Seq(HandlerKinds)]
          /\ handlers["flashingFinished"] = <<>>
      BY <2>2 DEF TypeOK, ClientTypeOK, HandlersInv
    <3>2. handlers'["flashingFinished"] = <<IF checksum THEN "check" ELSE "finish">>
      BY <2>2, <3>1 DEF ConnectHandlers, FlashAnswers
    <3>3. request'.checksum = checksum
      BY <2>2
    <3>4. ASSUME NEW i \in DOMAIN handlers'["checkOnCorrectnessFinished"]
          PROVE  handlers'["checkOnCorrectnessFinished"][i] = "finish"
      <4> DEFINE old == handlers["checkOnCorrectnessFinished"]
      <4>1. old \in Seq(HandlerKinds) /\ \A k \in DOMAIN old : old[k] = "finish"
        BY <3>1 DEF HandlersInv, FlashAnswers
      <4>2. handlers'["checkOnCorrectnessFinished"] = IF checksum THEN Append(old, "finish")
                                                      ELSE old
        BY <2>2, <3>1 DEF ConnectHandlers, FlashAnswers
      <4> HIDE DEF old
      <4>3. \A k \in DOMAIN Append(old, "finish") : Append(old, "finish")[k] = "finish"
        BY <4>1, AppendProperties, LenProperties
      <4> QED BY <4>1, <4>2, <4>3
    <3> QED BY <2>2, <3>2, <3>3, <3>4 DEF HandlersInv, FlashHandler
  <2> QED BY <2>2, <2>3, <2>4, <2>6, <2>7, <2>8, <2>9
          DEF QueueInv, JobInv, AnswerInv, DispatchInv, SessionInv, NoWork, NoAnswer
<1>4. ASSUME NEW slot \in {"cancel", "finish"}, Invoke(<<Call(slot)>>),
             UNCHANGED <<process, toClient, state, sessionOpened, handlers, dispatch, request>>
      PROVE  OperationInv'
  <2>1. /\ Call(slot) \in Calls /\ Call(slot).slot \notin WorkSlots
        /\ Call(slot).slot \notin SessionSlots /\ Call(slot).slot # "flash"
    BY <1>4, CallTyping DEF Call, Slots, WorkSlots, SessionSlots
  <2>2. <<Call(slot)>> \in Seq(Calls) /\ \A slots : Has(<<Call(slot)>>, slots)
                                                    <=> Call(slot).slot \in slots
    BY <2>1, OneHas
  <2>3. Has(toServer', WorkSlots \cup SessionSlots) => Has(toServer, WorkSlots \cup SessionSlots)
    BY <1>4, <2>1, <2>2, InvokeHas
  <2>4. NoWork' = NoWork /\ NoAnswer' = NoAnswer
    BY <1>4 DEF NoWork, NoAnswer
  <2>5. CallsInv'
    BY <1>4, <2>1, <2>3, <2>4, CallsGrowOther DEF CallsInv
  <2>6. Running => (Has(toServer, {"flash"}) => Has(toServer', {"flash"}))
    BY <1>4, <2>2, InvokeHas
  <2>7. FirmwareInv'
    BY <1>4, <2>6 DEF FirmwareInv, Running
  <2>8. ServerInv'
    BY <1>4, <2>4 DEF ServerInv, Invoke, Running
  <2> QED BY <1>4, <2>4, <2>5, <2>7, <2>8
          DEF QueueInv, JobInv, AnswerInv, HandlersInv, DispatchInv, SessionInv, FlashHandler,
              Awaits, AwaitsJob, AwaitsAnswer, NoAnswer
<1>5. CASE Cancel
  BY <1>4, <1>5 DEF Cancel
<1>6. CASE Finish
  BY <1>4, <1>6 DEF Finish
<1> QED BY <1>2, <1>3, <1>5, <1>6 DEF Application

\* An answer that is on its way to the client is all there is.
LEMMA AnswerAlone ==
    ASSUME TypeOK, OperationInv, toClient # <<>>
    PROVE  /\ ~Has(toServer, WorkSlots) /\ ~Has(toServer, WorkSlots \cup SessionSlots)
           /\ NoWork /\ posted = <<>> /\ dispatch = <<>>
           /\ AwaitsAnswer(Head(toClient).signal)
           /\ Tail(toClient) = <<>>
<1>1. toClient \in Seq(Signals) /\ Len(toClient) = 1 /\ AwaitsAnswer(Head(toClient).signal)
  BY DEF OperationInv, AnswerInv, TypeOK, IPCTypeOK
<1>2. Tail(toClient) \in Seq(Signals) /\ Len(Tail(toClient)) = 0
  BY <1>1
<1>3. Tail(toClient) = <<>>
  BY <1>2, EmptySeq
<1>4. posted = <<>> /\ dispatch = <<>>
  BY DEF OperationInv, AnswerInv
<1>5. NoWork
  BY DEF OperationInv, QueueInv, JobInv, NoWork, NoAnswer
<1>6. ~Has(toServer, WorkSlots \cup SessionSlots)
  BY DEF OperationInv, CallsInv, NoAnswer
<1> QED BY <1>1, <1>3, <1>4, <1>5, <1>6 DEF Has

\* Whatever the client does when no work is on its way leaves the order of its calls.
LEMMA CallsQuiet ==
    ASSUME CallsInv, ~Has(toServer, WorkSlots), UNCHANGED toServer,
           Has(toServer', WorkSlots \cup SessionSlots) => NoWork' /\ NoAnswer'
    PROVE  CallsInv'
<1>1. \A i \in DOMAIN toServer' : toServer'[i].slot \notin WorkSlots
  BY DEF Has
<1>2. ~Has(toServer', WorkSlots)
  BY <1>1 DEF Has
<1> QED BY <1>1, <1>2 DEF CallsInv, WorkLast

\* The handlers an answer is dispatched to.
LEMMA DispatchShape ==
    ASSUME TypeOK, TypeOK', HandleFlashAnswer,
           NEW connected, connected = handlers[Head(toClient).signal]
    PROVE  /\ Head(toClient).signal \in FlashAnswers
           /\ DOMAIN dispatch' = DOMAIN connected
           /\ \A i \in DOMAIN dispatch' : dispatch'[i].handler = connected[i]
           /\ \A i \in DOMAIN dispatch' : dispatch'[i].status = Head(toClient).status
           /\ dispatch' # <<>> => 1 \in DOMAIN dispatch' /\ Head(dispatch') = dispatch'[1]
           /\ connected \in Seq(HandlerKinds) /\ Len(dispatch') = Len(connected)
<1>1. /\ Head(toClient).signal \in FlashAnswers
      /\ dispatch' = [i \in DOMAIN connected |->
            [handler |-> connected[i], status |-> Head(toClient).status]]
  BY DEF HandleFlashAnswer
<1>2. connected \in Seq(HandlerKinds)
  BY <1>1 DEF TypeOK, ClientTypeOK
<1>3. DOMAIN dispatch' = DOMAIN connected
  BY <1>1
<1>4. dispatch' \in Seq([handler : HandlerKinds, status : Statuses])
  BY DEF TypeOK, ClientTypeOK
<1>5. dispatch' # <<>> => 1 \in DOMAIN dispatch' /\ Head(dispatch') = dispatch'[1]
  BY <1>4
<1>6. Len(dispatch') = Len(connected)
  <2>1. /\ DOMAIN dispatch' = 1..Len(dispatch') /\ DOMAIN connected = 1..Len(connected)
        /\ Len(dispatch') \in Nat /\ Len(connected) \in Nat
    BY <1>2, <1>4
  <2>2. \A m, n \in Nat : 1..m = 1..n => m = n
    <3> SUFFICES ASSUME NEW m \in Nat, NEW n \in Nat, 1..m = 1..n PROVE m = n
      OBVIOUS
    <3>1. CASE m < n
      <4>1. n \in 1..n /\ n \notin 1..m
        BY <3>1
      <4> QED BY <4>1
    <3>2. CASE n < m
      <4>1. m \in 1..m /\ m \notin 1..n
        BY <3>2
      <4> QED BY <4>1
    <3> QED BY <3>1, <3>2
  <2> QED BY <1>3, <2>1, <2>2
<1> QED BY <1>1, <1>2, <1>3, <1>5, <1>6

\* The handlers that are left when one has run.
LEMMA DispatchTail ==
    ASSUME TypeOK, dispatch # <<>>
    PROVE  /\ 1 \in DOMAIN dispatch /\ Head(dispatch) = dispatch[1]
           /\ \A i \in DOMAIN Tail(dispatch) :
                 \E k \in DOMAIN dispatch : Tail(dispatch)[i] = dispatch[k]
           /\ Tail(dispatch) # <<>> =>
                 \E k \in DOMAIN dispatch : Head(Tail(dispatch)) = dispatch[k]
           /\ Len(dispatch) = 1 => Tail(dispatch) = <<>>
<1> DEFINE Dispatched == [handler : HandlerKinds, status : Statuses]
<1>1. dispatch \in Seq(Dispatched)
  BY DEF TypeOK, ClientTypeOK
<1> HIDE DEF Dispatched
<1>2. 1 \in DOMAIN dispatch /\ Head(dispatch) = dispatch[1]
  BY <1>1
<1>3. ASSUME NEW i \in DOMAIN Tail(dispatch)
      PROVE  \E k \in DOMAIN dispatch : Tail(dispatch)[i] = dispatch[k]
  <2>1. i + 1 \in DOMAIN dispatch /\ Tail(dispatch)[i] = dispatch[i + 1]
    BY <1>1
  <2> QED BY <2>1
<1>4. ASSUME Tail(dispatch) # <<>>
      PROVE  1 \in DOMAIN Tail(dispatch) /\ Head(Tail(dispatch)) = Tail(dispatch)[1]
  <2>1. Tail(dispatch) \in Seq(Dispatched)
    BY <1>1
  <2> QED BY <1>4, <2>1
<1>5. ASSUME Len(dispatch) = 1 PROVE Tail(dispatch) = <<>>
  <2>1. Tail(dispatch) \in Seq(Dispatched) /\ Len(Tail(dispatch)) = 0
    BY <1>1, <1>5
  <2> QED BY <2>1, EmptySeq
<1> QED BY <1>2, <1>3, <1>4, <1>5

LEMMA OperationHandler ==
    ASSUME TypeOK, OperationInv, RunHandler, UNCHANGED serverVars
    PROVE  OperationInv'
<1> USE DEF OperationInv, serverVars, mainVars
<1> DEFINE status == Head(dispatch).status
<1>1. /\ dispatch # <<>> /\ dispatch' = Tail(dispatch)
      /\ UNCHANGED <<process, toClient, handlers, request, posted, workQ, job, firmware, closing>>
  BY DEF RunHandler
<1>2. ~Has(toServer, WorkSlots) /\ NoWork /\ NoAnswer /\ NoWork' /\ NoAnswer'
  BY <1>1, HandlerAlone DEF NoWork, NoAnswer
<1>3. ASSUME toServer' = toServer \/ Invoke(<<Call("closeSession")>>)
      PROVE  CallsInv' /\ (~Running' => toServer' = <<>>)
  <2>1. Call("closeSession") \in Calls /\ Call("closeSession").slot \notin WorkSlots
    BY CallTyping DEF Call, Slots, SessionSlots, WorkSlots
  <2>2. CallsInv'
    BY <1>2, <1>3, <2>1, CallsQuiet, CallsGrowOther
  <2> QED BY <1>1, <1>3, <2>2 DEF Invoke, Running, ServerInv
<1>4. QueueInv' /\ JobInv' /\ AnswerInv'
  BY <1>2 DEF QueueInv, JobInv, AnswerInv, NoWork, NoAnswer
<1>5. ServerInv' <=> (~Running' => toServer' = <<>>)
  BY <1>1, <1>2 DEF ServerInv, NoAnswer
<1>6. handlers["flashingFinished"] = <<>>
  BY <1>1 DEF HandlersInv, DispatchInv
<1>7. ASSUME state' \in {"Idle", "ComputingChecksum"} PROVE HandlersInv'
  BY <1>1, <1>6, <1>7 DEF HandlersInv
<1>8. CASE /\ state = "Flashing" /\ status = "Succeed" /\ state' = "ComputingChecksum"
           /\ Invoke(<<Call("checkOnCorrectness")>>) /\ UNCHANGED sessionOpened
  <2> DEFINE call == Call("checkOnCorrectness")
             more == <<call>>
  <2>1. call \in Calls /\ call.slot = "checkOnCorrectness"
    BY CallTyping DEF Call, Slots, WorkSlots
  <2> HIDE DEF call
  <2>2. /\ more \in Seq(Calls) /\ DOMAIN more = {1} /\ more[1] = call
        /\ \A slots : Has(more, slots) <=> call.slot \in slots
    BY <2>1, OneHas
  <2> HIDE DEF more
  <2>3. Invoke(more)
    BY <1>8 DEF more, call
  <2>4. dispatch' = <<>>
    BY <1>1, <1>8, DispatchTail DEF DispatchInv
  <2>5. CallsInv'
    <3>1. WorkLast(more)
      BY <2>2 DEF WorkLast
    <3>2. Awaits("checkOnCorrectness")'
      BY <1>8 DEF Awaits
    <3> QED BY <1>2, <2>1, <2>2, <2>3, <2>4, <3>1, <3>2, CallsGrow
  <2>6. FirmwareInv'
    <3>1. ~Has(toServer, {"flash"})
      BY <1>2 DEF Has, WorkSlots
    <3> QED BY <1>1, <1>8, <3>1 DEF FirmwareInv, Updating, Running
  <2>7. ServerInv'
    BY <1>1, <1>5, <2>3 DEF ServerInv, Invoke, Running
  <2> QED BY <1>4, <1>7, <1>8, <2>4, <2>5, <2>6, <2>7
          DEF DispatchInv, SessionInv, Busy, Updating
<1>9. CASE /\ state = "Flashing" /\ status = "Cancelled"
           /\ UNCHANGED <<toServer, state, sessionOpened>>
  <2>1. dispatch' = <<>>
    BY <1>1, <1>9, DispatchTail DEF DispatchInv
  <2> QED BY <1>1, <1>3, <1>4, <1>5, <1>9, <2>1
          DEF DispatchInv, SessionInv, HandlersInv, FlashHandler, FirmwareInv, Running
<1>10. CASE /\ state' = "Idle"
            /\ toServer' = toServer \/ Invoke(<<Call("closeSession")>>)
  <2>1. DispatchInv'
    <3>1. CASE state = "Flashing"
      <4>1. dispatch' = <<>>
        BY <1>1, <3>1, DispatchTail DEF DispatchInv
      <4> QED BY <4>1 DEF DispatchInv
    <3>2. CASE state # "Flashing"
      <4>1. ASSUME NEW i \in DOMAIN dispatch'
            PROVE  dispatch'[i].handler = "finish" /\ dispatch'[i].status = status
        BY <1>1, <3>2, <4>1, DispatchTail DEF DispatchInv
      <4>2. dispatch' # <<>> => Head(dispatch').status = status
        BY <1>1, <3>2, DispatchTail DEF DispatchInv
      <4> QED BY <1>10, <4>1, <4>2 DEF DispatchInv
    <3> QED BY <3>1, <3>2
  <2> QED BY <1>3, <1>4, <1>5, <1>7, <1>10, <2>1
          DEF SessionInv, FirmwareInv, Busy, Updating
<1>11. ASSUME state # "Flashing" PROVE Head(dispatch).handler = "finish"
  BY <1>1, <1>11, DispatchTail DEF DispatchInv
<1>12. CASE Head(dispatch).handler = "check" /\ OnFlashingFinished(status)
  BY <1>8, <1>9, <1>10, <1>11, <1>12 DEF OnFlashingFinished, ReportFlashed
<1>13. CASE OnUpdatingFinished(status)
  BY <1>10, <1>13 DEF OnUpdatingFinished, ReportFlashed
<1> QED BY <1>12, <1>13 DEF RunHandler

LEMMA OperationClientLoop ==
    ASSUME TypeOK, OperationInv, ClientLoop, UNCHANGED serverVars
    PROVE  OperationInv'
<1> USE DEF OperationInv, serverVars, mainVars
<1>1. CASE HandleInitializingFinished
  <2>1. /\ toClient # <<>> /\ toClient' = Tail(toClient) /\ state' = "Idle"
        /\ Head(toClient).signal = "initializingFinished"
        /\ UNCHANGED <<process, toServer, handlers, dispatch, request, posted, workQ, job,
                       firmware, closing>>
    BY <1>1 DEF HandleInitializingFinished
  <2>2. /\ ~Has(toServer, WorkSlots) /\ NoWork' /\ NoAnswer' /\ dispatch' = <<>>
        /\ state = "Initializing"
    BY <2>1, AnswerAlone DEF NoWork, NoAnswer, AwaitsAnswer
  <2>3. CallsInv'
    BY <2>1, <2>2, CallsQuiet
  <2> QED BY <2>1, <2>2, <2>3
          DEF QueueInv, JobInv, AnswerInv, HandlersInv, DispatchInv, SessionInv, ServerInv,
              FirmwareInv, NoWork, NoAnswer, Busy, Updating, Running
<1>2. CASE HandleFlashAnswer
  <2> DEFINE answer == Head(toClient)
             connected == handlers[answer.signal]
  <2>1. /\ toClient # <<>> /\ toClient' = Tail(toClient)
        /\ handlers' = [handlers EXCEPT ![answer.signal] = <<>>]
        /\ UNCHANGED <<process, toServer, state, sessionOpened, request, posted, workQ, job,
                       firmware, closing>>
    BY <1>2 DEF HandleFlashAnswer
  <2>2. /\ ~Has(toServer, WorkSlots) /\ ~Has(toServer, WorkSlots \cup SessionSlots)
        /\ NoWork' /\ NoAnswer' /\ AwaitsAnswer(answer.signal)
    BY <2>1, AnswerAlone DEF NoWork, NoAnswer
  <2>3. CallsInv'
    BY <2>1, <2>2, CallsQuiet
  <2>4. TypeOK'
    BY <1>2, ClientLoopTyping DEF ClientLoop
  <2>5. /\ answer.signal \in FlashAnswers
        /\ \A i \in DOMAIN dispatch' :
              i \in DOMAIN connected /\ dispatch'[i].handler = connected[i]
        /\ \A i \in DOMAIN dispatch' : dispatch'[i].status = answer.status
        /\ dispatch' # <<>> => 1 \in DOMAIN dispatch' /\ Head(dispatch') = dispatch'[1]
        /\ Len(dispatch') = Len(connected)
    BY <1>2, <2>4, DispatchShape
  <2>6. handlers \in [FlashAnswers -> Seq(HandlerKinds)]
    BY DEF TypeOK, ClientTypeOK
  <2> HIDE DEF answer, connected
  <2>7. HandlersInv' /\ DispatchInv'
    <3>1. CASE answer.signal = "flashingFinished"
      <4>1. state = "Flashing" /\ state' = "Flashing"
        BY <2>1, <2>2, <3>1 DEF AwaitsAnswer
      <4>2. connected = <<>> \/ connected = <<FlashHandler>>
        BY <3>1, <4>1 DEF HandlersInv, connected
      <4>3. /\ handlers'["flashingFinished"] = <<>>
            /\ handlers'["checkOnCorrectnessFinished"] = handlers["checkOnCorrectnessFinished"]
        BY <2>1, <2>6, <3>1 DEF FlashAnswers
      <4>4. ASSUME dispatch' # <<>>
            PROVE  Len(dispatch') = 1 /\ Head(dispatch').handler = FlashHandler
        <5>1. connected = <<FlashHandler>>
          BY <2>5, <4>2, <4>4
        <5> QED BY <2>5, <4>4, <5>1
      <4>5. FlashHandler' = FlashHandler
        BY <2>1 DEF FlashHandler
      <4> QED BY <2>5, <4>1, <4>3, <4>4, <4>5 DEF HandlersInv, DispatchInv
    <3>2. CASE answer.signal = "checkOnCorrectnessFinished"
      <4>1. state = "ComputingChecksum" /\ state' = "ComputingChecksum"
        BY <2>1, <2>2, <3>2 DEF AwaitsAnswer
      <4>2. \A i \in DOMAIN connected : connected[i] = "finish"
        BY <3>2 DEF HandlersInv, connected
      <4>3. /\ handlers'["flashingFinished"] = handlers["flashingFinished"]
            /\ handlers'["checkOnCorrectnessFinished"] = <<>>
        BY <2>1, <2>6, <3>2 DEF FlashAnswers
      <4>4. \A i \in DOMAIN dispatch' : dispatch'[i].handler = "finish"
        BY <2>5, <4>2
      <4> QED BY <2>5, <4>1, <4>3, <4>4 DEF HandlersInv, DispatchInv
    <3> QED BY <2>5, <3>1, <3>2 DEF FlashAnswers
  <2> QED BY <2>1, <2>2, <2>3, <2>7
          DEF QueueInv, JobInv, AnswerInv, SessionInv, ServerInv, FirmwareInv, NoWork, NoAnswer,
              Running
<1>3. CASE RunHandler
  BY <1>3, OperationHandler
<1>4. CASE ReplicaLost
  <2>1. /\ ~Running /\ toClient = <<>> /\ dispatch = <<>> /\ state' = "Invalid"
        /\ UNCHANGED <<process, toServer, toClient, handlers, dispatch, request, posted, workQ,
                       job, firmware, closing>>
    BY <1>4 DEF ReplicaLost, channels
  <2>2. ~Has(toServer, WorkSlots) /\ NoWork' /\ NoAnswer'
    BY <2>1, EmptyHas DEF ServerInv, NoWork, NoAnswer
  <2>3. CallsInv'
    BY <2>1, <2>2, CallsQuiet
  <2> QED BY <2>1, <2>2, <2>3
          DEF QueueInv, JobInv, AnswerInv, HandlersInv, DispatchInv, SessionInv, ServerInv,
              FirmwareInv, NoWork, NoAnswer, Busy, Updating, Running
<1> QED BY <1>1, <1>2, <1>3, <1>4 DEF ClientLoop

-----------------------------------------------------------------------------
(* What every operation does *)

LEMMA OperationServer ==
    ASSUME TypeOK, SessionMirror, OperationInv, ServerStep
    PROVE  OperationInv'
BY OperationMain, OperationSession, OperationDeath DEF ServerStep, HeartbeatTimeout

LEMMA OperationStutter ==
    ASSUME OperationInv, UNCHANGED vars
    PROVE  OperationInv'
<1> USE DEF vars, channels, clientVars, serverVars, mainVars, Has
<1>1. CallsInv'
  BY DEF OperationInv, CallsInv, WorkLast, Awaits, NoWork, NoAnswer
<1>2. QueueInv' /\ JobInv' /\ AnswerInv'
  BY DEF OperationInv, QueueInv, JobInv, AnswerInv, Awaits, AwaitsJob, AwaitsAnswer, NoAnswer
<1>3. HandlersInv' /\ DispatchInv' /\ SessionInv' /\ ServerInv' /\ FirmwareInv'
  BY DEF OperationInv, HandlersInv, DispatchInv, SessionInv, ServerInv, FirmwareInv,
         FlashHandler, NoWork, Running
<1> QED BY <1>1, <1>2, <1>3 DEF OperationInv

LEMMA OperationStep ==
    ASSUME ~Reentrant, TypeOK, SessionMirror, OperationInv, [Next]_vars
    PROVE  OperationInv'
BY OperationApplication, OperationClientLoop, OperationServer, OperationStutter
   DEF Next, ClientStep

\* Of an application that does not call from inside handlers an operation is
\* one piece of work, which is in one place at a time: a call on its way, a
\* slot queued to the session, a job, an answer posted or sent, or a handler.
\* Wherever it is it is what the client waits for, for the file it asked for.
THEOREM OperationIsOne ==
    ASSUME ~Reentrant
    PROVE  Spec => []OperationInv
<1>1. Init => OperationInv
  BY OperationInit
<1>2. TypeOK /\ SessionMirror /\ OperationInv /\ [Next]_vars => OperationInv'
  BY OperationStep
<1> QED BY <1>1, <1>2, TypeCorrect, SessionMirrored, PTL DEF Spec

\* When the updater is idle nothing of the operation before is left in the
\* channels, the queues or the threads: its answer cannot be taken for the
\* answer to the next operation.
THEOREM IdleQuiet ==
    ASSUME ~Reentrant
    PROVE  Spec => []IdleMeansQuiet
<1>1. TypeOK /\ OperationInv => IdleMeansQuiet
  <2> SUFFICES ASSUME TypeOK, OperationInv, state = "Idle" PROVE IdleMeansQuiet
    BY DEF IdleMeansQuiet
  <2> QED BY IdleIsQuiet DEF IdleMeansQuiet, Has, NoWork, NoAnswer
<1> QED BY <1>1, OperationIsOne, TypeCorrect, PTL

\* The session thread is in the slot the client waits for, and the file the
\* updater remembers from the flash is the one that is checked.
THEOREM JobsServeRequests ==
    ASSUME ~Reentrant
    PROVE  Spec => []JobServesRequest
<1>1. OperationInv => JobServesRequest
  BY DEF OperationInv, JobInv, AwaitsJob, JobServesRequest
<1> QED BY <1>1, OperationIsOne, PTL

\* The main thread, which closeSession blocks, never waits for a session that
\* works or has work queued.
THEOREM CloseFindsNoJob ==
    ASSUME ~Reentrant
    PROVE  Spec => []CloseNeverWaitsOnJob
<1>1. OperationInv => CloseNeverWaitsOnJob
  BY DEF OperationInv, ServerInv, NoWork, CloseNeverWaitsOnJob
<1> QED BY <1>1, OperationIsOne, PTL

-----------------------------------------------------------------------------
(* What the updater may answer *)

\* A step of the session thread answers at most once, when no answer is left: with
\* success to a check if the device holds the image, and to an initialization if the
\* device is set, and with a cancel only if one was asked for in the session.
LEMMA SessionAnswers ==
    ASSUME TypeOK, OperationInv, SessionLoop, ~Segfault, UNCHANGED clientVars
    PROVE  /\ UNCHANGED <<process, toServer, toClient, cancelReq>>
           /\ \/ posted' = posted
              \/ \E s \in Signals :
                   /\ posted' # <<>> /\ Head(posted') = s
                   /\ workQ # <<>> \/ job.op # "none"
                   /\ s.status = "Cancelled" => cancelReq
                   /\ s = [signal |-> "initializingFinished", status |-> "Succeed"]
                        => edgeDevice'
                   /\ s = [signal |-> "checkOnCorrectnessFinished", status |-> "Succeed"]
                        => Holds(request.image)
<1> USE DEF channels, mainVars, sessionVars
<1> DEFINE Goal ==
      \E s \in Signals :
         /\ posted' # <<>> /\ Head(posted') = s
         /\ workQ # <<>> \/ job.op # "none"
         /\ s.status = "Cancelled" => cancelReq
         /\ s = [signal |-> "initializingFinished", status |-> "Succeed"] => edgeDevice'
         /\ s = [signal |-> "checkOnCorrectnessFinished", status |-> "Succeed"]
              => Holds(request.image)
<1>1. ASSUME NEW signal \in Answers, NEW status \in Statuses, Answer(signal, status),
             workQ # <<>> \/ job.op # "none",
             status = "Cancelled" => cancelReq,
             signal = "initializingFinished" /\ status = "Succeed" => edgeDevice',
             signal = "checkOnCorrectnessFinished" /\ status = "Succeed"
               => Holds(request.image)
      PROVE  Goal
  <2> DEFINE s == [signal |-> signal, status |-> status]
  <2>1. posted = <<>>
    BY <1>1, WorkAlone DEF NoAnswer
  <2>2. s \in Signals /\ s.signal = signal /\ s.status = status
    BY DEF Signals
  <2>3. posted' = <<s>>
    BY <1>1, <2>1 DEF Answer
  <2> HIDE DEF s
  <2>4. posted' # <<>> /\ Head(posted') = s
    BY <2>3
  <2> QED BY <1>1, <2>2, <2>4
<1> HIDE DEF Goal
<1>2. CASE BeginInitialize \/ ThreadEnds
  BY <1>2 DEF BeginInitialize, ThreadEnds
<1>3. CASE EndInitialize
  <2>1. job.op # "none" /\ UNCHANGED <<process, toServer, toClient, cancelReq>>
    BY <1>3 DEF EndInitialize
  <2>2. CASE NotPlugged
    BY <1>1, <2>1, <2>2 DEF NotPlugged, Answers, Statuses, Goal
  <2>3. CASE \E made \in BOOLEAN : Initialized(made)
    <3>1. PICK made \in BOOLEAN : Initialized(made)
      BY <2>3
    <3>2. CASE made
      BY <1>1, <2>1, <3>1, <3>2 DEF Initialized, Answers, Statuses, Goal
    <3>3. CASE ~made
      BY <1>1, <2>1, <3>1, <3>3 DEF Initialized, Answers, Statuses, Goal
    <3> QED BY <3>2, <3>3
  <2> QED BY <1>3, <2>2, <2>3 DEF EndInitialize
<1>4. CASE BeginFlash
  BY <1>4 DEF BeginFlash
<1>5. CASE FlashBlock \/ EndFlash \/ CancelFlash
  <2>1. job.op # "none" /\ UNCHANGED <<process, toServer, toClient, cancelReq>>
    BY <1>5 DEF FlashBlock, EndFlash, CancelFlash
  <2>2. ASSUME NEW status \in Statuses, Answer("flashingFinished", status),
               status = "Cancelled" => cancelReq
        PROVE  Goal
    BY <1>1, <2>1, <2>2 DEF Answers
  <2>3. posted' = posted \/ Goal
    BY <1>5, <2>2 DEF FlashBlock, Advance, EndFlash, CancelFlash, Statuses
  <2> QED BY <2>1, <2>3 DEF Goal
<1>6. CASE BeginCheck
  <2>1. workQ # <<>> /\ UNCHANGED <<process, toServer, toClient, cancelReq>>
    BY <1>6 DEF BeginCheck, TakeWork
  <2>2. Answer("checkOnCorrectnessFinished", "Failed") => Goal
    BY <1>1, <2>1 DEF Answers, Statuses
  <2> QED BY <1>6, <2>1, <2>2 DEF BeginCheck, Goal
<1>7. CASE ComputeImageCRC \/ ComputeDeviceCRC
  <2>1. /\ job.op \in {"crcImage", "crcDevice"}
        /\ UNCHANGED <<process, toServer, toClient, cancelReq>>
    BY <1>7 DEF ComputeImageCRC, ComputeDeviceCRC
  <2>2. job.image = request.image
    BY <2>1 DEF OperationInv, JobInv
  <2>3. ASSUME NEW status \in Statuses, Answer("checkOnCorrectnessFinished", status),
               status = "Cancelled" => cancelReq,
               status = "Succeed" => Holds(request.image)
        PROVE  Goal
    BY <1>1, <2>1, <2>3 DEF Answers
  <2>4. CASE ComputeImageCRC
    <3>1. ComputeCRC(ioDevice /\ job' = [job EXCEPT !.op = "crcDevice"] /\ UNCHANGED posted)
      BY <2>4 DEF ComputeImageCRC
    <3>2. posted' = posted \/ Goal
      BY <2>3, <3>1 DEF ComputeCRC, Statuses
    <3> QED BY <2>1, <3>2 DEF Goal
  <2>5. CASE ComputeDeviceCRC
    <3>1. ComputeCRC(Answer("checkOnCorrectnessFinished", Verdict))
      BY <2>5 DEF ComputeDeviceCRC
    <3>2. Verdict \in Statuses /\ (Verdict = "Succeed" => Holds(request.image))
      BY <2>2 DEF Verdict, Statuses
    <3>3. Verdict # "Cancelled"
      BY DEF Verdict
    <3>4. Goal
      BY <2>3, <3>1, <3>2, <3>3 DEF ComputeCRC, Statuses
    <3> QED BY <2>1, <3>4 DEF Goal
  <2> QED BY <1>7, <2>4, <2>5
<1> QED BY <1>2, <1>3, <1>4, <1>5, <1>6, <1>7 DEF SessionLoop

\* Only a flash writes to the device, and then there is no answer anywhere.
LEMMA OnlyFlashWrites ==
    ASSUME TypeOK, OperationInv, [Next]_vars, dev' # dev
    PROVE  /\ FlashBlock /\ UNCHANGED clientVars
           /\ state = "Flashing" /\ job.op = "flash" /\ job.image = request.image
           /\ NoAnswer /\ dispatch = <<>>
<1> USE DEF mainVars, sessionVars, channels
<1>1. ServerStep
  BY DEF Next, ClientStep, vars, serverVars
<1>2. UNCHANGED clientVars
  BY <1>1 DEF ServerStep
<1>3. FlashBlock
  BY <1>1
     DEF ServerStep, MainLoop, SessionLoop, HeartbeatTimeout, OpenSession, CloseSession,
         CloseSessionReturns, PerformWork, CancelWork, FinishProcess, ForwardAnswer,
         BeginInitialize, EndInitialize, BeginFlash, EndFlash, CancelFlash, BeginCheck,
         ComputeImageCRC, ComputeDeviceCRC, ThreadEnds, Segfault, ProcessDies
<1>4. job.op = "flash"
  BY <1>3 DEF FlashBlock
<1> QED BY <1>2, <1>3, <1>4 DEF OperationInv, JobInv, AwaitsJob

-----------------------------------------------------------------------------
(* What a report of success means *)

LEMMA VerifiedKept ==
    ASSUME VerifiedInv, UNCHANGED <<state, outcome, request, dev, dispatch>>,
           Found(posted)', Found(toClient)'
    PROVE  VerifiedInv'
BY DEF VerifiedInv, VerifiedMeansWritten, Holds

LEMMA VerifiedServer ==
    ASSUME TypeOK, OperationInv, OperationInv', VerifiedInv, ServerStep
    PROVE  VerifiedInv'
<1>1. UNCHANGED <<state, outcome, request, dispatch>>
  BY DEF ServerStep, clientVars
<1>2. CASE dev' # dev
  <2>1. /\ FlashBlock /\ state = "Flashing" /\ toClient = <<>> /\ dispatch = <<>>
    BY <1>2, OnlyFlashWrites DEF Next, NoAnswer
  <2>2. toClient' = <<>> /\ state' = "Flashing" /\ dispatch' = <<>>
    BY <1>1, <2>1 DEF FlashBlock, channels
  <2>3. posted' # <<>> => Head(posted').signal = "flashingFinished"
    BY <2>2 DEF OperationInv, AnswerInv, AwaitsAnswer
  <2>4. outcome' = "none" /\ request'.image \in Images
    BY <1>1, <2>1 DEF VerifiedInv, Updating
  <2> QED BY <2>2, <2>3, <2>4 DEF VerifiedInv, VerifiedMeansWritten, Found
<1>3. CASE dev' = dev
  <2>1. \A image : Holds(image)' = Holds(image)
    BY <1>3 DEF Holds
  <2>2. ASSUME posted' = posted \/ posted' = <<>>, toClient' = toClient \/ toClient' = <<>>
        PROVE  VerifiedInv'
    <3>1. Found(posted)' /\ Found(toClient)'
      BY <1>1, <2>1, <2>2 DEF VerifiedInv, Found
    <3> QED BY <1>1, <1>3, <3>1, VerifiedKept
  <2>3. ASSUME NEW how \in {"exited", "crashed"}, ProcessDies(how) PROVE VerifiedInv'
    BY <2>2, <2>3, DeathAnswers DEF ProcessDies
  <2>4. CASE ForwardAnswer
    <3>1. /\ posted # <<>> /\ posted' = <<>> /\ Head(toClient') = Head(posted)
      BY <2>4, ForwardOne
    <3>2. Found(posted)' /\ Found(toClient)'
      BY <1>1, <2>1, <3>1 DEF VerifiedInv, Found
    <3> QED BY <1>1, <1>3, <3>2, VerifiedKept
  <2>5. CASE MainLoop /\ ~ForwardAnswer /\ ~FinishProcess
    <3>1. posted' = posted /\ toClient' = toClient
      BY <2>5
         DEF MainLoop, OpenSession, CloseSession, CloseSessionReturns, PerformWork, CancelWork,
             channels
    <3> QED BY <2>2, <3>1
  <2>6. CASE SessionLoop /\ ~Segfault
    <3>1. /\ toClient' = toClient
          /\ \/ posted' = posted
             \/ posted' # <<>> /\ (Head(posted') = [signal |-> "checkOnCorrectnessFinished",
                                                    status |-> "Succeed"]
                                     => Holds(request.image))
      BY <2>6, SessionAnswers DEF ServerStep
    <3>2. Found(posted)' /\ Found(toClient)'
      BY <1>1, <2>1, <3>1 DEF VerifiedInv, Found
    <3> QED BY <1>1, <1>3, <3>2, VerifiedKept
  <2> QED BY <2>3, <2>4, <2>5, <2>6
          DEF ServerStep, HeartbeatTimeout, FinishProcess, Segfault
<1> QED BY <1>2, <1>3

LEMMA VerifiedHandler ==
    ASSUME TypeOK, OperationInv, VerifiedInv, RunHandler, UNCHANGED serverVars
    PROVE  VerifiedInv'
<1> DEFINE status == Head(dispatch).status
<1>1. /\ dispatch # <<>> /\ dispatch' = Tail(dispatch)
      /\ UNCHANGED <<toClient, request, posted, dev>>
  BY DEF RunHandler, serverVars
<1>2. posted' = <<>> /\ toClient' = <<>>
  BY <1>1, HandlerAlone DEF NoAnswer
<1>3. \A image : Holds(image)' = Holds(image)
  BY <1>1 DEF Holds
<1>4. Found(posted)' /\ Found(toClient)'
  BY <1>2 DEF Found
<1>5. /\ state \in {"Flashing", "ComputingChecksum", "Idle"}
      /\ state = "Flashing" => dispatch' = <<>> /\ Head(dispatch).handler = FlashHandler
      /\ state # "Flashing" => Head(dispatch).handler = "finish"
      /\ dispatch' # <<>> => Head(dispatch').status = status
  BY <1>1, DispatchTail DEF OperationInv, DispatchInv
<1>6. CASE Head(dispatch).handler = "check" /\ OnFlashingFinished(status)
  <2>1. /\ state = "Flashing" /\ outcome = "none" /\ dispatch' = <<>>
        /\ outcome' \in {"none", "false"}
        /\ state' \in Updating => outcome' = "none"
        /\ request'.image \in Images
    BY <1>1, <1>5, <1>6 DEF OnFlashingFinished, ReportFlashed, VerifiedInv, Updating
  <2> QED BY <1>4, <2>1 DEF VerifiedInv, VerifiedMeansWritten
<1>7. CASE Head(dispatch).handler = "finish" /\ OnUpdatingFinished(status)
  <2>1. /\ state' = "Idle"
        /\ status = "Succeed" => outcome' = "true"
        /\ status = "Failed" => outcome' = "false"
        /\ status = "Cancelled" => outcome' = outcome
        /\ status \in {"Succeed", "Failed", "Cancelled"}
    BY <1>7 DEF OnUpdatingFinished, ReportFlashed
  <2>2. CASE state = "Flashing"
    <3>1. outcome = "none" /\ dispatch' = <<>> /\ ~request.checksum /\ request' = request
      BY <1>1, <1>5, <1>7, <2>2 DEF VerifiedInv, Updating, FlashHandler
    <3> QED BY <1>4, <2>1, <3>1 DEF VerifiedInv, VerifiedMeansWritten, Updating
  <2>3. CASE state # "Flashing"
    <3>1. status = "Succeed" => Holds(request.image)
      BY <1>1, <2>3 DEF VerifiedInv
    <3>2. VerifiedMeansWritten'
      BY <1>1, <1>3, <2>1, <3>1 DEF VerifiedMeansWritten, VerifiedInv
    <3> QED BY <1>1, <1>3, <1>4, <1>5, <2>1, <3>1, <3>2 DEF VerifiedInv, Updating
  <2> QED BY <2>2, <2>3
<1> QED BY <1>6, <1>7 DEF RunHandler

LEMMA VerifiedClient ==
    ASSUME ~Reentrant, TypeOK, TypeOK', OperationInv, VerifiedInv, ClientStep
    PROVE  VerifiedInv'
<1>1. /\ UNCHANGED <<posted, dev>>
      /\ \A image : Holds(image)' = Holds(image)
  BY DEF ClientStep, serverVars, Holds
<1>2. CASE InitializeDevice
  <2>1. /\ dispatch' = <<>> /\ state' = "Initializing"
        /\ UNCHANGED <<toClient, request, outcome>>
    BY <1>2 DEF InitializeDevice, InitializeDeviceImpl, ApplicationCalls
  <2> QED BY <1>1, <2>1 DEF VerifiedInv, VerifiedMeansWritten, Found, Updating
<1>3. CASE \E image \in Images, checksum \in BOOLEAN : Flash(image, checksum)
  <2>1. /\ dispatch' = <<>> /\ state = "Idle" /\ outcome' = "none" /\ toClient' = toClient
        /\ request'.image \in Images
    BY <1>3 DEF Flash, FlashImpl, ApplicationCalls, IsIdle
  <2>2. posted' = <<>> /\ toClient' = <<>>
    BY <1>1, <2>1, IdleIsQuiet DEF NoAnswer
  <2> QED BY <2>1, <2>2 DEF VerifiedInv, VerifiedMeansWritten, Found
<1>4. CASE Cancel \/ Finish
  <2>1. UNCHANGED <<toClient, state, outcome, request, dispatch>>
    BY <1>4 DEF Cancel, Finish
  <2> QED BY <1>1, <2>1, VerifiedKept DEF VerifiedInv, Found
<1>5. CASE HandleInitializingFinished
  <2>1. /\ toClient # <<>> /\ toClient' = Tail(toClient) /\ state' = "Idle"
        /\ UNCHANGED <<dispatch, request, outcome>>
    BY <1>5 DEF HandleInitializingFinished
  <2>2. toClient' = <<>> /\ dispatch' = <<>>
    BY <2>1, AnswerAlone
  <2> QED BY <1>1, <2>1, <2>2 DEF VerifiedInv, VerifiedMeansWritten, Found, Updating
<1>6. CASE HandleFlashAnswer
  <2>1. /\ toClient # <<>> /\ toClient' = Tail(toClient) /\ UNCHANGED <<state, request, outcome>>
    BY <1>6 DEF HandleFlashAnswer
  <2>2. toClient' = <<>> /\ AwaitsAnswer(Head(toClient).signal)
    BY <2>1, AnswerAlone
  <2>3. dispatch' # <<>> => Head(dispatch').status = Head(toClient).status
    BY <1>6, DispatchShape
  <2>4. Head(toClient) \in Signals
    BY <2>1 DEF TypeOK, IPCTypeOK
  <2>5. Head(toClient).signal \in FlashAnswers
    BY <1>6, DispatchShape
  <2>6. state # "Idle" /\ (state # "Flashing" => state = "ComputingChecksum"
                             /\ Head(toClient).signal = "checkOnCorrectnessFinished")
    BY <2>2, <2>5 DEF AwaitsAnswer, FlashAnswers
  <2>7. state # "Flashing" /\ Head(toClient).status = "Succeed" => Holds(request.image)
    <3>1. Head(toClient) = [signal |-> Head(toClient).signal, status |-> Head(toClient).status]
      BY <2>4 DEF Signals
    <3> QED BY <2>1, <2>6, <3>1 DEF VerifiedInv, Found
  <2> QED BY <1>1, <2>1, <2>2, <2>3, <2>6, <2>7
          DEF VerifiedInv, VerifiedMeansWritten, Found
<1>7. CASE RunHandler
  BY <1>7, VerifiedHandler DEF ClientStep
<1>8. CASE ReplicaLost
  <2>1. /\ toClient' = <<>> /\ dispatch' = <<>> /\ state' = "Invalid"
        /\ UNCHANGED <<request, outcome>> /\ ~Running
    BY <1>8 DEF ReplicaLost, channels
  <2>2. posted' = <<>>
    BY <1>1, <2>1 DEF OperationInv, ServerInv
  <2> QED BY <1>1, <2>1, <2>2 DEF VerifiedInv, VerifiedMeansWritten, Found, Updating
<1> QED BY <1>2, <1>3, <1>4, <1>5, <1>6, <1>7, <1>8
        DEF ClientStep, Application, ClientLoop

LEMMA VerifiedStep ==
    ASSUME ~Reentrant, TypeOK, TypeOK', OperationInv, OperationInv', VerifiedInv, [Next]_vars
    PROVE  VerifiedInv'
<1>1. CASE UNCHANGED vars
  BY <1>1, VerifiedKept
     DEF vars, channels, clientVars, serverVars, VerifiedInv, Found, Holds
<1> QED BY <1>1, VerifiedClient, VerifiedServer DEF Next

LEMMA VerifiedAlways ==
    ASSUME ~Reentrant
    PROVE  Spec => []VerifiedInv
<1>1. Init => VerifiedInv
  BY DEF Init, IPCInit, ClientInit, ServerInit, VerifiedInv, VerifiedMeansWritten, Found,
         Updating
<1>2. TypeOK /\ TypeOK' /\ OperationInv /\ OperationInv' /\ VerifiedInv /\ [Next]_vars
        => VerifiedInv'
  BY VerifiedStep
<1> QED BY <1>1, <1>2, TypeCorrect, OperationIsOne, PTL DEF Spec

\* A flash with the checksum that is reported a success has left the whole file
\* that was asked for on the device, and there it is until the next request:
\* the verdict is of this file, on this device, and nothing writes meanwhile.
THEOREM SuccessMeansWritten ==
    ASSUME ~Reentrant
    PROVE  Spec => []VerifiedMeansWritten
<1>1. VerifiedInv => VerifiedMeansWritten
  BY DEF VerifiedInv
<1> QED BY <1>1, VerifiedAlways, PTL

\* From the report of success to the next request nothing is written to the
\* device.
THEOREM ReportedUntouched ==
    ASSUME ~Reentrant
    PROVE  Spec => ReportedDeviceUntouched
<1>1. TypeOK /\ OperationInv /\ VerifiedInv /\ [Next]_vars
        => [outcome = "true" /\ outcome' = "true" => dev' = dev]_vars
  <2> SUFFICES ASSUME TypeOK, OperationInv, VerifiedInv, [Next]_vars, dev' # dev
               PROVE  outcome # "true"
    OBVIOUS
  <2>1. state = "Flashing"
    BY OnlyFlashWrites
  <2> QED BY <2>1 DEF VerifiedInv, Updating
<1> QED BY <1>1, TypeCorrect, OperationIsOne, VerifiedAlways, PTL
        DEF Spec, ReportedDeviceUntouched

-----------------------------------------------------------------------------
(* What a cancel ends *)

LEMMA OpensAppend ==
    ASSUME NEW queue \in Seq(Calls), NEW call \in Calls, NEW exists,
           OpensAfterClose(queue, exists),
           call.slot = "openSession" =>
              queue # <<>> /\ queue[Len(queue)].slot = "closeSession"
    PROVE  OpensAfterClose(queue \o <<call>>, exists)
<1> DEFINE longer == queue \o <<call>>
<1>1. /\ DOMAIN longer = 1..(Len(queue) + 1) /\ DOMAIN queue = 1..Len(queue)
      /\ longer[Len(queue) + 1] = call /\ Len(queue) \in Nat
      /\ \A i \in DOMAIN queue : longer[i] = queue[i]
  OBVIOUS
<1>2. queue # <<>> => Len(queue) > 0
  OBVIOUS
<1> HIDE DEF longer
<1> SUFFICES ASSUME NEW i \in DOMAIN longer, longer[i].slot = "openSession"
             PROVE  \/ i = 1 /\ ~exists
                    \/ i > 1 /\ longer[i - 1].slot = "closeSession"
  BY DEF OpensAfterClose, longer
<1>3. CASE i \in DOMAIN queue
  <2>1. i > 1 => i - 1 \in DOMAIN queue /\ longer[i - 1] = queue[i - 1]
    BY <1>1, <1>3
  <2> QED BY <1>1, <1>3, <2>1 DEF OpensAfterClose
<1>4. CASE i = Len(queue) + 1
  <2>1. call.slot = "openSession"
    BY <1>1, <1>4
  <2>2. Len(queue) > 0 /\ queue[Len(queue)].slot = "closeSession"
    BY <1>2, <2>1
  <2>3. i - 1 = Len(queue) /\ i - 1 \in DOMAIN queue /\ i > 1
    BY <1>1, <1>4, <2>2
  <2> QED BY <1>1, <2>2, <2>3
<1> QED BY <1>1, <1>3, <1>4

LEMMA OpensTail ==
    ASSUME NEW queue \in Seq(Calls), queue # <<>>, NEW exists, NEW exists1,
           OpensAfterClose(queue, exists), Head(queue).slot = "closeSession" => ~exists1
    PROVE  OpensAfterClose(Tail(queue), exists1)
<1> DEFINE rest == Tail(queue)
<1>1. /\ DOMAIN rest = 1..(Len(queue) - 1) /\ DOMAIN queue = 1..Len(queue)
      /\ Head(queue) = queue[1]
      /\ \A i \in DOMAIN rest : rest[i] = queue[i + 1] /\ i + 1 \in DOMAIN queue
  OBVIOUS
<1> HIDE DEF rest
<1> SUFFICES ASSUME NEW i \in DOMAIN rest, rest[i].slot = "openSession"
             PROVE  \/ i = 1 /\ ~exists1
                    \/ i > 1 /\ rest[i - 1].slot = "closeSession"
  BY DEF OpensAfterClose, rest
<1>2. i + 1 \in DOMAIN queue /\ queue[i + 1].slot = "openSession" /\ i + 1 > 1 /\ i + 1 # 1
      /\ (i + 1) - 1 = i /\ i >= 1
  BY <1>1
<1>3. queue[i].slot = "closeSession"
  BY <1>2 DEF OpensAfterClose
<1>4. i > 1 => i - 1 \in DOMAIN rest /\ (i - 1) + 1 = i
  BY <1>1
<1> QED BY <1>1, <1>2, <1>3, <1>4

LEMMA CancelsAppend ==
    ASSUME NEW queue \in Seq(Calls), NEW call \in Calls,
           \/ call.slot = "openSession"
           \/ CancelsBeforeOpen(queue) /\ call.slot # "cancel"
    PROVE  CancelsBeforeOpen(queue \o <<call>>)
<1> DEFINE longer == queue \o <<call>>
<1>1. /\ DOMAIN longer = 1..(Len(queue) + 1) /\ DOMAIN queue = 1..Len(queue)
      /\ longer[Len(queue) + 1] = call /\ Len(queue) \in Nat
      /\ \A i \in DOMAIN queue : longer[i] = queue[i] /\ i \in DOMAIN longer
                                   /\ i < Len(queue) + 1
      /\ Len(queue) + 1 \in DOMAIN longer
      /\ \A i \in DOMAIN longer : i \in DOMAIN queue \/ i = Len(queue) + 1
  OBVIOUS
<1> HIDE DEF longer
<1> SUFFICES ASSUME NEW i \in DOMAIN longer, longer[i].slot = "cancel"
             PROVE  \E j \in DOMAIN longer : i < j /\ longer[j].slot = "openSession"
  BY DEF CancelsBeforeOpen, longer
<1>2. CASE call.slot = "openSession"
  BY <1>1, <1>2
<1>3. CASE CancelsBeforeOpen(queue) /\ call.slot # "cancel"
  BY <1>1, <1>3 DEF CancelsBeforeOpen
<1> QED BY <1>2, <1>3

LEMMA CancelsTail ==
    ASSUME NEW queue \in Seq(Calls), queue # <<>>, CancelsBeforeOpen(queue)
    PROVE  /\ CancelsBeforeOpen(Tail(queue))
           /\ Head(queue).slot = "cancel" => Has(Tail(queue), {"openSession"})
<1> DEFINE rest == Tail(queue)
<1>1. /\ DOMAIN rest = 1..(Len(queue) - 1) /\ DOMAIN queue = 1..Len(queue)
      /\ Head(queue) = queue[1] /\ 1 \in DOMAIN queue
      /\ \A i \in DOMAIN rest : rest[i] = queue[i + 1] /\ i + 1 \in DOMAIN queue /\ i + 1 > 1
  OBVIOUS
<1>2. \A j \in DOMAIN queue : 1 < j => j - 1 \in DOMAIN rest /\ queue[j] = rest[j - 1]
  <2> SUFFICES ASSUME NEW j \in DOMAIN queue, 1 < j
               PROVE  j - 1 \in DOMAIN rest /\ queue[j] = rest[j - 1]
    OBVIOUS
  <2>1. j - 1 \in DOMAIN rest /\ (j - 1) + 1 = j
    BY <1>1
  <2> QED BY <1>1, <2>1
<1> HIDE DEF rest
<1>3. ASSUME NEW i \in DOMAIN rest, rest[i].slot = "cancel"
      PROVE  \E j \in DOMAIN rest : i < j /\ rest[j].slot = "openSession"
  <2>1. PICK j \in DOMAIN queue : i + 1 < j /\ queue[j].slot = "openSession"
    BY <1>1, <1>3 DEF CancelsBeforeOpen
  <2>2. 1 < j /\ i < j - 1
    BY <1>1, <2>1
  <2> QED BY <1>2, <2>1, <2>2
<1>4. ASSUME Head(queue).slot = "cancel" PROVE Has(rest, {"openSession"})
  <2>1. PICK j \in DOMAIN queue : 1 < j /\ queue[j].slot = "openSession"
    BY <1>1, <1>4 DEF CancelsBeforeOpen
  <2> QED BY <1>2, <2>1 DEF Has
<1> QED BY <1>3, <1>4 DEF CancelsBeforeOpen, rest

\* The client calls a slot that neither opens nor cancels.
LEMMA CancelAppend ==
    ASSUME TypeOK, CancelInv, NEW call \in Calls,
           call.slot \notin {"openSession", "cancel"}, Invoke(<<call>>),
           UNCHANGED <<process, posted, session, closing, cancelReq, cancelAsked>>,
           toClient' = toClient \/ toClient' = <<>>
    PROVE  CancelInv'
<1>1. toServer \in Seq(Calls) /\ <<call>> \in Seq(Calls)
  BY DEF TypeOK, IPCTypeOK
<1>2. OpensAfterClose(toServer', session /\ ~closing)
  BY <1>1, OpensAppend DEF Invoke, CancelInv
<1>3. ASSUME Running
      PROVE  /\ CancelsBeforeOpen(toServer) => CancelsBeforeOpen(toServer')
             /\ Has(toServer, {"openSession"}) => Has(toServer', {"openSession"})
  BY <1>1, <1>3, CancelsAppend, HasConcat DEF Invoke
<1> QED BY <1>2, <1>3 DEF CancelInv, NotCancelled, Running

LEMMA CancelKept ==
    ASSUME CancelInv,
           UNCHANGED <<process, toServer, cancelReq, cancelAsked>>,
           (session /\ ~closing)' = (session /\ ~closing),
           ~cancelAsked => NotCancelled(posted)' /\ NotCancelled(toClient)'
    PROVE  CancelInv'
BY DEF CancelInv, Running

LEMMA CancelClient ==
    ASSUME ~Reentrant, TypeOK, OperationInv, CancelInv, ClientStep
    PROVE  CancelInv'
<1>1. UNCHANGED <<posted, session, closing, cancelReq>>
  BY DEF ClientStep, serverVars, mainVars, sessionVars
<1>2. toServer \in Seq(Calls)
  BY DEF TypeOK, IPCTypeOK
<1>3. CASE InitializeDevice
  <2> DEFINE close == Call("closeSession")
             open == Call("openSession")
             init == Call("initializeEdgeDevice")
             exists == session /\ ~closing
  <2>1. /\ state = "Idle" /\ dispatch = <<>> /\ Invoke(<<close, open, init>>)
        /\ UNCHANGED <<process, toClient>>
    BY <1>3 DEF InitializeDevice, InitializeDeviceImpl, IsIdle, ApplicationCalls
  <2>2. posted' = <<>> /\ toClient' = <<>>
    BY <1>1, <2>1, IdleIsQuiet DEF NoAnswer
  <2>3. /\ close \in Calls /\ close.slot = "closeSession"
        /\ open \in Calls /\ open.slot = "openSession"
        /\ init \in Calls /\ init.slot = "initializeEdgeDevice"
    BY CallTyping DEF Call, Slots, SessionSlots, WorkSlots
  <2> HIDE DEF close, open, init, exists
  <2> DEFINE closed == toServer \o <<close>>
             opened == closed \o <<open>>
  <2>4. closed \in Seq(Calls) /\ opened \in Seq(Calls)
    BY <1>2, <2>3
  <2>5. closed # <<>> /\ closed[Len(closed)] = close
    BY <1>2, <2>3
  <2>6. OpensAfterClose(toServer, exists)
    BY DEF CancelInv, exists
  <2>7. OpensAfterClose(closed, exists)
    BY <1>2, <2>3, <2>6, OpensAppend
  <2>8. Has(opened, {"openSession"})
    <3>1. <<open>> \in Seq(Calls) /\ Has(<<open>>, {"openSession"})
      BY <2>3, OneHas
    <3> QED BY <2>4, <3>1, HasConcat
  <2> HIDE DEF closed
  <2>9. OpensAfterClose(opened, exists) /\ CancelsBeforeOpen(opened)
    BY <2>3, <2>4, <2>5, <2>7, OpensAppend, CancelsAppend
  <2> HIDE DEF opened
  <2>10. /\ OpensAfterClose(opened \o <<init>>, exists) /\ CancelsBeforeOpen(opened \o <<init>>)
         /\ Has(opened \o <<init>>, {"openSession"})
    <3>1. <<init>> \in Seq(Calls)
      BY <2>3
    <3> QED BY <2>3, <2>4, <2>8, <2>9, <3>1, OpensAppend, CancelsAppend, HasConcat
  <2>11. toServer' = IF Running THEN opened \o <<init>> ELSE toServer
    <3>1. toServer \o <<close, open, init>> = opened \o <<init>>
      BY <1>2, <2>3, ConcatThree DEF opened, closed
    <3> QED BY <2>1, <3>1 DEF Invoke
  <2>12. exists' = exists
    BY <1>1 DEF exists
  <2> QED BY <2>1, <2>2, <2>6, <2>10, <2>11, <2>12 DEF CancelInv, NotCancelled, Running, exists
<1>4. CASE \E image \in Images, checksum \in BOOLEAN : Flash(image, checksum)
  <2>1. PICK image \in Images, checksum \in BOOLEAN : Flash(image, checksum)
    BY <1>4
  <2> DEFINE call == [slot |-> "flash", image |-> image]
  <2>2. Invoke(<<call>>) /\ UNCHANGED <<process, toClient, cancelAsked>>
    BY <2>1 DEF Flash, FlashImpl
  <2>3. call \in Calls /\ call.slot = "flash"
    BY CallTyping
  <2> HIDE DEF call
  <2> QED BY <1>1, <2>2, <2>3, CancelAppend
<1>5. CASE Cancel
  <2>1. /\ Invoke(<<Call("cancel")>>) /\ cancelAsked' /\ UNCHANGED process
    BY <1>5 DEF Cancel
  <2>2. Call("cancel") \in Calls /\ Call("cancel").slot = "cancel"
    BY CallTyping DEF Call, Slots
  <2>3. OpensAfterClose(toServer', session /\ ~closing)
    BY <1>2, <2>1, <2>2, OpensAppend DEF Invoke, CancelInv
  <2> QED BY <1>1, <2>1, <2>3 DEF CancelInv
<1>6. ASSUME NEW slot \in {"finish", "checkOnCorrectness", "closeSession"},
             Invoke(<<Call(slot)>>), UNCHANGED <<process, cancelAsked, toClient>>
      PROVE  CancelInv'
  <2>1. Call(slot) \in Calls /\ Call(slot).slot = slot
    BY CallTyping DEF Call, Slots, SessionSlots, WorkSlots
  <2> QED BY <1>1, <1>6, <2>1, CancelAppend
<1>7. CASE Finish
  BY <1>6, <1>7 DEF Finish
<1>8. ASSUME UNCHANGED <<process, toServer, cancelAsked>>,
             toClient' = toClient \/ toClient' = <<>>
      PROVE  CancelInv'
  BY <1>1, <1>8, CancelKept DEF CancelInv, NotCancelled
<1>9. CASE HandleInitializingFinished \/ HandleFlashAnswer
  BY <1>8, <1>9, AnswerAlone DEF HandleInitializingFinished, HandleFlashAnswer
<1>10. CASE RunHandler
  <2>1. UNCHANGED <<process, toClient, cancelAsked>>
    BY <1>10 DEF RunHandler
  <2>2. \/ toServer' = toServer
        \/ \E slot \in {"checkOnCorrectness", "closeSession"} : Invoke(<<Call(slot)>>)
    BY <1>10 DEF RunHandler, OnFlashingFinished, OnUpdatingFinished, ReportFlashed
  <2> QED BY <1>6, <1>8, <2>1, <2>2
<1>11. CASE ReplicaLost
  BY <1>8, <1>11 DEF ReplicaLost, channels
<1> QED BY <1>3, <1>4, <1>5, <1>7, <1>9, <1>10, <1>11
        DEF ClientStep, Application, ClientLoop

LEMMA CancelServer ==
    ASSUME TypeOK, OperationInv, CancelInv, ServerStep
    PROVE  CancelInv'
<1> USE DEF mainVars, sessionVars, channels
<1>1. UNCHANGED cancelAsked
  BY DEF ServerStep, clientVars
<1>2. toServer \in Seq(Calls) /\ session \in BOOLEAN /\ closing \in BOOLEAN
  BY DEF TypeOK, IPCTypeOK, ServerTypeOK
<1>3. ASSUME NEW slots, TakeCall(slots), toServer' = Tail(toServer),
             UNCHANGED <<process, toClient, posted>>,
             Head(toServer).slot = "closeSession" => ~(session /\ ~closing)',
             cancelReq' => \/ cancelReq /\ Head(toServer).slot # "openSession"
                           \/ Head(toServer).slot = "cancel"
      PROVE  CancelInv'
  <2>1. toServer # <<>> /\ Running
    BY <1>3 DEF TakeCall, MainRuns
  <2>2. OpensAfterClose(toServer', (session /\ ~closing)')
    BY <1>2, <1>3, <2>1, OpensTail DEF CancelInv
  <2>3. CancelsBeforeOpen(toServer) =>
          /\ CancelsBeforeOpen(toServer')
          /\ Head(toServer).slot = "cancel" => Has(toServer', {"openSession"})
    BY <1>2, <1>3, <2>1, CancelsTail
  <2>4. Has(toServer, {"openSession"}) /\ Head(toServer).slot # "openSession"
          => Has(toServer', {"openSession"})
    BY <1>2, <1>3, <2>1, HasTail
  <2> QED BY <1>1, <1>3, <2>1, <2>2, <2>3, <2>4 DEF CancelInv, NotCancelled, Running
<1>4. CASE OpenSession
  <2>1. Head(toServer).slot = "openSession" /\ toServer # <<>> /\ ~closing
    BY <1>4 DEF OpenSession, TakeCall, MainRuns
  <2>2. ~session
    <3>1. 1 \in DOMAIN toServer /\ toServer[1] = Head(toServer) /\ ~(1 > 1)
      BY <1>2, <2>1
    <3> QED BY <2>1, <3>1 DEF CancelInv, OpensAfterClose
  <2>3. cancelReq' = FALSE
    BY <1>4, <2>2 DEF OpenSession, NewSession
  <2> QED BY <1>3, <1>4, <2>1, <2>3 DEF OpenSession
<1>5. CASE CloseSession
  <2>1. Head(toServer).slot = "closeSession"
    BY <1>5 DEF CloseSession, TakeCall
  <2> QED BY <1>3, <1>5, <2>1 DEF CloseSession
<1>6. CASE CloseSessionReturns
  BY <1>1, <1>6, CancelKept DEF CloseSessionReturns, CancelInv, NotCancelled
<1>7. CASE PerformWork
  <2>1. Head(toServer).slot \notin {"openSession", "closeSession"}
    BY <1>7 DEF PerformWork, TakeCall, WorkSlots
  <2> QED BY <1>3, <1>7, <2>1 DEF PerformWork
<1>8. CASE CancelWork
  <2>1. Head(toServer).slot = "cancel"
    BY <1>8 DEF CancelWork, TakeCall
  <2> QED BY <1>3, <1>8, <2>1 DEF CancelWork
<1>9. ASSUME NEW how \in {"exited", "crashed"}, ProcessDies(how) PROVE CancelInv'
  <2>1. /\ toServer' = <<>> /\ ~Running' /\ posted' = <<>>
    BY <1>9 DEF ProcessDies, Die, Running
  <2>2. toClient' = toClient \/ toClient' = <<>>
    BY <1>9, DeathAnswers
  <2>3. \A exists : OpensAfterClose(<<>>, exists)
    BY DEF OpensAfterClose
  <2> QED BY <1>1, <2>1, <2>2, <2>3 DEF CancelInv, NotCancelled
<1>10. CASE ForwardAnswer
  <2>1. posted # <<>> /\ posted' = <<>> /\ Head(toClient') = Head(posted)
    BY <1>10, ForwardOne
  <2> QED BY <1>1, <1>10, <2>1, CancelKept DEF ForwardAnswer, CancelInv, NotCancelled
<1>11. CASE SessionLoop /\ ~Segfault
  <2>1. UNCHANGED <<session, closing>>
    BY <1>11
       DEF SessionLoop, BeginInitialize, EndInitialize, BeginFlash, FlashBlock, EndFlash,
           CancelFlash, BeginCheck, ComputeImageCRC, ComputeDeviceCRC, ThreadEnds
  <2>2. /\ UNCHANGED <<process, toServer, toClient, cancelReq>>
        /\ \/ posted' = posted
           \/ /\ workQ # <<>> \/ job.op # "none"
              /\ Head(posted').status = "Cancelled" => cancelReq
    BY <1>11, SessionAnswers DEF ServerStep
  <2>3. ASSUME ~cancelAsked, workQ # <<>> \/ job.op # "none"
        PROVE  ~cancelReq
    <3>1. Running /\ ~Has(toServer, {"openSession"})
      BY <2>3, WorkAlone DEF Has, SessionSlots
    <3> QED BY <2>3, <3>1 DEF CancelInv
  <2> QED BY <1>1, <2>1, <2>2, <2>3, CancelKept DEF CancelInv, NotCancelled
<1> QED BY <1>4, <1>5, <1>6, <1>7, <1>8, <1>9, <1>10, <1>11
        DEF ServerStep, MainLoop, HeartbeatTimeout, FinishProcess, Segfault

\* The flag of a cancel dies with its session: an operation that is answered
\* with Cancelled was cancelled after its device was last initialized, however
\* late the cancels of before come to the updater.
THEOREM CancelIsConfined ==
    ASSUME ~Reentrant
    PROVE  Spec => []CancelConfined
<1>1. Init => CancelInv
  BY DEF Init, IPCInit, ClientInit, ServerInit, CancelInv, OpensAfterClose, CancelsBeforeOpen,
         NotCancelled
<1>2. TypeOK /\ OperationInv /\ CancelInv /\ [Next]_vars => CancelInv'
  <2>1. CancelInv /\ UNCHANGED vars => CancelInv'
    BY CancelKept
       DEF vars, channels, clientVars, serverVars, mainVars, sessionVars, CancelInv, NotCancelled
  <2> QED BY <2>1, CancelClient, CancelServer DEF Next
<1>3. TypeOK /\ OperationInv /\ CancelInv => CancelConfined
  <2> SUFFICES ASSUME TypeOK, OperationInv, CancelInv, NEW s \in {posted, toClient},
                      NEW i \in DOMAIN s, ~cancelAsked
               PROVE  s[i].status # "Cancelled"
    BY DEF CancelConfined
  <2>1. s \in Seq(Signals) /\ (s # <<>> => Len(s) = 1) /\ NotCancelled(s)
    BY DEF TypeOK, IPCTypeOK, ServerTypeOK, OperationInv, AnswerInv, CancelInv
  <2>2. s # <<>> /\ i = 1 /\ Head(s) = s[1]
    BY <2>1
  <2> QED BY <2>1, <2>2 DEF NotCancelled
<1> QED BY <1>1, <1>2, <1>3, TypeCorrect, OperationIsOne, PTL DEF Spec

-----------------------------------------------------------------------------
(* What the session finds *)

LEMMA DeviceClient ==
    ASSUME ~Reentrant, Disciplined, TypeOK, OperationInv, DeviceInv, ClientStep
    PROVE  DeviceInv'
<1>1. UNCHANGED <<posted, workQ, edgeDevice, ioDevice>>
  BY DEF ClientStep, serverVars, mainVars, sessionVars
<1>2. ASSUME \/ toServer' = toServer
             \/ \E call \in Calls : call.slot # "openSession" /\ Invoke(<<call>>),
             UNCHANGED <<process, ready>>,
             toClient' = toClient \/ toClient' = <<>>,
             state' = "Initializing" => state = "Initializing",
             state' \in Updating =>
                state \in Updating \/ (ready /\ (Running => Has(toServer', {"flash"})))
      PROVE  DeviceInv'
  <2>1. /\ Running /\ Has(toServer, {"flash"}) => Has(toServer', {"flash"})
        /\ Has(toServer', {"openSession"}) => Has(toServer, {"openSession"})
    <3>1. CASE toServer' = toServer
      BY <3>1 DEF Has
    <3>2. ASSUME NEW call \in Calls, call.slot # "openSession", Invoke(<<call>>)
          PROVE  <2>1!:
      <4>1. <<call>> \in Seq(Calls) /\ ~Has(<<call>>, {"openSession"})
        BY <3>2, OneHas
      <4> QED BY <3>2, <4>1, InvokeHas
    <3> QED BY <1>2, <3>1, <3>2
  <2>2. Has(workQ', {"flash"}) = Has(workQ, {"flash"})
    BY <1>1
  <2> QED BY <1>1, <1>2, <2>1, <2>2 DEF DeviceInv, NoNullDereference, Made, Running
<1>3. CASE InitializeDevice
  <2>1. /\ state = "Idle" /\ state' = "Initializing" /\ ready' = FALSE
        /\ UNCHANGED <<process, toClient>>
    BY <1>3 DEF InitializeDevice, InitializeDeviceImpl, IsIdle
  <2>2. posted' = <<>> /\ toClient' = <<>>
    BY <1>1, <2>1, IdleIsQuiet DEF NoAnswer
  <2> QED BY <2>1, <2>2 DEF DeviceInv, NoNullDereference, Made, Updating
<1>4. CASE \E image \in Images, checksum \in BOOLEAN : Flash(image, checksum)
  <2>1. PICK image \in Images, checksum \in BOOLEAN : Flash(image, checksum)
    BY <1>4
  <2> DEFINE call == [slot |-> "flash", image |-> image]
  <2>2. /\ ready /\ state' = "Flashing" /\ Invoke(<<call>>)
        /\ UNCHANGED <<process, toClient, ready>>
    BY <2>1 DEF Flash, FlashImpl
  <2>3. call \in Calls /\ call.slot = "flash"
    BY CallTyping
  <2> HIDE DEF call
  <2>4. Running => Has(toServer', {"flash"})
    <3>1. <<call>> \in Seq(Calls) /\ Has(<<call>>, {"flash"})
      BY <2>3, OneHas
    <3> QED BY <2>2, <3>1, InvokeHas
  <2> QED BY <1>2, <2>2, <2>3, <2>4
<1>5. ASSUME NEW slot \in {"cancel", "finish", "closeSession", "checkOnCorrectness"},
             Invoke(<<Call(slot)>>)
      PROVE  \E call \in Calls : call.slot # "openSession" /\ Invoke(<<call>>)
  <2>1. Call(slot) \in Calls /\ Call(slot).slot # "openSession"
    BY CallTyping DEF Call, Slots, SessionSlots, WorkSlots
  <2> QED BY <1>5, <2>1
<1>6. CASE Cancel \/ Finish
  BY <1>2, <1>5, <1>6 DEF Cancel, Finish
<1>7. CASE HandleInitializingFinished
  <2>1. /\ toClient # <<>> /\ toClient' = Tail(toClient) /\ state' = "Idle"
        /\ Head(toClient).signal = "initializingFinished"
        /\ ready' = (Head(toClient).status = "Succeed")
        /\ UNCHANGED <<process, toServer>>
    BY <1>7 DEF HandleInitializingFinished
  <2>2. toClient' = <<>> /\ posted' = <<>> /\ ~Has(toServer, WorkSlots \cup SessionSlots)
    BY <1>1, <2>1, AnswerAlone
  <2>3. ~Has(toServer', {"openSession"})
    BY <2>1, <2>2 DEF Has, SessionSlots
  <2>4. Head(toClient) = [signal |-> Head(toClient).signal, status |-> Head(toClient).status]
    <3>1. Head(toClient) \in Signals
      BY <2>1 DEF TypeOK, IPCTypeOK
    <3> QED BY <3>1 DEF Signals
  <2>5. Running /\ ready' => edgeDevice'
    BY <1>1, <2>1, <2>4 DEF DeviceInv, Made
  <2> QED BY <2>1, <2>2, <2>3, <2>5
          DEF DeviceInv, NoNullDereference, Made, Updating, Running
<1>8. CASE HandleFlashAnswer
  BY <1>2, <1>8, AnswerAlone DEF HandleFlashAnswer
<1>9. CASE RunHandler
  <2>1. UNCHANGED <<process, toClient, ready>> /\ dispatch # <<>>
    BY <1>9 DEF RunHandler
  <2>2. \/ toServer' = toServer
        \/ \E slot \in {"checkOnCorrectness", "closeSession"} : Invoke(<<Call(slot)>>)
    BY <1>9 DEF RunHandler, OnFlashingFinished, OnUpdatingFinished, ReportFlashed
  <2>3. state' \in {state, "Idle"} \/ (state = "Flashing" /\ state' = "ComputingChecksum")
    <3>1. Head(dispatch).handler = "check" => state = "Flashing"
      BY <2>1, DispatchTail DEF OperationInv, DispatchInv
    <3> QED BY <1>9, <3>1 DEF RunHandler, OnFlashingFinished, OnUpdatingFinished
  <2> QED BY <1>2, <1>5, <2>1, <2>2, <2>3 DEF Updating
<1>10. CASE ReplicaLost
  BY <1>2, <1>10 DEF ReplicaLost, channels, Updating
<1> QED BY <1>3, <1>4, <1>6, <1>7, <1>8, <1>9, <1>10
        DEF ClientStep, Application, ClientLoop

\* A device is set when it is flashed, and its file when it is checked.
LEMMA DeviceFound ==
    ASSUME TypeOK, OperationInv, DeviceInv, SessionLoop
    PROVE  ~Segfault
<1>1. CASE BeginFlash
  <2>1. workQ # <<>> /\ Head(workQ).slot = "flash" /\ Running
    BY <1>1 DEF BeginFlash, TakeWork
  <2>2. state = "Flashing"
    BY <2>1 DEF OperationInv, QueueInv, Awaits
  <2>3. edgeDevice
    BY <2>1, <2>2 DEF DeviceInv, Updating
  <2> QED BY <1>1, <2>1, <2>3 DEF BeginFlash, Segfault, ProcessDies, Die, channels, Running
<1>2. CASE ComputeImageCRC
  <2>1. job.op = "crcImage"
    BY <1>2 DEF ComputeImageCRC
  <2>2. state = "ComputingChecksum" /\ workQ = <<>>
    BY <2>1 DEF OperationInv, JobInv, AwaitsJob, QueueInv
  <2>3. ~Has(toServer, {"flash"}) /\ Running
    BY <2>1, WorkAlone DEF Has, WorkSlots
  <2>4. ioDevice
    BY <2>2, <2>3, EmptyHas DEF DeviceInv, Updating
  <2> QED BY <1>2, <2>3, <2>4
          DEF ComputeImageCRC, Segfault, ProcessDies, Die, channels, Running
<1> QED BY <1>1, <1>2
        DEF SessionLoop, BeginInitialize, EndInitialize, FlashBlock, EndFlash, CancelFlash,
            BeginCheck, ComputeDeviceCRC, ComputeCRC, ThreadEnds, Segfault, ProcessDies, Die,
            channels, Running, TakeWork

LEMMA DeviceServer ==
    ASSUME TypeOK, SessionMirror, OperationInv, DeviceInv, ServerStep
    PROVE  DeviceInv'
<1> USE DEF mainVars, sessionVars, channels
<1>1. UNCHANGED <<state, ready>>
  BY DEF ServerStep, clientVars
<1>2. toServer \in Seq(Calls)
  BY DEF TypeOK, IPCTypeOK
<1>3. CASE OpenSession
  <2>1. /\ toServer # <<>> /\ Head(toServer).slot = "openSession" /\ Running
        /\ UNCHANGED <<process, posted, toClient>>
    BY <1>3 DEF OpenSession, TakeCall, MainRuns
  <2>2. Has(toServer, {"openSession"}) /\ Has(toServer, WorkSlots \cup SessionSlots)
    BY <1>2, <2>1, HasTail DEF SessionSlots
  <2>3. posted' = <<>> /\ toClient' = <<>> /\ ~ready
    BY <2>1, <2>2 DEF OperationInv, CallsInv, NoAnswer, DeviceInv
  <2> QED BY <1>1, <2>1, <2>3 DEF DeviceInv, NoNullDereference, Made
<1>4. ASSUME toServer # <<>>, toServer' = Tail(toServer),
             UNCHANGED <<process, posted, toClient, edgeDevice, ioDevice>>,
             \/ Head(toServer).slot # "flash" /\ (Has(workQ, {"flash"}) => Has(workQ', {"flash"}))
             \/ Has(workQ', {"flash"})
      PROVE  DeviceInv'
  <2>1. /\ Has(toServer', {"openSession"}) => Has(toServer, {"openSession"})
        /\ Has(toServer, {"flash"}) /\ Head(toServer).slot # "flash"
             => Has(toServer', {"flash"})
    BY <1>2, <1>4, HasTail
  <2> QED BY <1>1, <1>4, <2>1 DEF DeviceInv, NoNullDereference, Made, Running
<1>5. CASE CloseSession \/ CancelWork
  <2>1. /\ toServer # <<>> /\ Head(toServer).slot # "flash"
        /\ toServer' = Tail(toServer) /\ workQ' = workQ
        /\ UNCHANGED <<process, posted, toClient, edgeDevice, ioDevice>>
    BY <1>5 DEF CloseSession, CancelWork, TakeCall
  <2> QED BY <1>4, <2>1
<1>6. CASE CloseSessionReturns
  <2>1. /\ workQ = <<>> /\ workQ' = <<>>
        /\ UNCHANGED <<process, toServer, posted, toClient, edgeDevice, ioDevice>>
    BY <1>6 DEF CloseSessionReturns, OperationInv, ServerInv, NoWork
  <2> QED BY <1>1, <2>1 DEF DeviceInv, NoNullDereference, Made, Running, Has
<1>7. CASE PerformWork
  <2> DEFINE call == Head(toServer)
             file == IF call.slot = "flash" THEN call.image ELSE firmware
             work == [slot |-> call.slot, image |-> file]
  <2>1. /\ toServer # <<>> /\ toServer' = Tail(toServer)
        /\ UNCHANGED <<process, posted, toClient, edgeDevice, ioDevice>>
    BY <1>7 DEF PerformWork, TakeCall
  <2>2. session /\ workQ = <<>>
    BY <1>7, WorkFindsSession DEF ServerStep, NoWork
  <2>3. workQ' = <<work>>
    BY <1>7, <2>2 DEF PerformWork
  <2>4. work.slot = call.slot
    OBVIOUS
  <2> HIDE DEF work
  <2>5. Has(workQ', {"flash"}) <=> call.slot = "flash"
    BY <2>3, <2>4, OneHas
  <2>6. ~Has(workQ, {"flash"})
    BY <2>2, EmptyHas
  <2> QED BY <1>4, <2>1, <2>5, <2>6
<1>8. ASSUME ProcessDies("exited") PROVE DeviceInv'
  BY <1>1, <1>8 DEF ProcessDies, Die, DeviceInv, NoNullDereference, Running
<1>9. CASE ForwardAnswer
  <2>1. posted # <<>> /\ posted' = <<>> /\ Head(toClient') = Head(posted)
    BY <1>9, ForwardOne
  <2>2. UNCHANGED <<process, toServer, workQ, edgeDevice, ioDevice>>
    BY <1>9 DEF ForwardAnswer
  <2> QED BY <1>1, <2>1, <2>2 DEF DeviceInv, NoNullDereference, Made, Running, Has
<1>10. CASE SessionLoop
  <2>1. ~Segfault
    BY <1>10, DeviceFound
  <2>2. /\ UNCHANGED <<process, toServer, toClient>>
        /\ \/ posted' = posted
           \/ Head(posted') = [signal |-> "initializingFinished", status |-> "Succeed"]
                => edgeDevice'
    BY <1>10, <2>1, SessionAnswers DEF ServerStep
  <2>3. ASSUME workQ # <<>> \/ job.op # "none"
        PROVE  /\ Running /\ posted = <<>> /\ toClient = <<>>
               /\ ~Has(toServer, {"flash"}) /\ ~Has(toServer, {"openSession"})
    BY <2>3, WorkAlone DEF NoAnswer, Has, WorkSlots, SessionSlots
  <2>4. CASE BeginInitialize \/ EndInitialize
    <3>1. state = "Initializing" /\ (workQ # <<>> \/ job.op # "none")
      BY <2>4 DEF BeginInitialize, EndInitialize, TakeWork, OperationInv, QueueInv, Awaits,
                  JobInv, AwaitsJob
    <3>2. ~ready' /\ state' \notin Updating
      BY <1>1, <3>1 DEF DeviceInv, Updating
    <3>3. Made(posted)' /\ Made(toClient)'
      BY <2>2, <2>3, <3>1 DEF Made
    <3> QED BY <2>2, <3>2, <3>3 DEF DeviceInv, NoNullDereference
  <2>5. CASE BeginFlash
    <3>1. /\ ioDevice' /\ UNCHANGED <<posted, edgeDevice>>
      BY <2>1, <2>5 DEF BeginFlash
    <3> QED BY <1>1, <2>2, <3>1 DEF DeviceInv, NoNullDereference, Made, Running
  <2>6. CASE BeginCheck
    <3>1. /\ workQ # <<>> /\ Head(workQ).slot = "checkOnCorrectness"
          /\ UNCHANGED <<edgeDevice, ioDevice>>
      BY <2>6 DEF BeginCheck, TakeWork
    <3>2. ~Has(workQ, {"flash"})
      <4>1. workQ \in Seq(Calls) /\ Len(workQ) = 1
        BY <3>1 DEF TypeOK, ServerTypeOK, OperationInv, QueueInv
      <4>2. \A i \in DOMAIN workQ : workQ[i] = Head(workQ)
        BY <4>1
      <4> QED BY <3>1, <4>2 DEF Has
    <3>3. Made(posted)' /\ Made(toClient)'
      BY <2>2, <2>3, <3>1 DEF Made
    <3> QED BY <1>1, <2>2, <2>3, <3>1, <3>2, <3>3
            DEF DeviceInv, NoNullDereference, Running
  <2>7. CASE FlashBlock \/ EndFlash \/ CancelFlash \/ ComputeImageCRC \/ ComputeDeviceCRC
    <3>1. job.op # "none" /\ UNCHANGED <<workQ, edgeDevice, ioDevice>>
      BY <2>1, <2>7
         DEF FlashBlock, EndFlash, CancelFlash, ComputeImageCRC, ComputeDeviceCRC
    <3>2. Made(posted)' /\ Made(toClient)'
      BY <2>2, <2>3, <3>1 DEF Made
    <3> QED BY <1>1, <2>2, <3>1, <3>2 DEF DeviceInv, NoNullDereference, Running, Has
  <2>8. CASE ThreadEnds
    <3>1. UNCHANGED <<posted, workQ, edgeDevice, ioDevice>>
      BY <2>8 DEF ThreadEnds
    <3> QED BY <1>1, <2>2, <3>1 DEF DeviceInv, NoNullDereference, Made, Running, Has
  <2> QED BY <1>10, <2>4, <2>5, <2>6, <2>7, <2>8 DEF SessionLoop
<1> QED BY <1>3, <1>5, <1>6, <1>7, <1>8, <1>9, <1>10
        DEF ServerStep, MainLoop, HeartbeatTimeout, FinishProcess

\* The session dereferences the device and its file without looking: for an
\* application that flashes only a device whose initialization succeeded both
\* are set whenever they are used, and the updater does not crash.
THEOREM NothingNullIsUsed ==
    ASSUME ~Reentrant, Disciplined
    PROVE  Spec => []NoNullDereference
<1>1. Init => DeviceInv
  BY DEF Init, IPCInit, ClientInit, ServerInit, DeviceInv, NoNullDereference, Made, Updating
<1>2. TypeOK /\ SessionMirror /\ OperationInv /\ DeviceInv /\ [Next]_vars => DeviceInv'
  <2>1. DeviceInv /\ UNCHANGED vars => DeviceInv'
    BY DEF vars, channels, clientVars, serverVars, mainVars, sessionVars, DeviceInv,
           NoNullDereference, Made, Running, Has
  <2> QED BY <2>1, DeviceClient, DeviceServer DEF Next
<1>3. DeviceInv => NoNullDereference
  BY DEF DeviceInv
<1> QED BY <1>1, <1>2, <1>3, TypeCorrect, SessionMirrored, OperationIsOne, PTL DEF Spec

-----------------------------------------------------------------------------
(* That nothing is lost on the way *)

\* The client does nothing to an operation but hand it on.
LEMMA LostClient ==
    ASSUME ~Reentrant, TypeOK, TypeOK', OperationInv, LostInv, ClientStep
    PROVE  LostInv'
<1>1. UNCHANGED <<session, closing, thread, workQ, job, posted>>
  BY DEF ClientStep, serverVars, mainVars
<1>2. toServer \in Seq(Calls) /\ handlers \in [FlashAnswers -> Seq(HandlerKinds)]
  BY DEF TypeOK, IPCTypeOK, ClientTypeOK
<1>3. WorkNotLost' <=>
        (Running' /\ state' \in Busy /\ ~CancelLost' =>
           \/ Has(toServer', WorkSlots) \/ (workQ # <<>> /\ thread = "running")
           \/ job.op # "none" \/ posted # <<>> \/ toClient' # <<>> \/ dispatch' # <<>>)
  BY <1>1 DEF WorkNotLost, Has
<1>4. ASSUME NEW call \in Calls, call.slot \in WorkSlots, Invoke(<<call>>), process' = process,
             state' = "Flashing" /\ request'.checksum
               => handlers'["checkOnCorrectnessFinished"] # <<>>,
             state' = "ComputingChecksum" => handlers'["checkOnCorrectnessFinished"] # <<>>
      PROVE  LostInv'
  <2>1. Running => Has(toServer', WorkSlots)
    <3>1. <<call>> \in Seq(Calls) /\ Has(<<call>>, WorkSlots)
      BY <1>4, OneHas
    <3> QED BY <1>4, <3>1, InvokeHas
  <2> QED BY <1>1, <1>3, <1>4, <2>1 DEF LostInv, Running
<1>5. CASE InitializeDevice
  <2> DEFINE close == Call("closeSession")
             open == Call("openSession")
             init == Call("initializeEdgeDevice")
             more == <<close, open, init>>
  <2>1. Invoke(more) /\ process' = process /\ state' = "Initializing"
    BY <1>5 DEF InitializeDevice, InitializeDeviceImpl
  <2>2. /\ more \in Seq(Calls) /\ 3 \in DOMAIN more /\ more[3] = init
        /\ init.slot \in WorkSlots
    BY CallTyping DEF Call, Slots, SessionSlots, WorkSlots
  <2> HIDE DEF more, init
  <2>3. Has(more, WorkSlots)
    BY <2>2 DEF Has
  <2>4. Running => Has(toServer', WorkSlots)
    BY <2>1, <2>2, <2>3, InvokeHas
  <2> QED BY <1>1, <1>3, <2>1, <2>4 DEF LostInv, Running
<1>6. CASE \E image \in Images, checksum \in BOOLEAN : Flash(image, checksum)
  <2>1. PICK image \in Images, checksum \in BOOLEAN : Flash(image, checksum)
    BY <1>6
  <2> DEFINE call == [slot |-> "flash", image |-> image]
  <2>2. /\ Invoke(<<call>>) /\ UNCHANGED process /\ state' = "Flashing"
        /\ request'.checksum = checksum /\ ConnectHandlers(checksum)
    BY <2>1 DEF Flash, FlashImpl
  <2>3. call \in Calls /\ call.slot \in WorkSlots
    BY CallTyping DEF WorkSlots
  <2> HIDE DEF call
  <2>4. checksum => handlers'["checkOnCorrectnessFinished"] # <<>>
    <3>1. checksum => handlers'["checkOnCorrectnessFinished"]
                        = Append(handlers["checkOnCorrectnessFinished"], "finish")
      BY <1>2, <2>2 DEF ConnectHandlers, FlashAnswers
    <3>2. Append(handlers["checkOnCorrectnessFinished"], "finish") # <<>>
      BY <1>2 DEF FlashAnswers, HandlerKinds
    <3> QED BY <3>1, <3>2
  <2> QED BY <1>4, <2>2, <2>3, <2>4
<1>7. CASE Cancel \/ Finish
  <2>1. PICK slot \in {"cancel", "finish"} : Invoke(<<Call(slot)>>)
    BY <1>7 DEF Cancel, Finish
  <2>2. UNCHANGED <<process, toClient, state, request, handlers, dispatch>>
    BY <1>7 DEF Cancel, Finish
  <2>3. <<Call(slot)>> \in Seq(Calls)
    BY CallTyping DEF Slots
  <2>4. Running /\ Has(toServer, WorkSlots) => Has(toServer', WorkSlots)
    BY <2>1, <2>3, InvokeHas
  <2>5. CancelLost' = CancelLost
    BY <2>2 DEF CancelLost
  <2> QED BY <1>1, <1>3, <2>2, <2>4, <2>5 DEF LostInv, WorkNotLost, Running, Has
<1>8. CASE HandleInitializingFinished
  BY <1>1, <1>3, <1>8 DEF HandleInitializingFinished, LostInv, Busy, Updating
<1>9. CASE HandleFlashAnswer
  <2> DEFINE answer == Head(toClient)
             connected == handlers[answer.signal]
  <2>1. /\ toClient # <<>> /\ dispatch = <<>>
        /\ handlers' = [handlers EXCEPT ![answer.signal] = <<>>]
        /\ UNCHANGED <<state, request>>
    BY <1>9 DEF HandleFlashAnswer
  <2>2. /\ AwaitsAnswer(answer.signal)
    BY <2>1, AnswerAlone
  <2>3. answer.signal \in FlashAnswers /\ Len(dispatch') = Len(connected)
        /\ connected \in Seq(HandlerKinds)
    BY <1>9, DispatchShape
  <2>4. connected # <<>> => dispatch' # <<>>
    <3>1. dispatch' \in Seq([handler : HandlerKinds, status : Statuses])
      BY DEF TypeOK, ClientTypeOK
    <3>2. connected # <<>> => Len(connected) # 0
      BY <2>3, EmptySeq
    <3>3. dispatch' = <<>> => Len(dispatch') = 0
      BY <3>1
    <3> QED BY <2>3, <3>2, <3>3
  <2> HIDE DEF answer
  <2>5. CASE answer.signal = "flashingFinished"
    <3>1. state = "Flashing" /\ state' = "Flashing"
      BY <2>1, <2>2, <2>5 DEF AwaitsAnswer
    <3>2. /\ handlers'["flashingFinished"] = <<>>
          /\ handlers'["checkOnCorrectnessFinished"] = handlers["checkOnCorrectnessFinished"]
      BY <1>2, <2>1, <2>5 DEF FlashAnswers
    <3>3. dispatch' = <<>> => CancelLost'
      BY <3>1, <3>2 DEF CancelLost
    <3> QED BY <1>1, <1>3, <2>1, <3>1, <3>2, <3>3 DEF LostInv
  <2>6. CASE answer.signal = "checkOnCorrectnessFinished"
    <3>1. state = "ComputingChecksum" /\ state' = "ComputingChecksum"
      BY <2>1, <2>2, <2>6 DEF AwaitsAnswer
    <3>2. dispatch' # <<>>
      BY <2>1, <2>4, <2>6, <3>1 DEF LostInv
    <3> QED BY <1>1, <1>3, <2>1, <3>1, <3>2 DEF LostInv
  <2> QED BY <2>3, <2>5, <2>6 DEF FlashAnswers
<1>10. CASE RunHandler
  <2> DEFINE status == Head(dispatch).status
  <2>1. dispatch # <<>> /\ dispatch' = Tail(dispatch)
        /\ UNCHANGED <<process, handlers, request>>
    BY <1>10 DEF RunHandler
  <2>2. CASE state' = "Idle"
    BY <1>1, <1>3, <2>2 DEF LostInv, Busy, Updating
  <2>3. CASE Head(dispatch).handler = "check" /\ OnFlashingFinished(status)
    <3>1. /\ state = "Flashing" /\ dispatch' = <<>> /\ request.checksum
          /\ handlers'["flashingFinished"] = <<>>
      BY <2>1, <2>3, DispatchTail
         DEF OperationInv, DispatchInv, HandlersInv, FlashHandler
    <3>2. handlers'["checkOnCorrectnessFinished"] # <<>>
      BY <2>1, <3>1 DEF LostInv
    <3>3. CASE Invoke(<<Call("checkOnCorrectness")>>)
      <4>1. Call("checkOnCorrectness") \in Calls /\ Call("checkOnCorrectness").slot \in WorkSlots
        BY CallTyping DEF Call, Slots, WorkSlots
      <4> QED BY <1>4, <2>1, <3>2, <3>3, <4>1
    <3>4. CASE state' = state
      <4>1. CancelLost'
        BY <3>1, <3>4 DEF CancelLost
      <4> QED BY <1>1, <1>3, <3>1, <3>2, <3>4, <4>1 DEF LostInv
    <3> QED BY <2>2, <2>3, <3>3, <3>4 DEF OnFlashingFinished
  <2> QED BY <1>10, <2>2, <2>3 DEF RunHandler, OnUpdatingFinished
<1>11. CASE ReplicaLost
  BY <1>1, <1>3, <1>11 DEF ReplicaLost, LostInv, Busy, Updating
<1> QED BY <1>5, <1>6, <1>7, <1>8, <1>9, <1>10, <1>11
        DEF ClientStep, Application, ClientLoop

LEMMA LostServer ==
    ASSUME TypeOK, SessionMirror, OperationInv, LostInv, ServerStep
    PROVE  LostInv'
<1> USE DEF mainVars, sessionVars, channels
<1>1. UNCHANGED <<state, request, handlers, dispatch>>
  BY DEF ServerStep, clientVars
<1>2. /\ CancelLost' = CancelLost /\ toServer \in Seq(Calls) /\ workQ \in Seq(Calls)
      /\ session \in BOOLEAN /\ closing \in BOOLEAN
  BY <1>1 DEF CancelLost, TypeOK, IPCTypeOK, ServerTypeOK
<1>3. WorkNotLost <=>
        (Running /\ state \in Busy /\ ~CancelLost =>
           \/ Has(toServer, WorkSlots) \/ (workQ # <<>> /\ thread = "running")
           \/ job.op # "none" \/ posted # <<>> \/ toClient # <<>> \/ dispatch # <<>>)
  BY DEF WorkNotLost, Has
<1>4. WorkNotLost' <=>
        (Running' /\ state \in Busy /\ ~CancelLost =>
           \/ Has(toServer', WorkSlots) \/ (workQ' # <<>> /\ thread' = "running")
           \/ job'.op # "none" \/ posted' # <<>> \/ toClient' # <<>> \/ dispatch # <<>>)
  BY <1>1, <1>2 DEF WorkNotLost, Has
<1>5. ASSUME toServer # <<>>, toServer' = Tail(toServer), Head(toServer).slot \notin WorkSlots,
             UNCHANGED <<process, workQ, job, posted, toClient>>,
             (session /\ ~closing)' => thread' = "running",
             session' \/ workQ = <<>>,
             workQ # <<>> => thread' = thread
      PROVE  LostInv'
  <2>1. Has(toServer, WorkSlots) => Has(toServer', WorkSlots)
    BY <1>2, <1>5, HasTail
  <2> QED BY <1>1, <1>3, <1>4, <1>5, <2>1 DEF LostInv, Running
<1>6. ASSUME workQ # <<>> \/ Has(toServer, {"closeSession"})
      PROVE  /\ workQ = <<>> \/ ~Has(toServer, {"closeSession"})
             /\ ~closing \/ workQ = <<>>
  BY <1>6 DEF OperationInv, CallsInv, Has, SessionSlots, NoWork, ServerInv
<1>7. CASE OpenSession
  <2>1. /\ toServer # <<>> /\ Head(toServer).slot = "openSession" /\ toServer' = Tail(toServer)
        /\ UNCHANGED <<process, workQ, job, posted, toClient, closing>>
        /\ session' /\ (session \/ thread' = "running") /\ (session => thread' = thread)
    BY <1>7, <1>2 DEF OpenSession, TakeCall
  <2>2. Head(toServer).slot \notin WorkSlots
    BY <2>1 DEF WorkSlots
  <2> QED BY <1>5, <2>1, <2>2 DEF LostInv
<1>8. CASE CloseSession
  <2>1. /\ toServer # <<>> /\ Head(toServer).slot = "closeSession" /\ toServer' = Tail(toServer)
        /\ UNCHANGED <<process, workQ, job, posted, toClient, session>>
        /\ (session => closing') /\ (~session => thread' = thread)
    BY <1>8 DEF CloseSession, TakeCall
  <2>2. Head(toServer).slot \notin WorkSlots
    BY <2>1 DEF WorkSlots
  <2>3. workQ = <<>>
    <3>1. Has(toServer, {"closeSession"})
      BY <1>2, <2>1, HasTail
    <3> QED BY <1>6, <3>1
  <2> QED BY <1>5, <2>1, <2>2, <2>3
<1>9. CASE CloseSessionReturns
  <2>1. /\ workQ = <<>> /\ workQ' = <<>> /\ ~session'
        /\ UNCHANGED <<process, toServer, job, posted, toClient>>
    BY <1>9 DEF CloseSessionReturns, OperationInv, ServerInv, NoWork
  <2> QED BY <1>1, <1>3, <1>4, <2>1 DEF LostInv, Running
<1>10. CASE PerformWork
  <2>1. session /\ ~closing /\ workQ = <<>>
        /\ UNCHANGED <<session, closing, thread>>
    BY <1>10, WorkFindsSession DEF ServerStep, NoWork, PerformWork, TakeCall, MainRuns
  <2> DEFINE call == Head(toServer)
             file == IF call.slot = "flash" THEN call.image ELSE firmware
             work == [slot |-> call.slot, image |-> file]
  <2>2. workQ' = Append(workQ, work)
    BY <1>10, <2>1 DEF PerformWork
  <2> HIDE DEF work
  <2>3. workQ' # <<>>
    BY <2>1, <2>2
  <2> QED BY <1>1, <1>4, <2>1, <2>3 DEF LostInv
<1>11. CASE CancelWork
  <2>1. /\ toServer # <<>> /\ Head(toServer).slot = "cancel" /\ toServer' = Tail(toServer)
        /\ UNCHANGED <<process, workQ, job, posted, toClient, session, closing, thread>>
    BY <1>11 DEF CancelWork, TakeCall
  <2>2. Head(toServer).slot \notin WorkSlots
    BY <2>1 DEF WorkSlots
  <2> QED BY <1>5, <2>1, <2>2 DEF LostInv
<1>12. ASSUME NEW how \in {"exited", "crashed"}, ProcessDies(how) PROVE LostInv'
  <2>1. ~Running' /\ ~session' /\ workQ' = <<>>
    BY <1>12 DEF ProcessDies, Die, Running
  <2> QED BY <1>1, <1>4, <2>1 DEF LostInv
<1>13. CASE ForwardAnswer
  <2>1. toClient' # <<>>
    BY <1>13, ForwardOne
  <2>2. UNCHANGED <<session, closing, thread, workQ>>
    BY <1>13 DEF ForwardAnswer
  <2> QED BY <1>1, <1>4, <2>1, <2>2 DEF LostInv
<1>14. CASE SessionLoop /\ ~Segfault
  <2>1. UNCHANGED <<process, toServer, toClient, session, closing>>
    BY <1>14
       DEF SessionLoop, BeginInitialize, EndInitialize, BeginFlash, FlashBlock, EndFlash,
           CancelFlash, BeginCheck, ComputeImageCRC, ComputeDeviceCRC, ThreadEnds
  <2>2. ASSUME thread' = thread, session, posted' # <<>> \/ job'.op # "none"
        PROVE  LostInv'
    BY <1>1, <1>4, <2>1, <2>2 DEF LostInv
  <2>3. ASSUME NEW signal, NEW status, Answer(signal, status) PROVE posted' # <<>>
    <3>1. posted \in Seq(Signals)
      BY DEF TypeOK, ServerTypeOK
    <3> QED BY <2>3, <3>1, AppendProperties DEF Answer
  <2>4. CASE ThreadEnds
    <3>1. /\ thread = "quitting" /\ UNCHANGED <<workQ, job, posted>>
      BY <2>4 DEF ThreadEnds
    <3> QED BY <1>1, <1>3, <1>4, <2>1, <3>1 DEF LostInv, Running
  <2>5. CASE BeginInitialize \/ BeginFlash \/ BeginCheck
    <3>1. thread' = thread /\ session
      BY <1>14, <2>5
         DEF BeginInitialize, BeginFlash, BeginCheck, TakeWork, LostInv
    <3>2. posted' # <<>> \/ job'.op # "none"
      BY <1>14, <2>3, <2>5 DEF BeginInitialize, BeginFlash, BeginCheck, NoJob
    <3> QED BY <2>2, <3>1, <3>2
  <2>6. CASE EndInitialize \/ FlashBlock \/ EndFlash \/ CancelFlash \/ ComputeImageCRC
               \/ ComputeDeviceCRC
    <3>1. thread' = thread /\ workQ' = workQ /\ job.op # "none"
      BY <1>14, <2>6
         DEF EndInitialize, FlashBlock, EndFlash, CancelFlash, ComputeImageCRC,
             ComputeDeviceCRC
    <3>2. posted' # <<>> \/ job'.op # "none"
      <4>1. job \in [op : Jobs, image : Content, pos : Nat, open : BOOLEAN]
        BY DEF TypeOK, ServerTypeOK
      <4> QED BY <1>14, <2>3, <2>6, <3>1, <4>1
              DEF EndInitialize, NotPlugged, Initialized, FlashBlock, Advance, EndFlash,
                  CancelFlash, ComputeImageCRC, ComputeDeviceCRC, ComputeCRC
    <3> QED BY <1>1, <1>4, <2>1, <3>1, <3>2 DEF LostInv
  <2> QED BY <1>14, <2>4, <2>5, <2>6 DEF SessionLoop
<1> QED BY <1>7, <1>8, <1>9, <1>10, <1>11, <1>12, <1>13, <1>14
        DEF ServerStep, MainLoop, HeartbeatTimeout, FinishProcess, Segfault

\* While the updater runs an operation is somewhere on its way, and who has to
\* hand it on can: it is not dropped for want of a session, left to a thread that
\* ends, or answered to nobody, but for a flash whose cancel was swallowed.  That
\* the way is gone to its end is then up to the event loops.
THEOREM NothingIsLost ==
    ASSUME ~Reentrant
    PROVE  Spec => []WorkNotLost
<1>1. Init => LostInv
  BY DEF Init, IPCInit, ClientInit, ServerInit, LostInv, WorkNotLost, Busy, Updating
<1>2. TypeOK /\ TypeOK' /\ SessionMirror /\ OperationInv /\ LostInv /\ [Next]_vars => LostInv'
  <2>1. LostInv /\ UNCHANGED vars => LostInv'
    BY DEF vars, channels, clientVars, serverVars, mainVars, LostInv, WorkNotLost, CancelLost,
           Running
  <2> QED BY <2>1, LostClient, LostServer DEF Next
<1>3. LostInv => WorkNotLost
  BY DEF LostInv
<1> QED BY <1>1, <1>2, <1>3, TypeCorrect, SessionMirrored, OperationIsOne, PTL DEF Spec

-----------------------------------------------------------------------------
(* The promise to the application *)

\* Nothing of what the application sees changes.
LEMMA ServiceStutters ==
    ASSUME UNCHANGED <<state, request, outcome, dev>>
    PROVE  UNCHANGED Service!vars
BY DEF Service!vars, Phase, Holds

LEMMA ServiceInit == Init => Service!Init
<1> SUFFICES ASSUME Init PROVE Service!Init
  OBVIOUS
<1>1. /\ state = "Idle" /\ outcome = "none"
      /\ request = [image |-> NoImage, checksum |-> FALSE]
  BY DEF Init, ClientInit
<1> QED BY <1>1 DEF Service!Init, Phase, Updating

\* The updater writes the file it was asked for, and only while it flashes: a file
\* that the device holds after a block was written it held before, or is that one.
LEMMA ServiceWrite ==
    ASSUME TypeOK, OperationInv, VerifiedInv, [Next]_vars, dev' # dev
    PROVE  Service!Write
<1>1. /\ FlashBlock /\ UNCHANGED clientVars /\ state = "Flashing"
      /\ job.image = request.image
  BY OnlyFlashWrites
<1>2. PICK block \in Blocks, c \in {request.image, NoImage} : dev' = [dev EXCEPT ![block] = c]
  <2>1. PICK block \in Blocks, c \in {job.image, NoImage} : dev' = [dev EXCEPT ![block] = c]
    BY <1>1 DEF FlashBlock
  <2> QED BY <1>1, <2>1
<1>3. ASSUME NEW i \in Images, i # request.image, Holds(i)'
      PROVE  Holds(i)
  <2>1. i # NoImage
    BY NoImageAssumption
  <2>2. Size[i] <= DeviceBlocks /\ \A b \in 1..Size[i] : dev'[b] = i
    BY <1>3 DEF Holds
  <2>3. ASSUME NEW b \in 1..Size[i] PROVE dev[b] = i
    <3>1. b \in Blocks /\ dev \in [Blocks -> Content]
      BY <2>2, DeviceAssumption DEF Blocks, TypeOK, ServerTypeOK
    <3>2. dev'[b] = i
      BY <2>2
    <3> QED BY <1>2, <1>3, <2>1, <3>1, <3>2
  <2> QED BY <2>2, <2>3 DEF Holds
<1>4. {i \in Images : Holds(i)'} \subseteq {i \in Images : Holds(i)} \cup {request.image}
  BY <1>3
<1> QED BY <1>1, <1>4 DEF Service!Write, Phase, Updating, clientVars

LEMMA ServiceHandler ==
    ASSUME TypeOK, OperationInv, VerifiedInv, RunHandler, UNCHANGED serverVars
    PROVE  [Service!Next]_(Service!vars)
<1> DEFINE status == Head(dispatch).status
<1>1. dispatch # <<>> /\ UNCHANGED <<request, dev>>
  BY DEF RunHandler, serverVars
<1>2. {i \in Images : Holds(i)'} = {i \in Images : Holds(i)}
  BY <1>1 DEF Holds
<1>3. /\ state \in {"Flashing", "ComputingChecksum", "Idle"}
      /\ state = "Flashing" => Head(dispatch).handler = FlashHandler
      /\ state # "Flashing" => Head(dispatch).handler = "finish"
  BY <1>1, DispatchTail DEF OperationInv, DispatchInv
<1>4. ASSUME NEW result \in {"none", "true", "false"}, state \in Updating, state' = "Idle",
             outcome' = result, result = "true" /\ request.checksum => Holds(request.image)
      PROVE  Service!Next
  <2>1. request.image \in Images
    BY <1>4 DEF VerifiedInv
  <2>2. Service!Conclude(result)
    BY <1>1, <1>2, <1>4, <2>1 DEF Service!Conclude, Phase, Updating
  <2> QED BY <2>2 DEF Service!Next
<1>5. CASE Head(dispatch).handler = "check" /\ OnFlashingFinished(status)
  <2>1. state = "Flashing" /\ outcome = "none"
    BY <1>3, <1>5 DEF VerifiedInv, Updating
  <2>2. CASE state' = "Idle" /\ outcome' = "false"
    BY <1>4, <2>1, <2>2 DEF Updating
  <2>3. CASE state' \in Updating /\ outcome' = outcome
    BY <1>1, <1>2, <2>1, <2>3 DEF Service!vars, Phase, Updating
  <2> QED BY <1>5, <2>1, <2>2, <2>3 DEF OnFlashingFinished, ReportFlashed, Updating
<1>6. CASE Head(dispatch).handler = "finish" /\ OnUpdatingFinished(status)
  <2>1. /\ state' = "Idle"
        /\ status = "Succeed" => outcome' = "true"
        /\ status = "Failed" => outcome' = "false"
        /\ status = "Cancelled" => outcome' = outcome
        /\ status \in {"Succeed", "Failed", "Cancelled"}
    BY <1>6 DEF OnUpdatingFinished, ReportFlashed
  <2>2. CASE state = "Idle"
    <3>1. outcome' = outcome
      BY <1>1, <2>1, <2>2 DEF VerifiedInv
    <3> QED BY <1>1, <2>1, <2>2, <3>1, ServiceStutters
  <2>3. CASE state \in Updating
    <3>1. outcome = "none"
      BY <2>3 DEF VerifiedInv
    <3>2. outcome' \in {"none", "true", "false"} /\ (outcome' = "true" => status = "Succeed")
      BY <2>1, <3>1
    <3>3. outcome' = "true" /\ request.checksum => Holds(request.image)
      BY <1>1, <1>3, <1>6, <3>2 DEF VerifiedInv, FlashHandler
    <3> QED BY <1>4, <2>1, <2>3, <3>2, <3>3
  <2> QED BY <1>3, <2>2, <2>3 DEF Updating
<1> QED BY <1>5, <1>6 DEF RunHandler

LEMMA ServiceStep ==
    ASSUME ~Reentrant, TypeOK, OperationInv, VerifiedInv, [Next]_vars
    PROVE  [Service!Next]_(Service!vars)
<1>1. CASE dev' # dev
  BY <1>1, ServiceWrite DEF Service!Next
<1>2. CASE dev' = dev /\ UNCHANGED clientVars
  BY <1>2, ServiceStutters DEF clientVars
<1>3. CASE dev' = dev /\ ClientStep
  <2>1. {i \in Images : Holds(i)'} = {i \in Images : Holds(i)}
    BY <1>3 DEF Holds
  <2>2. CASE InitializeDevice
    <3>1. state = "Idle" /\ state' = "Initializing" /\ UNCHANGED <<request, outcome>>
      BY <2>2 DEF InitializeDevice, InitializeDeviceImpl, IsIdle
    <3>2. Service!Initialize
      BY <2>1, <3>1 DEF Service!Initialize, Phase, Updating
    <3> QED BY <3>2 DEF Service!Next
  <2>3. CASE \E image \in Images, checksum \in BOOLEAN : Flash(image, checksum)
    <3>1. PICK image \in Images, checksum \in BOOLEAN : Flash(image, checksum)
      BY <2>3
    <3>2. /\ state = "Idle" /\ state' = "Flashing" /\ outcome' = "none"
          /\ request' = [image |-> image, checksum |-> checksum]
      BY <3>1 DEF Flash, FlashImpl, IsIdle
    <3>3. Service!Request(image, checksum)
      BY <2>1, <3>2 DEF Service!Request, Phase, Updating
    <3> QED BY <3>3 DEF Service!Next
  <2>4. CASE Cancel \/ Finish \/ HandleFlashAnswer
    BY <1>3, <2>4, ServiceStutters DEF Cancel, Finish, HandleFlashAnswer
  <2>5. CASE HandleInitializingFinished
    <3>1. /\ toClient # <<>> /\ Head(toClient).signal = "initializingFinished"
          /\ state' = "Idle" /\ UNCHANGED <<request, outcome>>
      BY <2>5 DEF HandleInitializingFinished
    <3>2. state = "Initializing"
      BY <3>1, AnswerAlone DEF AwaitsAnswer
    <3>3. Service!Initialized
      BY <2>1, <3>1, <3>2 DEF Service!Initialized, Phase, Updating
    <3> QED BY <3>3 DEF Service!Next
  <2>6. CASE RunHandler
    BY <1>3, <2>6, ServiceHandler DEF ClientStep
  <2>7. CASE ReplicaLost
    <3>1. state # "Invalid" /\ state' = "Invalid" /\ UNCHANGED <<request, outcome>>
      BY <2>7 DEF ReplicaLost, IsValid
    <3>2. state \in Busy \cup {"Idle", "Invalid"}
      BY DEF TypeOK, ClientTypeOK
    <3>3. Service!Lose
      BY <2>1, <3>1, <3>2 DEF Service!Lose, Phase, Updating, Busy
    <3> QED BY <3>3 DEF Service!Next
  <2> QED BY <1>3, <2>2, <2>3, <2>4, <2>5, <2>6, <2>7
          DEF ClientStep, Application, ClientLoop
<1> QED BY <1>1, <1>2, <1>3 DEF Next, ServerStep, vars

\* The client library and the updater process, with all that goes on between
\* and within them, keep the promise of UpdateService to an application that
\* does not call from inside handlers: one operation at a time, a device that
\* is written only while a flash runs and only with its file, and a success
\* that was verified or was not asked to be.
THEOREM ServiceImplemented ==
    ASSUME ~Reentrant
    PROVE  Spec => ServiceSpec
<1>1. Init => Service!Init
  BY ServiceInit
<1>2. TypeOK /\ OperationInv /\ VerifiedInv /\ [Next]_vars => [Service!Next]_(Service!vars)
  BY ServiceStep
<1> QED BY <1>1, <1>2, TypeCorrect, OperationIsOne, VerifiedAlways, PTL
        DEF Spec, ServiceSpec, Service!Spec
=============================================================================
