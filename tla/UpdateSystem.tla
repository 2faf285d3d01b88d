---------------------------- MODULE UpdateSystem ----------------------------
(***************************************************************************)
(* The client library and the updater process together, joined by the      *)
(* remote object.                                                          *)
(***************************************************************************)
EXTENDS UpdaterClient, UpdaterServer

vars == <<channels, clientVars, serverVars>>

Init == IPCInit /\ ClientInit /\ ServerInit

ClientStep == (Application \/ ClientLoop) /\ UNCHANGED serverVars
ServerStep == (MainLoop \/ SessionLoop \/ HeartbeatTimeout) /\ UNCHANGED clientVars

Next == ClientStep \/ ServerStep

\* The two event loops and the session thread keep running: what is queued
\* is handled, and a slot of the session returns.  The application calls
\* nothing it does not want to, and a heartbeat need never be missed.
Fairness ==
    /\ WF_vars(ClientLoop /\ UNCHANGED serverVars)
    /\ WF_vars(MainLoop /\ UNCHANGED clientVars)
    /\ WF_vars(SessionLoop /\ UNCHANGED clientVars)

Spec     == Init /\ [][Next]_vars
FairSpec == Spec /\ Fairness

TypeOK == IPCTypeOK /\ ClientTypeOK /\ ServerTypeOK

-----------------------------------------------------------------------------
\* Safety

\* The last open or close of a queue of calls.
LastSessionCall(queue, i) ==
    /\ i \in DOMAIN queue
    /\ queue[i].slot \in SessionSlots
    /\ \A j \in DOMAIN queue : j > i => queue[j].slot \notin SessionSlots

\* Running the calls of queue where there is a session or not makes what is
\* opened.
LeadsTo(queue, exists, opened) ==
    /\ \A i \in DOMAIN queue :
         LastSessionCall(queue, i) => opened = (queue[i].slot = "openSession")
    /\ (\A i \in DOMAIN queue : queue[i].slot \notin SessionSlots)
         => opened = exists

\* The client keeps its own copy of whether the updater has a session
\* (UpdaterImpl::_sessionOpened) and never asks.  The two agree once the slots
\* on their way are run: the last open or close on its way is the one the
\* client remembers, and with none on its way the updater has a session that
\* it is not closing exactly when the client believes so.
SessionMirror ==
    Running => LeadsTo(toServer, session /\ ~closing, sessionOpened)

\* When the client says Idle, which is when it lets the application start
\* another operation, nothing of the previous one is left anywhere: no slot on
\* its way or queued, no job, no answer that would be taken for the answer to
\* the next operation.
IdleMeansQuiet ==
    (state = "Idle" /\ dispatch = <<>>) =>
      /\ \A i \in DOMAIN toServer : toServer[i].slot \notin WorkSlots
      /\ workQ = <<>>
      /\ job.op = "none"
      /\ posted = <<>>
      /\ toClient = <<>>

\* What the session thread does is what the client is waiting for, for the
\* image it asked for: the file name the updater remembers from the flash is
\* still the right one when it is checked.
JobServesRequest ==
    /\ job.op = "initializeEdgeDevice" => state = "Initializing"
    /\ job.op = "flash" =>
         state = "Flashing" /\ job.image = request.image
    /\ job.op \in {"crcImage", "crcDevice"} =>
         state = "ComputingChecksum" /\ job.image = request.image

\* onFlashingFinished has been given Cancelled, for which it does nothing.
CancelLost == state = "Flashing" /\ handlers["flashingFinished"] = <<>>
                 /\ dispatch = <<>>

\* An operation the client waits for is never lost on its way through the
\* updater, but for a flash whose cancel was swallowed: no step drops the slot, runs
\* it where there is no session, leaves it to a thread that quits, or answers a
\* client that listens no more.
WorkNotLost ==
    (Running /\ state \in Busy /\ ~CancelLost) =>
      \/ \E i \in DOMAIN toServer : toServer[i].slot \in WorkSlots
      \/ workQ # <<>> /\ thread = "running"
      \/ job.op # "none"
      \/ posted # <<>>
      \/ toClient # <<>>
      \/ dispatch # <<>>

\* closeSession blocks the main thread, and with it heartbeats and cancel, for
\* as long as the session thread works: it is never called while it does.
CloseNeverWaitsOnJob ==
    closing => job.op = "none" /\ workQ = <<>>

\* The session dereferences edgeDevice and edgeIODevice unchecked: the client
\* asks for a flash or a check only when they are set.
NoNullDereference == process # "crashed"

\* deviceFlashed(true) after a flash with the checksum: the device holds the
\* whole image that was asked for.
VerifiedMeansWritten ==
    (outcome = "true" /\ request.checksum) => Holds(request.image)

\* The cancellation flag is never cleared; it dies with its session, so a
\* cancel cannot end an operation of a session opened after it.
CancelConfined ==
    \A s \in {posted, toClient} : \A i \in DOMAIN s :
        s[i].status = "Cancelled" => cancelAsked

\* Between a report of success and the next request the device is left alone.
ReportedDeviceUntouched ==
    [][outcome = "true" /\ outcome' = "true" => dev' = dev]_vars

Phase ==
    IF state \in Updating THEN "Updating"
    ELSE IF state = "Invalid" THEN "Lost" ELSE state

\* The promise to the application, as a specification of its own.
Service == INSTANCE UpdateService
    WITH phase <- Phase, held <- {i \in Images : Holds(i)}

ServiceSpec == Service!Spec

-----------------------------------------------------------------------------
\* Liveness

\* Every operation ends, with the updater idle again or known to be gone,
\* except a flash with the checksum that is cancelled while it writes.
OperationsEnd == (state \in Busy) ~> (state \in {"Idle", "Invalid"} \/ CancelLost)

\* When the updater process is gone the client finds out.
LossNoticed == ~Running ~> (state = "Invalid")

-----------------------------------------------------------------------------
\* What comments and assertions of the code say, and does not hold (README, section 6)

\* UpdaterImpl.cpp, on the handlers of _flash: the connection is deleted after
\* handling was performed, so an updater that is idle has none.
HandlersDeleted ==
    (state = "Idle" /\ dispatch = <<>>) => \A a \in FlashAnswers : handlers[a] = <<>>

\* UpdaterImpl.h: the class has asynchronous API, so the operation it accepted
\* ends with an answer.
OperationsAlwaysEnd == (state \in Busy) ~> (state \in {"Idle", "Invalid"})

\* FlashingService.h asserts src->isReadable().
FlashReadsOpenImage == job.op = "flash" => job.open

\* CRCService.h asserts length > 0.
ChecksumLengthPositive == job.op \in {"crcImage", "crcDevice"} => Size[job.image] > 0
=============================================================================
