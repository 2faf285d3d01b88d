--------------------------- MODULE UpdaterServer ----------------------------
(***************************************************************************)
(* The updater process: EdgeFirmwareUpdater on the main thread runs the    *)
(* slots the client invokes and forwards the answers of the session;       *)
(* FirmwareUpdateSession lives on the session thread and does the work.    *)
(* Slots of the session are queued to its thread, except cancel, which     *)
(* the main thread runs itself (Qt::DirectConnection).  closeSession       *)
(* blocks the main thread until the session thread has ended.              *)
(***************************************************************************)
EXTENDS UpdaterIPC

CONSTANTS DeviceBlocks,   \* blocks of the device the firmware is written to
          Size            \* blocks of each firmware file

ASSUME DeviceAssumption ==
    /\ DeviceBlocks \in Nat
    /\ Size \in [Images -> Nat]

VARIABLES session,     \* is there a FirmwareUpdateSession?
          closing,     \* is the main thread in closeSession, in wait()?
          firmware,    \* _firmwareFilename
          posted,      \* answers of the session posted to the main thread
          thread,      \* _sessionThread: "stopped", "running" or "quitting"
          workQ,       \* slots queued to the session and not begun
          job,         \* the slot the session thread is in
          edgeDevice,  \* is _sessionData.edgeDevice set?
          ioDevice,    \* is _sessionData.edgeIODevice set?
          cancelReq,   \* the flag of the CancellationPoint
          dev          \* what each block of the device holds

mainVars    == <<session, closing, firmware>>
sessionVars == <<edgeDevice, ioDevice, cancelReq>>
serverVars  == <<mainVars, posted, thread, workQ, job, sessionVars, dev>>

Blocks  == 1..DeviceBlocks
Content == Images \cup {NoImage}
Jobs    == {"none", "initializeEdgeDevice", "flash", "crcImage", "crcDevice"}
NoJob   == [op |-> "none", image |-> NoImage, pos |-> 0, open |-> FALSE]

ServerTypeOK ==
    /\ session \in BOOLEAN
    /\ closing \in BOOLEAN
    /\ firmware \in Content
    /\ posted \in Seq(Signals)
    /\ thread \in {"stopped", "running", "quitting"}
    /\ workQ \in Seq(Calls)
    /\ job \in [op : Jobs, image : Content, pos : Nat, open : BOOLEAN]
    /\ edgeDevice \in BOOLEAN
    /\ ioDevice \in BOOLEAN
    /\ cancelReq \in BOOLEAN
    /\ dev \in [Blocks -> Content]

ServerInit ==
    /\ session = FALSE
    /\ closing = FALSE
    /\ firmware = NoImage
    /\ posted = <<>>
    /\ thread = "stopped"
    /\ workQ = <<>>
    /\ job = NoJob
    /\ edgeDevice = FALSE
    /\ ioDevice = FALSE
    /\ cancelReq = FALSE
    /\ dev = [b \in Blocks |-> NoImage]

\* Does the device hold the image, from its first block on?
Holds(image) ==
    /\ Size[image] <= DeviceBlocks
    /\ \A b \in 1..Size[image] : dev[b] = image

-----------------------------------------------------------------------------
\* Main thread

\* The end of the process takes everything with it except the device.
ProcessDies(how) ==
    /\ Die(how)
    /\ session' = FALSE
    /\ closing' = FALSE
    /\ posted' = <<>>
    /\ thread' = "stopped"
    /\ workQ' = <<>>
    /\ job' = NoJob
    /\ UNCHANGED <<firmware, sessionVars, dev>>

MainRuns == Running /\ ~closing

TakeCall(slots) ==
    /\ MainRuns
    /\ toServer # <<>>
    /\ Head(toServer).slot \in slots

\* Mutant of NewSession: the cancellation flag outlives its session.
NewSessionKeepingCancel ==
    /\ edgeDevice' = FALSE
    /\ ioDevice' = FALSE
    /\ UNCHANGED cancelReq

\* A FirmwareUpdateSession is made.
NewSession ==
    /\ edgeDevice' = FALSE
    /\ ioDevice' = FALSE
    /\ cancelReq' = FALSE

OpenSession ==
    /\ TakeCall({"openSession"})
    /\ toServer' = Tail(toServer)
    /\ \/ session /\ UNCHANGED <<session, thread, sessionVars>>
       \/ /\ ~session
          /\ session' = TRUE
          /\ thread' = "running"
          /\ NewSession
    /\ UNCHANGED <<process, toClient, closing, firmware, posted, workQ, job,
                   dev>>

\* quit(), then the main thread stays in wait() until CloseSessionReturns.
CloseSession ==
    /\ TakeCall({"closeSession"})
    /\ toServer' = Tail(toServer)
    /\ \/ ~session /\ UNCHANGED <<closing, thread>>
       \/ session /\ closing' = TRUE /\ thread' = "quitting"
    /\ UNCHANGED <<process, toClient, session, firmware, posted, workQ, job,
                   sessionVars, dev>>

\* The session is deleted with the slots still queued to it; the answers it
\* has posted to the main thread stay.
CloseSessionReturns ==
    /\ Running
    /\ closing
    /\ thread = "stopped"
    /\ session' = FALSE
    /\ closing' = FALSE
    /\ workQ' = <<>>
    /\ UNCHANGED <<channels, firmware, posted, thread, job, sessionVars, dev>>

\* Mutant of Remember: flash does not remember the file it was given.
Forget(file) == UNCHANGED firmware

\* flash assigns _firmwareFilename.
Remember(file) == firmware' = file

\* initializeEdgeDevice, flash and checkOnCorrectness: without a session the
\* request is logged and dropped.
PerformWork ==
    /\ TakeCall(WorkSlots)
    /\ toServer' = Tail(toServer)
    /\ LET call == Head(toServer)
           file == IF call.slot = "flash" THEN call.image ELSE firmware
       IN  /\ Remember(file)
           /\ workQ' = IF session
                       THEN Append(workQ, [slot |-> call.slot, image |-> file])
                       ELSE workQ
    /\ UNCHANGED <<process, toClient, session, closing, posted, thread, job,
                   sessionVars, dev>>

CancelWork ==
    /\ TakeCall({"cancel"})
    /\ toServer' = Tail(toServer)
    /\ cancelReq' = (cancelReq \/ session)
    /\ UNCHANGED <<process, toClient, mainVars, posted, thread, workQ, job,
                   edgeDevice, ioDevice, dev>>

FinishProcess ==
    /\ TakeCall({"finish"})
    /\ ProcessDies("exited")

\* The updater heard no heartbeat in time.
HeartbeatTimeout ==
    /\ MainRuns
    /\ ProcessDies("exited")

ForwardAnswer ==
    /\ MainRuns
    /\ posted # <<>>
    /\ posted' = Tail(posted)
    /\ toClient' = Append(toClient, Head(posted))
    /\ UNCHANGED <<process, toServer, mainVars, thread, workQ, job,
                   sessionVars, dev>>

-----------------------------------------------------------------------------
\* Session thread

\* A slot of the session returns and leaves its answer to the main thread.
Answer(signal, status) ==
    /\ posted' = Append(posted, [signal |-> signal, status |-> status])
    /\ job' = NoJob

\* A null pointer is dereferenced.
Segfault == ProcessDies("crashed")

\* The event loop may or may not run what is queued once it has to quit.
TakeWork(slot) ==
    /\ Running
    /\ thread # "stopped"
    /\ job.op = "none"
    /\ workQ # <<>>
    /\ Head(workQ).slot = slot

BeginInitialize ==
    /\ TakeWork("initializeEdgeDevice")
    /\ workQ' = Tail(workQ)
    /\ job' = [NoJob EXCEPT !.op = "initializeEdgeDevice"]
    /\ UNCHANGED <<channels, mainVars, posted, thread, sessionVars, dev>>

\* Mutant of NotPlugged: it is not answered.
NotPluggedSilently == job' = NoJob /\ UNCHANGED <<posted, edgeDevice>>

\* Edge is not plugged.
NotPlugged == Answer("initializingFinished", "Failed") /\ UNCHANGED edgeDevice

\* Mutant of Initialized: a device that could not be made is a success.
InitializedUnchecked(made) ==
    /\ Answer("initializingFinished", "Succeed")
    /\ edgeDevice' = made

\* initialize() returns a device, or none.
Initialized(made) ==
    /\ Answer("initializingFinished", IF made THEN "Succeed" ELSE "Failed")
    /\ edgeDevice' = made

EndInitialize ==
    /\ Running
    /\ job.op = "initializeEdgeDevice"
    /\ NotPlugged \/ \E made \in BOOLEAN : Initialized(made)
    /\ UNCHANGED <<channels, mainVars, thread, workQ, ioDevice, cancelReq,
                   dev>>

\* edgeDevice->asIODevice(); then the image and the device are opened, and
\* neither result is looked at.
BeginFlash ==
    /\ TakeWork("flash")
    /\ \/ ~edgeDevice /\ Segfault
       \/ /\ edgeDevice
          /\ ioDevice' = TRUE
          /\ workQ' = Tail(workQ)
          /\ \E opened \in BOOLEAN :
               job' = [op |-> "flash", image |-> Head(workQ).image, pos |-> 0,
                       open |-> opened]
          /\ UNCHANGED <<channels, mainVars, posted, thread, edgeDevice,
                         cancelReq, dev>>

\* QFile::atEnd() is true of a file that is not open.
AtEnd == ~job.open \/ job.pos = Size[job.image]

EndFlash ==
    /\ Running
    /\ job.op = "flash"
    /\ AtEnd
    /\ Answer("flashingFinished", "Succeed")
    /\ UNCHANGED <<channels, mainVars, thread, workQ, sessionVars, dev>>

CancelFlash ==
    /\ Running
    /\ job.op = "flash"
    /\ ~AtEnd
    /\ cancelReq
    /\ Answer("flashingFinished", "Cancelled")
    /\ UNCHANGED <<channels, mainVars, thread, workQ, sessionVars, dev>>

\* Mutant of Advance: the answer is sent from inside the loop.
AdvanceAnswering(block) ==
    /\ job' = [job EXCEPT !.pos = block]
    /\ posted' = Append(posted, [signal |-> "flashingFinished",
                                 status |-> "Succeed"])

\* The block is written and the loop goes on.
Advance(block) ==
    /\ job' = [job EXCEPT !.pos = block]
    /\ UNCHANGED posted

\* One turn of the loop of flash_core.  The check of the flag and the write
\* are one step: a cancel between them is as good as one after the write.
\* The read or the write may fail, a failing write may spoil the block, and
\* a write that the device acknowledges may still have stored something else.
FlashBlock ==
    /\ Running
    /\ job.op = "flash"
    /\ ~AtEnd
    /\ ~cancelReq
    /\ LET block == job.pos + 1
           Store(contents) == \E c \in contents : dev' = [dev EXCEPT ![block] = c]
       IN  \/ Answer("flashingFinished", "Failed") /\ UNCHANGED dev
           \/ /\ block \in Blocks
              /\ Answer("flashingFinished", "Failed")
              /\ Store({NoImage})
           \/ /\ block \in Blocks
              /\ Advance(block)
              /\ Store({job.image, NoImage})
    /\ UNCHANGED <<channels, mainVars, thread, workQ, sessionVars>>

BeginCheck ==
    /\ TakeWork("checkOnCorrectness")
    /\ workQ' = Tail(workQ)
    /\ \/ Answer("checkOnCorrectnessFinished", "Failed")
       \/ /\ job' = [op |-> "crcImage", image |-> Head(workQ).image, pos |-> 0,
                     open |-> TRUE]
          /\ UNCHANGED posted
    /\ UNCHANGED <<channels, mainVars, thread, sessionVars, dev>>

\* computeCRC_core reads and changes nothing: it is one step, taken at its
\* last look at the flag, or at the read that fails.
ComputeCRC(Computed) ==
    /\ Running
    /\ \/ cancelReq /\ Answer("checkOnCorrectnessFinished", "Cancelled")
       \/ ~cancelReq /\ Answer("checkOnCorrectnessFinished", "Failed")
       \/ ~cancelReq /\ Computed

\* Between the two checksums the device is rewound: edgeIODevice->seek(0).
ComputeImageCRC ==
    /\ job.op = "crcImage"
    /\ \/ /\ ~ioDevice /\ ~cancelReq
          /\ Segfault
       \/ /\ ComputeCRC(/\ ioDevice
                        /\ job' = [job EXCEPT !.op = "crcDevice"]
                        /\ UNCHANGED posted)
          /\ UNCHANGED <<channels, mainVars, thread, workQ, sessionVars, dev>>

\* Mutant of Verdict: the last block of the device is not read.
VerdictShort ==
    IF \A n \in 1..(Size[job.image] - 1) : dev[n] = job.image
    THEN "Succeed" ELSE "Failed"

\* Mutant of Verdict: the status of the session is not mapped to the one of
\* the remote object.
VerdictUnmapped == IF Holds(job.image) THEN "Done" ELSE "Failed"

\* Are the two checksums the same?
Verdict == IF Holds(job.image) THEN "Succeed" ELSE "Failed"

ComputeDeviceCRC ==
    /\ job.op = "crcDevice"
    /\ ComputeCRC(Answer("checkOnCorrectnessFinished", Verdict))
    /\ UNCHANGED <<channels, mainVars, thread, workQ, sessionVars, dev>>

ThreadEnds ==
    /\ Running
    /\ thread = "quitting"
    /\ job.op = "none"
    /\ thread' = "stopped"
    /\ UNCHANGED <<channels, mainVars, posted, workQ, job, sessionVars, dev>>

MainLoop ==
    \/ OpenSession
    \/ CloseSession
    \/ CloseSessionReturns
    \/ PerformWork
    \/ CancelWork
    \/ FinishProcess
    \/ ForwardAnswer

SessionLoop ==
    \/ BeginInitialize
    \/ EndInitialize
    \/ BeginFlash
    \/ FlashBlock
    \/ EndFlash
    \/ CancelFlash
    \/ BeginCheck
    \/ ComputeImageCRC
    \/ ComputeDeviceCRC
    \/ ThreadEnds
=============================================================================
