------------------------------ MODULE RpiBoot -------------------------------
(***************************************************************************)
(* usb::RpiBootImpl: brings an Edge from its boot ROM to mass storage over *)
(* USB.  boot() polls for the device, sends bootcode.bin to a device in    *)
(* ROM mode (serial number 0), waits for it to come back as its second     *)
(* stage, serves it files until it says that it is done, and returns.      *)
(* The device and the bus are external: a device may be unplugged, die or  *)
(* fail a transfer at any moment.  An error of a request that is neither a *)
(* timeout nor a loss is retried without being counted and changes         *)
(* nothing: such retries are the stuttering steps of the file server.      *)
(***************************************************************************)
EXTENDS Integers

CONSTANTS Files,        \* what a second stage may ask for
          Present,      \* those that are in the resources
          NoFile,
          MaxPolls,     \* maxPollingTime / sleepTime
          MaxTimeouts,  \* maxTimeouts
          MaxCalls      \* bound: calls of bootAsMassStorage

ASSUME RpiBootAssumption ==
    /\ Present \subseteq Files /\ NoFile \notin Files
    /\ MaxPolls \in Nat /\ MaxTimeouts \in Nat /\ MaxCalls \in Nat

VARIABLES
  faulty,     \* may calls fail and devices be unplugged or die?
  device,     \* on the bus: "absent", "rom", "second" stage or "storage"
  next,       \* what it comes back as when it has left the bus
  alive,      \* does it still answer?
  given,      \* has it been sent bootcode since it was enumerated?
  offered,    \* the file whose size it was told last
  pc,         \* where boot() is: "idle", "poll", "stage", "server", "close",
              \* or "crashed"
  ret,        \* what the last call of boot() returned
  calls,      \* number of calls of boot()
  prepared,   \* does second_stage_txbuf hold all of bootcode.bin?
  exiting,    \* was the event loop of the calling thread told to exit?
  polls,      \* totalPollingTime / sleepTime
  serial,     \* desc.iSerialNumber
  lastSerial, \* last_serial
  usb,        \* usb_device: "closed", "open" or its interface "claimed"
  link,       \* is the device of the handle still on the bus?
  left,       \* what became of handles that usb_device held and nobody closed
  unread,     \* has a configuration ever not been read?
  timeouts,   \* timeouts of file_server
  fp          \* the file the static fp of file_server has open

busVars  == <<faulty, device, next, alive, given>>
callVars == <<ret, calls, prepared, exiting>>
pollVars == <<polls, serial, lastSerial>>
fileVars == <<timeouts, fp>>
handleVars == <<usb, link, left, unread>>
vars == <<busVars, callVars, pollVars, fileVars, handleVars, offered, pc>>

TypeOK ==
    /\ faulty \in BOOLEAN
    /\ device \in {"absent", "rom", "second", "storage"}
    /\ next \in {"rom", "second", "storage"}
    /\ alive \in BOOLEAN /\ given \in BOOLEAN
    /\ offered \in Files \cup {NoFile} /\ fp \in Present \cup {NoFile}
    /\ pc \in {"idle", "poll", "stage", "server", "close", "crashed"}
    /\ ret \in {-1, 0} /\ calls \in 0..MaxCalls
    /\ prepared \in BOOLEAN /\ exiting \in BOOLEAN
    /\ polls \in 0..MaxPolls /\ timeouts \in 0..(MaxTimeouts + 1)
    /\ serial \in {0, 1} /\ lastSerial \in {-1, 0, 1}
    /\ usb \in {"closed", "open", "claimed"} /\ left \subseteq {"open", "claimed"}
    /\ link \in BOOLEAN /\ unread \in BOOLEAN

Init ==
    /\ faulty \in BOOLEAN
    /\ device = "absent" /\ next = "rom" /\ alive = TRUE /\ given = FALSE
    /\ offered = NoFile /\ fp = NoFile
    /\ pc = "idle" /\ ret = -1 /\ calls = 0
    /\ prepared = FALSE /\ exiting = FALSE
    /\ polls = 0 /\ serial = 0 /\ lastSerial = -1 /\ timeouts = 0
    /\ usb = "closed" /\ link = FALSE /\ left = {} /\ unread = FALSE

\* A call that may fail: TRUE is its success.
Outcomes == IF faulty THEN BOOLEAN ELSE {TRUE}

-----------------------------------------------------------------------------
(* The device and the bus *)

Appear ==
    /\ device = "absent" /\ alive
    /\ device' = next /\ given' = FALSE
    /\ UNCHANGED <<faulty, next, alive, callVars, pollVars, fileVars, handleVars, offered, pc>>

\* It leaves the bus to come back in its next form, or is unplugged.
Leave ==
    /\ device # "absent"
    /\ \/ device # next /\ alive /\ next' = next
       \/ faulty /\ next' = "rom"
    /\ device' = "absent" /\ link' = FALSE /\ offered' = NoFile
    /\ UNCHANGED <<faulty, alive, given, callVars, pollVars, fileVars, pc, usb, left, unread>>

Die ==
    /\ faulty /\ alive
    /\ alive' = FALSE
    /\ UNCHANGED <<faulty, device, next, given, callVars, pollVars, fileVars, handleVars,
                   offered, pc>>

-----------------------------------------------------------------------------
(* Looking for the device *)

Return(r) == pc' = "idle" /\ ret' = r

\* A turn of the outer loop starts: its locals are fresh.
StartTurn == pc' = "poll" /\ polls' = 0 /\ lastSerial' = -1

\* usb_device is set anew: the handle it holds, if it is not closed, is lost.
Overwrite == left' = left \cup ({usb} \ {"closed"})

\* second_stage_prep: no memory, or a short read.
SecondStagePrep == prepared' \in Outcomes

\* A bootcode that cannot be prepared, or a library that cannot be initialised
\* (its context is then not initialised either), tells the event loop to exit
\* and boot() goes on.
Boot ==
    /\ pc = "idle" /\ calls < MaxCalls
    /\ calls' = calls + 1
    /\ Overwrite /\ usb' = "closed" /\ link' = FALSE      \* a local variable
    /\ \/ /\ faulty /\ Return(-1)                      \* no bootcode.bin
          /\ UNCHANGED <<prepared, exiting, polls, lastSerial>>
       \/ \E library \in Outcomes :
            /\ SecondStagePrep
            /\ exiting' = (exiting \/ ~prepared' \/ ~library)
            /\ \/ StartTurn
               \/ ~library /\ pc' = "crashed" /\ UNCHANGED <<polls, lastSerial>>
            /\ UNCHANGED ret
    /\ UNCHANGED <<busVars, offered, serial, fileVars, unread>>

LatePollAgain ==   \* mutant: > instead of >=
    IF polls > MaxPolls THEN Return(-1) /\ polls' = polls
                        ELSE polls' = polls + 1 /\ UNCHANGED <<pc, ret>>

PollAgain ==
    IF polls >= MaxPolls THEN Return(-1) /\ polls' = polls
                         ELSE polls' = polls + 1 /\ UNCHANGED <<pc, ret>>

OnBus == device \in {"rom", "second"}

\* open_device_with_vid: no such device, or it cannot be opened.
NotFound ==
    /\ pc = "poll"
    /\ OnBus => faulty \/ ~alive
    /\ PollAgain
    /\ Overwrite /\ usb' = "closed" /\ link' = FALSE
    /\ UNCHANGED <<busVars, offered, calls, prepared, exiting, serial,
                   lastSerial, fileVars, unread>>

\* The configuration cannot be read: config, never initialised, may be NULL, and
\* the handle stays open, or garbage.
NoConfig ==
    /\ pc = "poll" /\ OnBus /\ faulty
    /\ Overwrite /\ usb' = "open" /\ link' = TRUE /\ unread' = TRUE
    /\ PollAgain \/ (pc' = "crashed" /\ UNCHANGED <<polls, ret>>)
    /\ UNCHANGED <<busVars, offered, calls, prepared, exiting, serial,
                   lastSerial, fileVars>>

FailedToClaim ==
    /\ pc = "poll" /\ OnBus /\ faulty
    /\ Overwrite /\ usb' = "closed" /\ link' = FALSE
    /\ Return(-1)
    /\ UNCHANGED <<busVars, offered, calls, prepared, exiting, pollVars, fileVars, unread>>

Reenumerated == serial' # lastSerial

\* Opened and claimed; a serial number already served in this turn is refused and
\* the handle closed.
Initialized ==
    /\ pc = "poll" /\ OnBus
    /\ serial' = (IF device = "rom" THEN 0 ELSE 1)
    /\ Overwrite /\ link' = Reenumerated
    /\ IF Reenumerated THEN usb' = "claimed" /\ pc' = "stage" /\ UNCHANGED <<polls, ret>>
                       ELSE usb' = "closed" /\ PollAgain
    /\ UNCHANGED <<busVars, offered, calls, prepared, exiting, lastSerial, fileVars, unread>>

-----------------------------------------------------------------------------
(* Serving it *)

\* ep_write: all is sent, or it is an error.
EpWrite == Outcomes

\* second_stage_boot, its result ignored: all of the bootcode reaches the device,
\* or a part of it, or nothing.
SendBootcode ==
    /\ pc = "stage" /\ serial = 0
    /\ lastSerial' = serial
    /\ given' = (given \/ (link /\ alive))
    /\ \E sent \in EpWrite :
         next' = IF sent /\ link /\ alive /\ prepared THEN "second" ELSE next
    /\ pc' = "close"
    /\ UNCHANGED <<faulty, device, alive, offered, callVars, polls, serial, fileVars,
                   handleVars>>

StartServer ==
    /\ pc = "stage" /\ serial # 0
    /\ lastSerial' = serial /\ timeouts' = 0
    /\ pc' = "server"
    /\ UNCHANGED <<busVars, offered, callVars, polls, serial, fp, handleVars>>

ImpatientClose ==   \* mutant: done after one turn, whatever stage was served
    /\ pc = "close"
    /\ usb' = "closed" /\ link' = FALSE
    /\ Return(0) /\ UNCHANGED <<polls, lastSerial>>
    /\ UNCHANGED <<busVars, offered, calls, prepared, exiting, serial, fileVars, left, unread>>

LateClose ==   \* mutant: closed only before boot() returns, not after each turn
    /\ pc = "close"
    /\ IF serial = 0 THEN StartTurn /\ UNCHANGED <<ret, usb, link>>
                     ELSE /\ usb' = "closed" /\ link' = FALSE
                          /\ Return(0) /\ UNCHANGED <<polls, lastSerial>>
    /\ UNCHANGED <<busVars, offered, calls, prepared, exiting, serial, fileVars, left, unread>>

\* libusb_close, then another turn when it was the boot ROM that was served.
Close ==
    /\ pc = "close"
    /\ usb' = "closed" /\ link' = FALSE
    /\ IF serial = 0 THEN StartTurn /\ UNCHANGED ret
                     ELSE Return(0) /\ UNCHANGED <<polls, lastSerial>>
    /\ UNCHANGED <<busVars, offered, calls, prepared, exiting, serial, fileVars, left, unread>>

Serving == pc = "server" /\ link /\ alive

serverFrame == <<busVars, callVars, pollVars, handleVars>>

ForgivingTimeout ==   \* mutant: timeouts are not counted
    /\ pc = "server" /\ link /\ (faulty \/ ~alive)
    /\ UNCHANGED <<timeouts, pc>>
    /\ UNCHANGED <<serverFrame, offered, fp>>

Timeout ==
    /\ pc = "server" /\ link /\ (faulty \/ ~alive)
    /\ IF timeouts <= MaxTimeouts THEN timeouts' = timeouts + 1 /\ UNCHANGED pc
                                  ELSE pc' = "close" /\ UNCHANGED timeouts
    /\ UNCHANGED <<serverFrame, offered, fp>>

\* LIBUSB_ERROR_NO_DEVICE or LIBUSB_ERROR_IO.
DropOut ==
    /\ pc = "server" /\ (~link \/ faulty)
    /\ pc' = "close"
    /\ UNCHANGED <<serverFrame, offered, fileVars>>

StaleGetFileSize(f) ==   \* mutant: a file still open is not closed first
    /\ Serving
    /\ fp' = IF fp # NoFile THEN fp ELSE IF f \in Present THEN f ELSE NoFile
    /\ \E sent \in EpWrite :
         /\ offered' = IF sent /\ fp' # NoFile THEN f ELSE NoFile
         /\ pc' = IF ~sent /\ fp' # NoFile THEN "close" ELSE pc
    /\ UNCHANGED <<serverFrame, timeouts>>

\* The file open before is closed; a size of 0 tells that there is no such file,
\* and only a failure to send another one ends the server.
GetFileSize(f) ==
    /\ Serving
    /\ fp' = IF f \in Present THEN f ELSE NoFile
    /\ \E sent \in EpWrite :
         /\ offered' = IF sent THEN fp' ELSE NoFile
         /\ pc' = IF ~sent /\ fp' # NoFile THEN "close" ELSE pc
    /\ UNCHANGED <<serverFrame, timeouts>>

\* A device reads what it was told the size of.  With nothing open it is sent
\* nothing; a file that cannot be read stays open; no memory is fatal.
ReadFile ==
    /\ Serving /\ offered # NoFile
    /\ \/ fp = NoFile /\ UNCHANGED <<fp, pc>>
       \/ /\ fp # NoFile /\ fp' = NoFile
          /\ \E sent \in EpWrite : pc' = IF sent THEN pc ELSE "close"
       \/ fp # NoFile /\ faulty /\ pc' \in {"close", "crashed"} /\ UNCHANGED fp
    /\ UNCHANGED <<serverFrame, offered, timeouts>>

\* The Done command, or an empty name.
Done ==
    /\ Serving
    /\ next' = "storage"
    /\ pc' = "close"
    /\ UNCHANGED <<faulty, device, alive, given, callVars, pollVars, handleVars, offered,
                   fileVars>>

\* A command without a name is logged by one past the end of the table of names.
Unknown ==
    /\ Serving /\ faulty
    /\ pc' \in {"close", "crashed"}
    /\ UNCHANGED <<serverFrame, offered, fileVars>>

-----------------------------------------------------------------------------

Polling == NotFound \/ NoConfig \/ FailedToClaim \/ Initialized
Requests == (\E f \in Files : GetFileSize(f)) \/ ReadFile \/ Done \/ Unknown
Bus == Appear \/ Leave \/ Die

Next == Bus \/ Boot \/ Polling \/ SendBootcode \/ StartServer \/ Close
            \/ Timeout \/ DropOut \/ Requests

\* boot() goes on by itself but for what the device is asked for: errors of a
\* live device keep the file server going for ever.
Fairness == /\ WF_vars(Polling) /\ WF_vars(SendBootcode) /\ WF_vars(StartServer)
            /\ WF_vars(Close) /\ WF_vars(DropOut /\ ~link)
            /\ WF_vars(Timeout /\ ~alive)

Spec == Init /\ [][Next]_vars /\ Fairness

-----------------------------------------------------------------------------
(* Properties *)

\* The file that would be sent to a device that asks for one is the file whose
\* size it was told last, though the open file outlives the loss of a device,
\* the server and the call of boot() (static QFile fp of file_server).
FileSentIsOffered == offered # NoFile => fp \in {NoFile, offered}

\* The handles the process has open.
Handles == (left \cup {usb}) \ {"closed"}

\* boot() never returns with the interface of the device claimed by the updater,
\* whichever of its turns and failures it returns from: a claim left behind would
\* keep the next attempt out.  Nor is a handle left open without a claim, now or in
\* an earlier turn or call, but where a configuration could not be read.
ReturnsReleased ==
    pc = "idle" => /\ "claimed" \notin Handles
                   /\ Handles # {} => unread

\* boot() returns with no handle open.  It does not: initialize_device does not
\* close the device whose configuration it cannot read (RpiBootImpl.cpp:200), and the
\* poll may give up behind it, or replace the handle.
ReturnsClosed == pc = "idle" => Handles = {}

\* A device that has died or left for good does not keep boot() waiting, in the
\* poll or in the file server, as long as it is not stuck in its boot ROM.
GivesUp == <>[](~alive /\ device # "rom") => <>[](pc \in {"idle", "crashed"})

\* When boot() returns 0 and there was no fault, the device has said that it has all
\* its files.  With faults it returns 0 as well when its file server has given up,
\* whose result it does not look at (RpiBootImpl.cpp:576).
SuccessMeansFinished == [][Close /\ pc' = "idle" /\ ~faulty => next = "storage"]_vars

\* Without faults a device is sent bootcode once after each enumeration (the comment of
\* RpiBootImpl.cpp:548: "Make sure we've re-enumerated since the last time").
BootcodeOnce == [][SendBootcode /\ link /\ alive /\ ~faulty => ~given]_vars

\* Without faults a device that is called for becomes a mass storage, unless it
\* comes back too late for the poll of boot().
Cooperates == calls > 0 /\ ~faulty ~> (device = "storage" \/ (pc = "idle" /\ ret = -1))

\* A device without faults restarts, comes back and asks until it is done.
Cooperation == /\ WF_vars(~faulty /\ Appear) /\ WF_vars(~faulty /\ Leave)
               /\ SF_vars(~faulty /\ Done)

CooperativeSpec == Spec /\ Cooperation
=============================================================================
