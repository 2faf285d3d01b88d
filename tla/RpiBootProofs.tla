--------------------------- MODULE RpiBootProofs ----------------------------
(***************************************************************************)
(* Theorems about RpiBoot, for every set of files, every limit of polls    *)
(* and of timeouts, with and without faults.                               *)
(***************************************************************************)
EXTENDS RpiBoot, TLAPS

-----------------------------------------------------------------------------
\* Types

LEMMA InitTyping == Init => TypeOK
<1> SUFFICES ASSUME Init PROVE TypeOK
  OBVIOUS
<1>1. calls \in 0..MaxCalls /\ polls \in 0..MaxPolls /\ timeouts \in 0..(MaxTimeouts + 1)
  BY RpiBootAssumption DEF Init
<1> QED BY <1>1 DEF Init, TypeOK

LEMMA OutcomesAreBoolean == Outcomes \subseteq BOOLEAN
BY DEF Outcomes

LEMMA PollTyping ==
    ASSUME TypeOK, PollAgain, pc = "poll"
    PROVE  /\ polls' \in 0..MaxPolls /\ pc' \in {"idle", "poll"} /\ ret' \in {-1, 0}
BY RpiBootAssumption DEF TypeOK, PollAgain, Return

\* A handle that is lost was open or claimed.
LEMMA OverwriteTyping ==
    ASSUME TypeOK, Overwrite
    PROVE  left' \subseteq {"open", "claimed"}
BY DEF TypeOK, Overwrite

LEMMA BusTyping ==
    ASSUME TypeOK, Bus
    PROVE  TypeOK'
<1> USE DEF TypeOK, callVars, pollVars, fileVars, handleVars
<1>1. CASE Appear
  <2>1. /\ device' \in {"rom", "second", "storage"} /\ given' \in BOOLEAN
        /\ UNCHANGED <<faulty, next, alive, callVars, pollVars, fileVars, handleVars, offered, pc>>
    BY <1>1 DEF Appear
  <2> QED BY <2>1
<1>2. CASE Leave
  <2>1. /\ device' = "absent" /\ next' \in {next, "rom"}
        /\ link' \in BOOLEAN /\ offered' = NoFile
        /\ UNCHANGED <<faulty, alive, given, callVars, pollVars, fileVars, pc, usb, left,
                       unread>>
    BY <1>2 DEF Leave
  <2> QED BY <2>1
<1>3. CASE Die
  <2>1. /\ alive' \in BOOLEAN
        /\ UNCHANGED <<faulty, device, next, given, callVars, pollVars, fileVars, handleVars,
                       offered, pc>>
    BY <1>3 DEF Die
  <2> QED BY <2>1
<1> QED BY <1>1, <1>2, <1>3 DEF Bus

LEMMA BootTyping ==
    ASSUME TypeOK, Boot
    PROVE  TypeOK'
<1> USE DEF TypeOK, busVars, fileVars
<1>0. left' \subseteq {"open", "claimed"} /\ usb' = "closed" /\ link' = FALSE
  BY OverwriteTyping DEF Boot
<1>1. calls' \in 0..MaxCalls
  BY RpiBootAssumption DEF Boot
<1>2. polls' \in 0..MaxPolls /\ lastSerial' \in {-1, 0, 1}
  <2>1. 0 \in 0..MaxPolls
    BY RpiBootAssumption
  <2> QED BY <2>1 DEF Boot, StartTurn
<1>3. prepared' \in BOOLEAN /\ exiting' \in BOOLEAN
  BY OutcomesAreBoolean DEF Boot, SecondStagePrep
<1>4. pc' \in {"idle", "poll", "crashed"} /\ ret' \in {-1, 0}
  BY DEF Boot, StartTurn, Return
<1> QED BY <1>0, <1>1, <1>2, <1>3, <1>4 DEF Boot

LEMMA PollingTyping ==
    ASSUME TypeOK, Polling
    PROVE  TypeOK'
<1> USE DEF TypeOK, busVars, fileVars, pollVars
<1>0. Polling => left' \subseteq {"open", "claimed"}
  BY OverwriteTyping DEF Polling, NotFound, NoConfig, FailedToClaim, Initialized
<1>1. CASE NotFound
  <2>1. polls' \in 0..MaxPolls /\ pc' \in {"idle", "poll"} /\ ret' \in {-1, 0}
    BY <1>1, PollTyping DEF NotFound
  <2>2. /\ usb' = "closed" /\ link' \in BOOLEAN /\ left' \subseteq {"open", "claimed"}
        /\ UNCHANGED <<busVars, offered, calls, prepared, exiting, serial, lastSerial,
                       fileVars, unread>>
    BY <1>0, <1>1 DEF NotFound, Polling
  <2> QED BY <2>1, <2>2
<1>2. CASE NoConfig
  <2>1. CASE PollAgain
    <3>1. polls' \in 0..MaxPolls /\ pc' \in {"idle", "poll"} /\ ret' \in {-1, 0}
      BY <1>2, <2>1, PollTyping DEF NoConfig
    <3> QED BY <1>0, <1>2, <3>1 DEF NoConfig, Polling
  <2>2. CASE pc' = "crashed" /\ UNCHANGED <<polls, ret>>
    BY <1>0, <1>2, <2>2 DEF NoConfig, Polling
  <2> QED BY <1>2, <2>1, <2>2 DEF NoConfig
<1>3. CASE FailedToClaim
  <2>1. /\ usb' = "closed" /\ link' \in BOOLEAN /\ left' \subseteq {"open", "claimed"}
        /\ pc' = "idle" /\ ret' = -1
        /\ UNCHANGED <<busVars, offered, calls, prepared, exiting, pollVars, fileVars, unread>>
    BY <1>0, <1>3 DEF FailedToClaim, Return, Polling
  <2> QED BY <2>1
<1>4. CASE Initialized
  <2>1. /\ serial' \in {0, 1} /\ usb' \in {"closed", "claimed"} /\ link' \in BOOLEAN
        /\ left' \subseteq {"open", "claimed"}
    BY <1>0, <1>4 DEF Initialized, Reenumerated, Polling
  <2>2. polls' \in 0..MaxPolls /\ pc' \in {"idle", "poll", "stage"} /\ ret' \in {-1, 0}
    BY <1>4, PollTyping DEF Initialized, Reenumerated
  <2> QED BY <1>4, <2>1, <2>2 DEF Initialized
<1> QED BY <1>1, <1>2, <1>3, <1>4 DEF Polling

LEMMA StageTyping ==
    ASSUME TypeOK, SendBootcode \/ StartServer \/ Close
    PROVE  TypeOK'
<1> USE DEF TypeOK, busVars, callVars, pollVars, fileVars, handleVars
<1>1. CASE SendBootcode
  <2>1. given' \in BOOLEAN
    BY <1>1 DEF SendBootcode
  <2>2. next' \in {"rom", "second", "storage"} /\ lastSerial' \in {-1, 0, 1}
    BY <1>1 DEF SendBootcode
  <2> QED BY <1>1, <2>1, <2>2 DEF SendBootcode
<1>2. CASE StartServer
  <2>1. timeouts' \in 0..(MaxTimeouts + 1)
    BY <1>2, RpiBootAssumption DEF StartServer
  <2> QED BY <1>2, <2>1 DEF StartServer
<1>3. CASE Close
  <2>1. polls' \in 0..MaxPolls
    <3>1. 0 \in 0..MaxPolls
      BY RpiBootAssumption
    <3> QED BY <1>3, <3>1 DEF Close, StartTurn
  <2>2. /\ usb' = "closed" /\ link' \in BOOLEAN /\ UNCHANGED <<left, unread>>
        /\ pc' \in {"idle", "poll"} /\ ret' \in {ret, 0} /\ lastSerial' \in {lastSerial, -1}
        /\ UNCHANGED <<busVars, offered, calls, prepared, exiting, serial, fileVars>>
    BY <1>3 DEF Close, StartTurn, Return
  <2>3. left' \subseteq {"open", "claimed"} /\ unread' \in BOOLEAN
    BY <2>2
  <2> QED BY <2>1, <2>2, <2>3
<1> QED BY <1>1, <1>2, <1>3

LEMMA ServerTyping ==
    ASSUME TypeOK, Timeout \/ DropOut \/ Requests
    PROVE  TypeOK'
<1> USE DEF TypeOK, serverFrame, busVars, callVars, pollVars, fileVars, handleVars
<1>1. CASE Timeout
  <2>1. timeouts' \in 0..(MaxTimeouts + 1) /\ pc' \in {pc, "close"}
    BY <1>1, RpiBootAssumption DEF Timeout
  <2> QED BY <1>1, <2>1 DEF Timeout
<1>2. CASE DropOut
  BY <1>2 DEF DropOut
<1>3. ASSUME NEW f \in Files, GetFileSize(f) PROVE TypeOK'
  <2>1. fp' \in Present \cup {NoFile} /\ offered' \in Files \cup {NoFile}
    BY <1>3, RpiBootAssumption DEF GetFileSize
  <2>2. pc' \in {pc, "close"}
    BY <1>3 DEF GetFileSize
  <2> QED BY <1>3, <2>1, <2>2 DEF GetFileSize
<1>4. CASE ReadFile
  BY <1>4 DEF ReadFile
<1>5. CASE Done
  BY <1>5 DEF Done
<1>6. CASE Unknown
  BY <1>6 DEF Unknown
<1> QED BY <1>1, <1>2, <1>3, <1>4, <1>5, <1>6 DEF Requests

\* Every reachable state is well typed; in particular no poll and no series of
\* timeouts exceeds its limit.
THEOREM TypeCorrect == Spec => []TypeOK
<1>1. TypeOK /\ [Next]_vars => TypeOK'
  <2> SUFFICES ASSUME TypeOK, [Next]_vars PROVE TypeOK'
    OBVIOUS
  <2>1. CASE UNCHANGED vars
    BY <2>1 DEF vars, busVars, callVars, pollVars, fileVars, handleVars, TypeOK
  <2> QED BY <2>1, BusTyping, BootTyping, PollingTyping, StageTyping, ServerTyping
             DEF Next
<1> QED BY InitTyping, <1>1, PTL DEF Spec

-----------------------------------------------------------------------------
\* The open file and the open device

KeepsFile == UNCHANGED <<offered, fp>>

LEMMA FileStep ==
    ASSUME FileSentIsOffered, [Next]_vars
    PROVE  FileSentIsOffered'
<1> USE DEF FileSentIsOffered, fileVars, serverFrame, vars
<1>1. CASE Leave
  BY <1>1 DEF Leave
<1>2. ASSUME NEW f \in Files, GetFileSize(f) PROVE FileSentIsOffered'
  BY <1>2 DEF GetFileSize
<1>3. CASE ReadFile
  BY <1>3 DEF ReadFile
<1>4. CASE KeepsFile
  BY <1>4 DEF KeepsFile
<1>5. [Next]_vars => Leave \/ Requests \/ KeepsFile
  BY DEF KeepsFile, Next, Bus, Appear, Die, Boot, Polling, NotFound, NoConfig,
     FailedToClaim, Initialized, SendBootcode, StartServer, Close, Timeout, DropOut
<1> QED BY <1>1, <1>2, <1>3, <1>4, <1>5 DEF Requests, Done, Unknown, KeepsFile

\* The file sent is the file whose size the device was told, however many devices,
\* sessions of the server and calls of boot() the static file outlives.
THEOREM FileSentAlwaysOffered == Spec => []FileSentIsOffered
<1>1. Init => FileSentIsOffered
  BY DEF Init, FileSentIsOffered
<1> QED BY <1>1, FileStep, PTL DEF Spec

\* What makes ReturnsReleased inductive: there is a claim only while the device is
\* served, none was ever lost, and an unread configuration is behind all others.
HandleInv ==
    /\ "claimed" \notin left
    /\ usb = "claimed" => pc \notin {"idle", "poll"}
    /\ left # {} \/ usb = "open" => unread

LEMMA HandleStep ==
    ASSUME TypeOK, HandleInv, [Next]_vars
    PROVE  HandleInv'
<1> USE DEF HandleInv
<1>1. ASSUME Overwrite, pc \in {"idle", "poll"}
      PROVE  "claimed" \notin left' /\ (left' # {} => unread)
  BY <1>1 DEF Overwrite, TypeOK
<1>2. CASE NotFound
  BY <1>1, <1>2 DEF NotFound
<1>3. CASE NoConfig
  BY <1>1, <1>3 DEF NoConfig
<1>4. CASE FailedToClaim
  BY <1>1, <1>4 DEF FailedToClaim
<1>5. CASE Initialized
  <2>1. /\ Overwrite /\ pc = "poll" /\ unread' = unread
        /\ \/ usb' = "claimed" /\ pc' = "stage"
           \/ usb' = "closed"
    BY <1>5 DEF Initialized, fileVars
  <2> QED BY <1>1, <2>1
<1>6. CASE Boot
  BY <1>1, <1>6 DEF Boot
<1>7. CASE Close
  BY <1>7 DEF Close
<1>8. CASE SendBootcode \/ StartServer
  BY <1>8 DEF SendBootcode, StartServer, handleVars
<1>9. CASE Timeout \/ DropOut \/ Requests
  <2>1. pc = "server" /\ pc' \in {"server", "close", "crashed"} /\ UNCHANGED handleVars
    BY <1>9 DEF Timeout, DropOut, Requests, GetFileSize, ReadFile, Done, Unknown, Serving,
                serverFrame
  <2> QED BY <2>1 DEF handleVars
<1>10. CASE UNCHANGED <<pc, usb, left, unread>>
  BY <1>10
<1>11. Bus \/ UNCHANGED vars => UNCHANGED <<pc, usb, left, unread>>
  BY DEF Bus, Appear, Leave, Die, vars, handleVars
<1> QED BY <1>2, <1>3, <1>4, <1>5, <1>6, <1>7, <1>8, <1>9, <1>10, <1>11 DEF Next, Polling

\* boot() returns with nothing claimed on every path, and nothing open but handles
\* of devices whose configuration could not be read.
THEOREM AlwaysReturnsReleased == Spec => []ReturnsReleased
<1>1. Init => HandleInv
  BY DEF Init, HandleInv
<1>2. TypeOK /\ HandleInv => ReturnsReleased
  <2> SUFFICES ASSUME TypeOK, HandleInv, pc = "idle"
               PROVE  "claimed" \notin Handles /\ (Handles # {} => unread)
    BY DEF ReturnsReleased
  <2>1. "claimed" \notin left /\ usb \in {"closed", "open"}
    BY DEF HandleInv, TypeOK
  <2>2. "claimed" \notin Handles
    BY <2>1 DEF Handles
  <2>3. Handles # {} => left # {} \/ usb = "open"
    BY <2>1 DEF Handles
  <2> QED BY <2>2, <2>3 DEF HandleInv
<1> QED BY <1>1, <1>2, HandleStep, TypeCorrect, PTL DEF Spec

-----------------------------------------------------------------------------
\* Without faults 0 is returned of a device that is done

\* A device without faults goes from form to form in order; the one that is open
\* is the one its serial number says, and the file server lets go of a second
\* stage only when that has all its files.
FinishInv == ~faulty =>
    /\ alive
    /\ device \in {"absent", next} \/ (device = "rom" /\ next = "second")
                                  \/ (device = "second" /\ next = "storage")
    /\ pc = "stage" /\ serial = 0 /\ link => device = "rom"
    /\ pc \in {"stage", "server"} /\ serial # 0 => next = "storage" \/ (link /\ device = "second")
    /\ pc = "server" => serial # 0
    /\ pc = "close" /\ serial # 0 => next = "storage"

LEMMA FinishStep ==
    ASSUME TypeOK, FinishInv, [Next]_vars
    PROVE  FinishInv'
<1> USE DEF FinishInv, handleVars
<1>1. CASE Appear
  BY <1>1 DEF Appear, TypeOK, callVars, pollVars, fileVars
<1>2. CASE Leave
  BY <1>2 DEF Leave, TypeOK, callVars, pollVars, fileVars
<1>3. CASE Die
  BY <1>3 DEF Die
<1>4. CASE Boot
  <2>1. UNCHANGED busVars /\ pc' \in {"idle", "poll", "crashed"}
    BY <1>4 DEF Boot, StartTurn, Return
  <2> QED BY <2>1 DEF busVars
<1>5. CASE NotFound \/ NoConfig \/ FailedToClaim
  <2>1. UNCHANGED busVars /\ pc' \in {"idle", "poll", "crashed"}
    BY <1>5 DEF NotFound, NoConfig, FailedToClaim, PollAgain, Return
  <2> QED BY <2>1 DEF busVars
<1>6. CASE Initialized
  <2>1. UNCHANGED busVars /\ serial' = (IF device = "rom" THEN 0 ELSE 1)
        /\ device \in {"rom", "second"}
    BY <1>6 DEF Initialized, OnBus
  <2>2. pc' \in {"idle", "poll"} \/ (pc' = "stage" /\ link')
    BY <1>6 DEF Initialized, PollAgain, Return
  <2> QED BY <2>1, <2>2 DEF busVars
<1>7. CASE SendBootcode
  <2>1. /\ pc = "stage" /\ pc' = "close" /\ serial = 0
        /\ UNCHANGED <<faulty, device, alive, serial>>
        /\ next' = next \/ (next' = "second" /\ link)
    BY <1>7 DEF SendBootcode
  <2> QED BY <2>1
<1>8. CASE StartServer
  BY <1>8 DEF StartServer, busVars
<1>9. CASE Close
  <2>1. UNCHANGED busVars /\ pc' \in {"idle", "poll"}
    BY <1>9 DEF Close, StartTurn, Return
  <2> QED BY <2>1 DEF busVars
<1>10. CASE Timeout \/ Unknown
  BY <1>10 DEF Timeout, Unknown, serverFrame, busVars, pollVars
<1>11. CASE DropOut
  BY <1>11 DEF DropOut, serverFrame, busVars, pollVars
<1>12. ASSUME NEW f \in Files, GetFileSize(f) PROVE FinishInv'
  <2>1. UNCHANGED serverFrame /\ pc = "server" /\ (~faulty => pc' = pc)
    BY <1>12 DEF GetFileSize, Serving, EpWrite, Outcomes
  <2> QED BY <2>1 DEF serverFrame, busVars, pollVars
<1>13. CASE ReadFile
  <2>1. UNCHANGED serverFrame /\ pc = "server" /\ (~faulty => pc' = pc)
    BY <1>13 DEF ReadFile, Serving, EpWrite, Outcomes
  <2> QED BY <2>1 DEF serverFrame, busVars, pollVars
<1>14. CASE Done
  BY <1>14 DEF Done, Serving, pollVars
<1>15. CASE UNCHANGED vars
  BY <1>15 DEF vars, busVars, pollVars
<1> QED BY <1>1, <1>2, <1>3, <1>4, <1>5, <1>6, <1>7, <1>8, <1>9, <1>10, <1>11, <1>12,
           <1>13, <1>14, <1>15 DEF Next, Bus, Polling, Requests

\* Without faults boot() returns 0 only of a device that has said it is done.
THEOREM SuccessAlwaysFinished == Spec => SuccessMeansFinished
<1>1. Init => FinishInv
  BY DEF Init, FinishInv
<1>2. TypeOK /\ FinishInv /\ [Next]_vars
        => [Close /\ pc' = "idle" /\ ~faulty => next = "storage"]_vars
  BY DEF FinishInv, Close, StartTurn
<1> QED BY <1>1, <1>2, FinishStep, TypeCorrect, PTL DEF Spec, SuccessMeansFinished

=============================================================================
