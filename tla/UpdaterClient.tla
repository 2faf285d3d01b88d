--------------------------- MODULE UpdaterClient ----------------------------
(***************************************************************************)
(* client::Updater and client::UpdaterImpl: the state machine an           *)
(* application drives (initializeDevice, flash, cancel, finish), the       *)
(* slots each operation invokes on the replica, and the one-shot handlers  *)
(* that _flash connects to the answers.  A signal is dispatched to the     *)
(* handlers connected when it arrives, one after the other; between two    *)
(* of them an application slot may call back into the updater.             *)
(***************************************************************************)
EXTENDS UpdaterIPC

CONSTANTS MaxCalls,     \* bound: API calls an application makes
          Reentrant,    \* may the application call from inside a handler?
          Disciplined   \* does it flash only a device whose initialization
                        \* was reported successful?

ASSUME ClientAssumption ==
    /\ MaxCalls \in Nat
    /\ Reentrant \in BOOLEAN
    /\ Disciplined \in BOOLEAN

VARIABLES state,          \* Updater::_state
          sessionOpened,  \* UpdaterImpl::_sessionOpened
          handlers,       \* the lambdas _flash has connected to each answer
          dispatch,       \* the handlers a signal being delivered still runs
          request,        \* the firmware last asked for, and its checksum flag
          outcome,        \* the last deviceFlashed since that request
          ready,          \* deviceInitialized(true) since initializeDevice
          cancelAsked,    \* was cancel called since initializeDevice?
          calls           \* number of API calls made

clientVars == <<state, sessionOpened, handlers, dispatch, request, outcome,
                ready, cancelAsked, calls>>

Updating     == {"Flashing", "ComputingChecksum"}
Busy         == Updating \cup {"Initializing"}
FlashAnswers == {"flashingFinished", "checkOnCorrectnessFinished"}
HandlerKinds == {"check", "finish"}   \* onFlashingFinished, onUpdatingFinished

ClientTypeOK ==
    /\ state \in Busy \cup {"Idle", "Invalid"}
    /\ sessionOpened \in BOOLEAN
    /\ handlers \in [FlashAnswers -> Seq(HandlerKinds)]
    /\ dispatch \in Seq([handler : HandlerKinds, status : Statuses])
    /\ request \in [image : Images \cup {NoImage}, checksum : BOOLEAN]
    /\ outcome \in {"none", "true", "false"}
    /\ ready \in BOOLEAN
    /\ cancelAsked \in BOOLEAN
    /\ calls \in 0..MaxCalls

\* The replica is valid when the object is made.
ClientInit ==
    /\ state = "Idle"
    /\ sessionOpened = FALSE
    /\ handlers = [a \in FlashAnswers |-> <<>>]
    /\ dispatch = <<>>
    /\ request = [image |-> NoImage, checksum |-> FALSE]
    /\ outcome = "none"
    /\ ready = FALSE
    /\ cancelAsked = FALSE
    /\ calls = 0

-----------------------------------------------------------------------------
\* What the application calls

ApplicationCalls ==
    /\ calls < MaxCalls
    /\ Reentrant \/ dispatch = <<>>
    /\ calls' = calls + 1

\* Mutant of IsValid: the loss of the updater is noticed only when it is idle.
IsValidWhenIdle == state = "Idle"

\* Mutant of IsIdle: an updater at work passes for an idle one.
IsIdleOrBusy == state # "Invalid"

\* Updater::isValid and isIdle: the preconditions of the operations.
IsValid == state # "Invalid"
IsIdle  == state = "Idle"

\* Mutant of InitializeDeviceImpl: the new session is opened before the old
\* one is closed.
InitializeDeviceImplSwapped ==
    /\ Invoke(<<Call("openSession"), Call("closeSession"),
                Call("initializeEdgeDevice")>>)
    /\ sessionOpened' = TRUE
    /\ state' = "Initializing"

InitializeDeviceImpl ==
    /\ Invoke(<<Call("closeSession"), Call("openSession"),
                Call("initializeEdgeDevice")>>)
    /\ sessionOpened' = TRUE
    /\ state' = "Initializing"

InitializeDevice ==
    /\ ApplicationCalls
    /\ IsIdle
    /\ InitializeDeviceImpl
    /\ ready' = FALSE
    /\ cancelAsked' = FALSE
    /\ UNCHANGED <<process, toClient, handlers, dispatch, request, outcome>>

\* Mutant of ConnectHandlers: onUpdatingFinished is connected to the answer to
\* the flash with the checksum, too.
ConnectHandlersToFlash(checksum) ==
    handlers' = [handlers EXCEPT !["flashingFinished"] =
                    @ \o IF checksum THEN <<"check", "finish">> ELSE <<"finish">>]

\* The handlers of a flash: with the checksum the answer to the flash is for
\* onFlashingFinished and the answer to the check for onUpdatingFinished.
ConnectHandlers(checksum) ==
    handlers' =
        IF checksum
        THEN [handlers EXCEPT !["flashingFinished"] = Append(@, "check"),
                    !["checkOnCorrectnessFinished"] = Append(@, "finish")]
        ELSE [handlers EXCEPT !["flashingFinished"] = Append(@, "finish")]

FlashImpl(image, checksum) ==
    /\ sessionOpened
    /\ ConnectHandlers(checksum)
    /\ Invoke(<<[slot |-> "flash", image |-> image]>>)
    /\ state' = "Flashing"

Flash(image, checksum) ==
    /\ ApplicationCalls
    /\ IsIdle
    /\ Disciplined => ready
    /\ FlashImpl(image, checksum)
    /\ request' = [image |-> image, checksum |-> checksum]
    /\ outcome' = "none"
    /\ UNCHANGED <<process, toClient, sessionOpened, dispatch, ready,
                   cancelAsked>>

Cancel ==
    /\ ApplicationCalls
    /\ IsValid
    /\ Invoke(<<Call("cancel")>>)
    /\ cancelAsked' = TRUE
    /\ UNCHANGED <<process, toClient, state, sessionOpened, handlers,
                   dispatch, request, outcome, ready>>

\* finish, and the destructor of an updater that is still valid.
Finish ==
    /\ ApplicationCalls
    /\ IsValid
    /\ Invoke(<<Call("finish")>>)
    /\ UNCHANGED <<process, toClient, state, sessionOpened, handlers,
                   dispatch, request, outcome, ready, cancelAsked>>

-----------------------------------------------------------------------------
\* What the event loop of the application delivers

HandleInitializingFinished ==
    /\ dispatch = <<>>
    /\ toClient # <<>>
    /\ Head(toClient).signal = "initializingFinished"
    /\ toClient' = Tail(toClient)
    /\ ready' = (Head(toClient).status = "Succeed")
    /\ state' = "Idle"
    /\ UNCHANGED <<process, toServer, sessionOpened, handlers, dispatch,
                   request, outcome, cancelAsked, calls>>

\* The answer reaches every handler connected to it; each deletes its own
\* connection before it does anything else.
HandleFlashAnswer ==
    /\ dispatch = <<>>
    /\ toClient # <<>>
    /\ LET answer    == Head(toClient)
           connected == handlers[answer.signal]
       IN  /\ answer.signal \in FlashAnswers
           /\ dispatch' = [i \in DOMAIN connected |->
                 [handler |-> connected[i], status |-> answer.status]]
           /\ handlers' = [handlers EXCEPT ![answer.signal] = <<>>]
    /\ toClient' = Tail(toClient)
    /\ UNCHANGED <<process, toServer, state, sessionOpened, request, outcome,
                   ready, cancelAsked, calls>>

\* Mutant of ReportFlashed: the client forgets that it closed the session.
ReportFlashedKeepingSession(success) ==
    /\ outcome' = success
    /\ Invoke(<<Call("closeSession")>>)
    /\ UNCHANGED sessionOpened

\* emit deviceFlashed, whose first receiver closes the session.
ReportFlashed(success) ==
    /\ outcome' = success
    /\ Invoke(<<Call("closeSession")>>)
    /\ sessionOpened' = FALSE

OnFlashingFinished(status) ==
    \/ /\ status = "Succeed"
       /\ Invoke(<<Call("checkOnCorrectness")>>)
       /\ state' = "ComputingChecksum"
       /\ UNCHANGED <<sessionOpened, outcome>>
    \/ /\ status = "Failed"
       /\ ReportFlashed("false")
       /\ state' = "Idle"
    \/ /\ status = "Cancelled"
       /\ UNCHANGED <<toServer, state, sessionOpened, outcome>>

OnUpdatingFinished(status) ==
    /\ \/ status = "Succeed" /\ ReportFlashed("true")
       \/ status = "Failed" /\ ReportFlashed("false")
       \/ status = "Cancelled" /\ UNCHANGED <<toServer, sessionOpened, outcome>>
    /\ state' = "Idle"

RunHandler ==
    /\ dispatch # <<>>
    /\ dispatch' = Tail(dispatch)
    /\ \/ /\ Head(dispatch).handler = "check"
          /\ OnFlashingFinished(Head(dispatch).status)
       \/ /\ Head(dispatch).handler = "finish"
          /\ OnUpdatingFinished(Head(dispatch).status)
    /\ UNCHANGED <<process, toClient, handlers, request, ready, cancelAsked,
                   calls>>

\* The replica leaves the state Valid when the connection to the source is
\* gone, after the signals that were sent.
ReplicaLost ==
    /\ ~Running
    /\ toClient = <<>>
    /\ dispatch = <<>>
    /\ IsValid
    /\ state' = "Invalid"
    /\ UNCHANGED <<channels, sessionOpened, handlers, dispatch, request,
                   outcome, ready, cancelAsked, calls>>

Application ==
    \/ InitializeDevice
    \/ \E image \in Images, checksum \in BOOLEAN : Flash(image, checksum)
    \/ Cancel
    \/ Finish

ClientLoop ==
    \/ HandleInitializingFinished
    \/ HandleFlashAnswer
    \/ RunHandler
    \/ ReplicaLost
=============================================================================
