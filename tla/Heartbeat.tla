----------------------------- MODULE Heartbeat -----------------------------
(***************************************************************************)
(* The heartbeats between a connection and its updater, in discrete time:  *)
(* two single-shot timers in two processes (UpdaterConnectionImpl and      *)
(* EdgeFirmwareUpdater) and a local socket.  Either main thread may come   *)
(* late to its timer; that of the updater is held by closeSession, which   *)
(* waits for the session thread, and when it is free again nothing says    *)
(* whether Qt turns to the expired timer or to the socket first.           *)
(***************************************************************************)
EXTENDS Naturals

CONSTANTS Period,      \* properties.heartbeatPeriod
          Latency,     \* heartbeatLatency
          MaxStart,    \* from the construction of the updater to the first contact
          MaxLate,     \* how late the client comes to its timer
          MaxTransit,  \* from _sendHeartbeat to the socket of the updater
          MaxHeld      \* time in closeSession between two heartbeats handled

ASSUME HeartbeatAssumption ==
    /\ Period \in Nat \ {0} /\ Latency \in Nat
    /\ MaxStart \in Nat /\ MaxLate \in Nat /\ MaxTransit \in Nat /\ MaxHeld \in Nat

VARIABLES
  client,   \* "connecting", "beating" or "gone"
  updater,  \* "up" or "ended"
  beat,     \* time since the client's timer was started (or the updater was made)
  wire,     \* how long ago the heartbeats on their way were sent
  arrived,  \* is there one in the socket of the updater?
  quiet,    \* time since the updater's timer was started
  closing,  \* is the updater's main thread in closeSession?
  held,     \* ... and for how long since the last heartbeat it has handled
  lost      \* time since the client is gone

vars == <<client, updater, beat, wire, arrived, quiet, closing, held, lost>>

TypeOK ==
    /\ client \in {"connecting", "beating", "gone"} /\ updater \in {"up", "ended"}
    /\ beat \in Nat /\ quiet \in Nat /\ held \in 0..MaxHeld /\ lost \in Nat
    /\ wire \subseteq 0..MaxTransit
    /\ arrived \in BOOLEAN /\ closing \in BOOLEAN

Init ==
    /\ client = "connecting" /\ updater = "up"
    /\ beat = 0 /\ wire = {} /\ arrived = FALSE
    /\ quiet = 0 /\ closing = FALSE /\ held = 0 /\ lost = 0

GenerousInterval == 2 * (Period + Latency)   \* mutant

\* _heartbeatTimer.setInterval of the updater.
Interval == Period + Latency

-----------------------------------------------------------------------------
(* The client *)

\* The replica is initialized: the client's timer starts with a whole period.
Connected ==
    /\ client = "connecting" /\ updater = "up"
    /\ client' = "beating" /\ beat' = 0
    /\ UNCHANGED <<updater, wire, arrived, quiet, closing, held, lost>>

SendHeartbeat ==
    /\ client = "beating" /\ beat >= Period
    /\ beat' = 0
    /\ wire' = wire \cup {0}
    /\ UNCHANGED <<client, updater, arrived, quiet, closing, held, lost>>

\* It crashes, is killed, or lets go of the updater without asking it to finish; a
\* connection made without heartbeats is as good as gone from the beginning.
Go ==
    /\ client # "gone"
    /\ client' = "gone" /\ lost' = 0
    /\ UNCHANGED <<updater, beat, wire, arrived, quiet, closing, held>>

-----------------------------------------------------------------------------
(* The updater *)

Arrive(age) ==
    /\ updater = "up"
    /\ wire' = wire \ {age} /\ arrived' = TRUE
    /\ UNCHANGED <<client, updater, beat, quiet, closing, held, lost>>

LazyHeartbeat ==   \* mutant: a timer that runs is not started again
    /\ updater = "up" /\ ~closing /\ arrived
    /\ arrived' = FALSE
    /\ UNCHANGED <<client, updater, beat, wire, quiet, closing, held, lost>>

AccumulatingHeartbeat ==   \* mutant: a period is added to what is left of the timer
    /\ updater = "up" /\ ~closing /\ arrived
    /\ arrived' = FALSE
    /\ quiet' = quiet - Interval /\ held' = 0
    /\ UNCHANGED <<client, updater, beat, wire, closing, lost>>

\* The slot heartbeat().
HandleHeartbeat ==
    /\ updater = "up" /\ ~closing /\ arrived
    /\ arrived' = FALSE
    /\ quiet' = 0 /\ held' = 0
    /\ UNCHANGED <<client, updater, beat, wire, closing, lost>>

\* _sessionThread.wait() begins, and ends when the session thread does.
CloseSession ==
    /\ updater = "up" /\ client # "connecting"
    /\ ~closing /\ closing' = TRUE
    /\ UNCHANGED <<client, updater, beat, wire, arrived, quiet, held, lost>>

SessionThreadEnds ==
    /\ closing /\ closing' = FALSE
    /\ UNCHANGED <<client, updater, beat, wire, arrived, quiet, held, lost>>

\* The timer has expired: finish().
Timeout ==
    /\ updater = "up" /\ ~closing /\ quiet >= Interval
    /\ updater' = "ended"
    /\ UNCHANGED <<client, beat, wire, arrived, quiet, closing, held, lost>>

-----------------------------------------------------------------------------
(* Time *)

\* Time does not pass by what is due: the first contact, a heartbeat to be sent,
\* carried or handled, and the timeout of a main thread that is free.
MayPass ==
    /\ updater = "up"
    /\ client = "connecting" => beat < MaxStart
    /\ client = "beating" => beat < Period + MaxLate
    /\ MaxTransit \notin wire
    /\ IF closing THEN held < MaxHeld ELSE ~arrived /\ quiet < Interval

Tick ==
    /\ MayPass
    /\ beat' = IF client = "gone" THEN beat ELSE beat + 1
    /\ lost' = IF client = "gone" THEN lost + 1 ELSE lost
    /\ wire' = {age + 1 : age \in wire}
    /\ quiet' = quiet + 1
    /\ held' = IF closing THEN held + 1 ELSE held
    /\ UNCHANGED <<client, updater, arrived, closing>>

Next == \/ Connected \/ SendHeartbeat \/ Go
        \/ (\E age \in wire : Arrive(age)) \/ HandleHeartbeat
        \/ CloseSession \/ SessionThreadEnds \/ Timeout
        \/ Tick

Spec == Init /\ [][Next]_vars

-----------------------------------------------------------------------------
(* Properties *)

\* The delays together stay below the latency the updater allows.
InTime == MaxStart + MaxLate + MaxTransit + MaxHeld < Latency

\* Then an updater never gives up a client that is there, from its start-up on and
\* whatever is in front of its timer when closeSession returns
\* (the timeout of EdgeFirmwareUpdater).
LivingIsKept == InTime /\ updater = "ended" => client = "gone"

\* An updater without a client ends by itself in a bounded time, though the last
\* heartbeats are still on their way and closeSession holds its main thread: it
\* has rights of an administrator that nobody else can take from it.
AbandonedEnds ==
    client = "gone" /\ updater = "up"
        => lost <= MaxTransit + MaxHeld + (Period + Latency) + MaxHeld
=============================================================================
