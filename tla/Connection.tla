----------------------------- MODULE Connection -----------------------------
(***************************************************************************)
(* client::UpdaterConnection and UpdaterConnectionImpl: an application     *)
(* starts the privileged updater as a child process, connects to its       *)
(* remote object, keeps it alive with heartbeats and severs the            *)
(* connection again.  The end of the child is seen twice and in either     *)
(* order, by the process object (finished) and by the replica (it leaves   *)
(* the state Valid); which of the two the connection listens to changes    *)
(* as it is established and severed.  Time is left out: an active timer    *)
(* may fire at any moment.                                                 *)
(***************************************************************************)
EXTENDS Naturals

CONSTANTS Heartbeats,   \* Config::enableHeartbeat
          MaxStarts     \* bound: processes an application starts

ASSUME ConnectionAssumption ==
    /\ Heartbeats \in BOOLEAN
    /\ MaxStarts \in Nat \ {0}

VARIABLES
  conn,         \* UpdaterConnection::_state
  child,        \* the process of _proc: "none", "asking" the user for
                \* privileges, "serving", "ending" (the updater has ended, the
                \* shell that ran it has not), "exited" or "crashed"
  unreported,   \* is its finished signal still to be delivered?
  watched,      \* is finished connected to _handleProcessFinished?
  replica,      \* the replica acquired for it: "none", "failed", "acquired",
                \* "answered" (the source has sent its state), "valid", "lost"
  held,         \* is _replica set?
  listened,     \* is _replicaStateConnection connected?
  updater,      \* _updater: "none", "valid" or "invalid"
  heartbeat,    \* is _heartbeatTimer active?
  disconnect,   \* is _disconnectTimer active?
  asked,        \* was the process asked to finish?
  starts,       \* number of processes started
  severed,      \* the one that sever was last called for
  client        \* "running", "destroying" (in ~UpdaterConnectionImpl), "gone"
                \* or "crashed"

childVars   == <<child, unreported, watched, asked, starts>>
replicaVars == <<replica, held, listened, updater>>
timerVars   == <<heartbeat, disconnect, severed>>
vars        == <<conn, childVars, replicaVars, timerVars, client>>

States == {"Disconnecting", "Disconneted", "Aborted", "Connecting",
           "Established", "Errored"}

TypeOK ==
    /\ conn \in States
    /\ child \in {"none", "asking", "serving", "ending", "exited", "crashed"}
    /\ replica \in {"none", "failed", "acquired", "answered", "valid", "lost"}
    /\ updater \in {"none", "valid", "invalid"}
    /\ unreported \in BOOLEAN /\ watched \in BOOLEAN /\ asked \in BOOLEAN
    /\ held \in BOOLEAN /\ listened \in BOOLEAN
    /\ heartbeat \in BOOLEAN /\ disconnect \in BOOLEAN
    /\ starts \in 0..MaxStarts /\ severed \in 0..MaxStarts
    /\ client \in {"running", "destroying", "gone", "crashed"}

Init ==
    /\ conn = "Disconneted"
    /\ child = "none" /\ replica = "none" /\ updater = "none"
    /\ unreported = FALSE /\ watched = FALSE /\ asked = FALSE
    /\ held = FALSE /\ listened = FALSE
    /\ heartbeat = FALSE /\ disconnect = FALSE
    /\ starts = 0 /\ severed = 0
    /\ client = "running"

-----------------------------------------------------------------------------
\* The child process

Runs == child \in {"asking", "serving", "ending"}

\* QProcess::kill: nothing happens to a process that does not run.
Kill ==
    /\ child' = IF Runs THEN "crashed" ELSE child
    /\ unreported' = (unreported \/ Runs)

\* Mutant of Watch: finished is not connected.
WatchNothing == UNCHANGED watched

\* Mutant of Unwatch: finished stays connected.
WatchOn == UNCHANGED watched

\* finished is connected to _handleProcessFinished, or disconnected from it.
Watch   == watched' = TRUE
Unwatch == watched' = FALSE

\* Mutant of Ended: a state that UpdaterConnection does not have.
EndedMisnamed == IF child = "crashed" THEN "Aborted" ELSE "Disconnected"

\* The state that _handleProcessFinished makes of the exit status.
Ended == IF child = "crashed" THEN "Aborted" ELSE "Disconneted"

\* The user gives the password.  By then the node has seen the socket of a
\* former updater end.
PasswordGiven ==
    /\ child = "asking"
    /\ updater # "valid"
    /\ child' = "serving"
    /\ UNCHANGED <<conn, unreported, watched, asked, starts, replicaVars,
                   timerVars, client>>

\* The updater sends the state of its remote object to the replica.
SourceAnswers ==
    /\ child = "serving"
    /\ replica = "acquired"
    /\ replica' = "answered"
    /\ UNCHANGED <<conn, childVars, held, listened, updater, timerVars, client>>

\* The user refuses, or the updater returns or crashes, and its shell with it
\* or after it.
ProcessEnds ==
    /\ Runs
    /\ \/ child' \in {"exited", "crashed"} /\ unreported' = TRUE
       \/ child = "serving" /\ child' = "ending" /\ UNCHANGED unreported
    /\ UNCHANGED <<conn, watched, asked, starts, replicaVars, timerVars,
                   client>>

-----------------------------------------------------------------------------
\* What the application calls

MayEstablish ==
    /\ client = "running"
    /\ conn \notin {"Established", "Disconnecting", "Connecting"}

\* The updater executable is missing.
EstablishErrored ==
    /\ MayEstablish
    /\ conn' = "Errored"
    /\ UNCHANGED <<childVars, replicaVars, timerVars, client>>

\* The former process object is deleted: it kills its process, and reports
\* that to the handler if it is connected.
Establish ==
    /\ MayEstablish
    /\ starts < MaxStarts
    /\ starts' = starts + 1
    /\ conn' = IF Runs /\ watched THEN "Aborted" ELSE "Connecting"
    /\ heartbeat' = (heartbeat /\ ~(Runs /\ watched))
    /\ child' = "asking"
    /\ replica' = "none"
    /\ unreported' = FALSE
    /\ asked' = FALSE
    /\ Watch
    /\ UNCHANGED <<held, listened, updater, disconnect, severed, client>>

Sever ==
    /\ client = "running"
    /\ conn = "Established"
    /\ conn' = "Disconnecting"
    /\ listened' = FALSE
    /\ Watch
    /\ asked' = (asked \/ updater = "valid")
    /\ held' = FALSE
    /\ disconnect' = TRUE
    /\ severed' = starts
    /\ UNCHANGED <<child, unreported, starts, replica, updater, heartbeat,
                   client>>

\* Mutant of Abandon: the process is silenced and not killed.
Silence == watched' = FALSE /\ UNCHANGED <<child, unreported>>

\* The signals of the process are blocked, and it is killed.
Abandon == watched' = FALSE /\ Kill

\* ~UpdaterConnectionImpl up to its wait for the process: a severed one is
\* waited for, one that is served is asked to finish, any other is killed.
Destroy ==
    /\ client = "running"
    /\ client' = "destroying"
    /\ heartbeat' = FALSE
    /\ disconnect' = FALSE
    /\ \/ /\ conn = "Disconnecting"
          /\ UNCHANGED <<child, unreported, watched, asked, listened>>
       \/ /\ conn # "Disconnecting"
          /\ held /\ replica = "valid"
          /\ listened' = FALSE
          /\ asked' = TRUE
          /\ UNCHANGED <<child, unreported, watched>>
       \/ /\ conn # "Disconnecting"
          /\ ~(held /\ replica = "valid")
          /\ Abandon
          /\ UNCHANGED <<asked, listened>>
    /\ UNCHANGED <<conn, starts, replica, held, updater, severed>>

DestroyReturns ==
    /\ client = "destroying"
    /\ ~Runs
    /\ client' = "gone"
    /\ UNCHANGED <<conn, childVars, replicaVars, timerVars>>

-----------------------------------------------------------------------------
\* What the event loop delivers, also while the destructor waits

Delivers == client \in {"running", "destroying"}

\* started: a replica of the new process is acquired, or the node refuses.
ConnectToUpdaterNode ==
    /\ Delivers
    /\ child # "none"
    /\ replica = "none"
    /\ \/ replica' = "acquired" /\ held' = TRUE /\ UNCHANGED conn
       \/ replica' = "failed" /\ conn' = "Errored" /\ UNCHANGED held
    /\ UNCHANGED <<childVars, listened, updater, timerVars, client>>

\* The state of the source arrives; it may have been sent by a process that
\* has ended since.
ReplicaInitialized ==
    /\ Delivers
    /\ replica = "answered"
    /\ replica' = "valid"
    /\ heartbeat' = Heartbeats
    /\ updater' = "valid"
    /\ conn' = "Established"
    /\ Unwatch
    /\ listened' = TRUE
    /\ UNCHANGED <<child, unreported, asked, starts, held, disconnect,
                   severed, client>>

\* finished, after started.
DeliverFinished ==
    /\ Delivers
    /\ unreported
    /\ replica # "none"
    /\ unreported' = FALSE
    /\ \/ /\ watched
          /\ conn' = Ended
          /\ heartbeat' = FALSE
       \/ ~watched /\ UNCHANGED <<conn, heartbeat>>
    /\ UNCHANGED <<child, watched, asked, starts, replicaVars, disconnect,
                   severed, client>>

\* stateChanged: the socket of an updater that has ended is closed.  Without
\* a valid replica of its own child, it is the former one that is lost.
DeliverReplicaLost ==
    /\ Delivers
    /\ updater = "valid"
    /\ replica = "valid" => child # "serving"
    /\ replica' = IF replica = "valid" THEN "lost" ELSE replica
    /\ updater' = "invalid"
    /\ conn' = IF listened THEN "Aborted" ELSE conn
    /\ UNCHANGED <<childVars, held, listened, timerVars, client>>

\* The heartbeat timer is started again and the slot is invoked on _replica,
\* a null pointer after sever.
SendHeartbeat ==
    /\ Delivers
    /\ heartbeat
    /\ client' = IF held THEN client ELSE "crashed"
    /\ UNCHANGED <<conn, childVars, replicaVars, timerVars>>

DisconnectTimeout ==
    /\ client = "running"
    /\ disconnect
    /\ disconnect' = FALSE
    /\ IF conn = "Disconneted" THEN UNCHANGED <<child, unreported>> ELSE Kill
    /\ UNCHANGED <<conn, watched, asked, starts, replicaVars, heartbeat,
                   severed, client>>

Application ==
    \/ Establish
    \/ EstablishErrored
    \/ Sever
    \/ Destroy

EventLoop ==
    \/ ConnectToUpdaterNode
    \/ ReplicaInitialized
    \/ DeliverFinished
    \/ DeliverReplicaLost
    \/ DisconnectTimeout
    \/ DestroyReturns

Child == PasswordGiven \/ SourceAnswers \/ ProcessEnds

Next == Application \/ EventLoop \/ SendHeartbeat \/ Child

\* An updater that was asked to finish does, and so does one that hears no
\* heartbeat, and then its shell; no other process need ever end.
Unheard == ~(heartbeat /\ held /\ Delivers)
MustEnd == child = "ending" \/ (child = "serving" /\ (asked \/ Unheard))

Fairness ==
    /\ WF_vars(EventLoop)
    /\ WF_vars(MustEnd /\ ProcessEnds)

Spec     == Init /\ [][Next]_vars
FairSpec == Spec /\ Fairness

-----------------------------------------------------------------------------
\* Correctness

\* Whatever phase the connection is in, it listens to the signal that will
\* tell it of the end of its process, and an established one has all that
\* its operations use: a replica, a valid updater unless the loss of it is
\* the next thing it hears, and the heartbeat that keeps the updater alive.
EndIsListenedTo ==
    client = "running" =>
      /\ conn \in {"Connecting", "Disconnecting"} => watched
      /\ conn = "Established" =>
           /\ listened /\ ~watched
           /\ held /\ replica = "valid" /\ updater = "valid"
           /\ heartbeat = Heartbeats

\* An application is told that it is disconnected only when it asked to be, or
\* was not connected yet: an updater that ends by itself is an abort.
LossIsAbort ==
    [][conn = "Established" => conn' \in {"Established", "Disconnecting", "Aborted"}]_vars

\* A connection, established or not yet, whose updater has ended says so.
LossReported ==
    (conn \in {"Connecting", "Established"} /\ child \notin {"asking", "serving"})
      ~> (conn \notin {"Connecting", "Established"} \/ client # "running")

\* A severed connection leaves the state Disconnecting, by itself or by force,
\* when its process had not been reported as ended before.
SeverEnds ==
    (conn = "Disconnecting" /\ (Runs \/ unreported))
      ~> (conn # "Disconnecting" \/ client # "running")

\* The destructor, which waits for the process, returns.
DestructorReturns == (client = "destroying") ~> (client = "gone")

-----------------------------------------------------------------------------
\* What tests and messages of the code say, and does not hold (README, section 6)

\* UpdaterConnection_test.cpp, case_connection: after sever the signal
\* disconnected arrives, so a connection does not stay Disconnecting.
SeverAlwaysEnds ==
    (conn = "Disconnecting") ~> (conn # "Disconnecting" \/ client # "running")

\* UpdaterConnection_test.cpp, case_connection: the updater is invalid after
\* disconnect.
DisconnetedMeansInvalid == conn = "Disconneted" => updater # "valid"

\* UpdaterConnection_test.cpp, case_connection, too: the application lives on
\* after sever.
HeartbeatHasReplica == client # "crashed"

\* UpdaterConnectionImpl.cpp: "Can not perform soft disconnect. Kill process
\* forcefully." - the process killed is the one that was severed.
SeveredProcessKilled ==
    [][(disconnect /\ ~disconnect' /\ child' # child /\ client' = client)
         => severed = starts]_vars
=============================================================================
