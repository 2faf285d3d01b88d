----------------------------- MODULE UpdaterIPC -----------------------------
(***************************************************************************)
(* The remote object EdgeFirmwareUpdaterIPC between the application that   *)
(* links the client library and the privileged updater process.  A slot    *)
(* invoked on the replica is a message to the updater, a signal of the     *)
(* source a message to the client; each direction keeps its order.  The    *)
(* signals that no state depends on (progressChanged, firmwareVersion,     *)
(* logMessage, cancelled) are left out, and so is the slot heartbeat,      *)
(* which only restarts a timer of the updater.                             *)
(***************************************************************************)
EXTENDS Naturals, Sequences

CONSTANTS Images,   \* the firmware files an application may ask to write
          NoImage   \* the argument of a slot that takes none; also a device
                    \* block that holds a block of no image

ASSUME NoImageAssumption == NoImage \notin Images

SessionSlots == {"openSession", "closeSession"}
WorkSlots    == {"initializeEdgeDevice", "flash", "checkOnCorrectness"}
Slots        == SessionSlots \cup WorkSlots \cup {"cancel", "finish"}
Calls        == [slot : Slots, image : Images \cup {NoImage}]

\* shared.h, OperationStatus
Statuses == {"Succeed", "Failed", "Cancelled"}
Answers  == {"initializingFinished", "flashingFinished",
             "checkOnCorrectnessFinished"}
Signals  == [signal : Answers, status : Statuses]

VARIABLES process,    \* the updater process: "running", "exited" or "crashed"
          toServer,   \* slots invoked on the replica and not yet run
          toClient    \* signals of the source not yet delivered

channels == <<process, toServer, toClient>>

Running == process = "running"

IPCTypeOK ==
    /\ process \in {"running", "exited", "crashed"}
    /\ toServer \in Seq(Calls)
    /\ toClient \in Seq(Signals)

IPCInit ==
    /\ process = "running"
    /\ toServer = <<>>
    /\ toClient = <<>>

Call(slot) == [slot |-> slot, image |-> NoImage]

\* A slot invoked on a replica whose source is gone is lost.
Invoke(calls) == toServer' = IF Running THEN toServer \o calls ELSE toServer

\* The updater process ends.  What it has not read is lost, and the socket
\* delivers only a prefix of what it has sent.
Die(how) ==
    /\ process' = how
    /\ toServer' = <<>>
    /\ \E n \in 0..Len(toClient) : toClient' = SubSeq(toClient, 1, n)
=============================================================================
