--------------------------- MODULE UpdateService ----------------------------
(***************************************************************************)
(* What the client library promises an application, without processes,     *)
(* threads, sessions or messages: one operation at a time; a flash writes  *)
(* nothing but the image it was asked to write, and only while it runs;    *)
(* and a flash with the checksum that reports success has left the whole   *)
(* image on the device.                                                    *)
(***************************************************************************)
CONSTANTS Images, NoImage

VARIABLES phase,     \* "Idle", "Initializing", "Updating" or "Lost"
          request,   \* the image last asked for, and whether to verify it
          outcome,   \* how that request ended, "none" before it has or when
                     \* it was cancelled
          held       \* the images the device holds, whole

vars == <<phase, request, outcome, held>>

Init ==
    /\ phase = "Idle"
    /\ request = [image |-> NoImage, checksum |-> FALSE]
    /\ outcome = "none"
    /\ held \subseteq Images

Initialize ==
    /\ phase = "Idle"
    /\ phase' = "Initializing"
    /\ UNCHANGED <<request, outcome, held>>

Initialized ==
    /\ phase = "Initializing"
    /\ phase' = "Idle"
    /\ UNCHANGED <<request, outcome, held>>

Request(image, checksum) ==
    /\ phase = "Idle"
    /\ phase' = "Updating"
    /\ request' = [image |-> image, checksum |-> checksum]
    /\ outcome' = "none"
    /\ UNCHANGED held

Write ==
    /\ phase = "Updating"
    /\ held' \in SUBSET (held \cup {request.image})
    /\ UNCHANGED <<phase, request, outcome>>

Conclude(result) ==
    /\ phase = "Updating"
    /\ (result = "true" /\ request.checksum) => request.image \in held
    /\ outcome' = result
    /\ phase' = "Idle"
    /\ UNCHANGED <<request, held>>

Lose ==
    /\ phase # "Lost"
    /\ phase' = "Lost"
    /\ UNCHANGED <<request, outcome, held>>

Next ==
    \/ Initialize
    \/ Initialized
    \/ \E image \in Images, checksum \in BOOLEAN : Request(image, checksum)
    \/ Write
    \/ \E result \in {"none", "true", "false"} : Conclude(result)
    \/ Lose

Spec == Init /\ [][Next]_vars
=============================================================================
