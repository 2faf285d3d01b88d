-------------------------- MODULE EdgeDeviceProofs --------------------------
(***************************************************************************)
(* Theorems about EdgeDevice, on every platform, for every limit of the    *)
(* polls and every number of initializations.                              *)
(***************************************************************************)
EXTENDS EdgeDevice, TLAPS

-----------------------------------------------------------------------------
\* Types

LEMMA InitTyping == Init => TypeOK
<1>1. 0 \in 0..(MaxPolls - 1) /\ 0 \in 0..MaxInits
  BY EdgeDeviceAssumption
<1> QED BY <1>1 DEF Init, TypeOK

LEMMA SystemTyping ==
    ASSUME TypeOK, Bus \/ Enumerate \/ Automount
    PROVE  TypeOK'
<1> USE DEF TypeOK, resultVars, systemVars, pollVars
<1>1. CASE Bus
  <2>1. /\ edge' \in {"absent", "usb", "storage"}
        /\ node' = FALSE /\ scanned' = FALSE /\ mounts' = {} /\ stuck' = FALSE
        /\ UNCHANGED <<platform, pc, pollVars, mntpt, resultVars>>
    BY <1>1 DEF Bus
  <2> QED BY <2>1
<1>2. CASE Enumerate
  <2>1. /\ node' \in BOOLEAN /\ scanned' \in BOOLEAN
        /\ UNCHANGED <<platform, edge, mounts, pc, pollVars, mntpt, resultVars, stuck>>
    BY <1>2 DEF Enumerate
  <2> QED BY <2>1
<1>3. CASE Automount
  <2>1. mounts' \subseteq {"auto", "temp"}
    BY <1>3 DEF Automount
  <2> QED BY <1>3, <2>1 DEF Automount
<1> QED BY <1>1, <1>2, <1>3

LEMMA StartTyping ==
    ASSUME TypeOK, BeginInitialize \/ IsPlugged \/ IsListed \/ Initialize \/ Boot
    PROVE  TypeOK'
<1> USE DEF TypeOK, resultVars, systemVars, pollVars
<1>1. CASE BeginInitialize
  <2>1. inits' \in 0..MaxInits
    BY <1>1, EdgeDeviceAssumption DEF BeginInitialize
  <2> QED BY <1>1, <2>1 DEF BeginInitialize
<1>2. CASE IsPlugged
  BY <1>2 DEF IsPlugged
<1>3. CASE IsListed
  BY <1>3 DEF IsListed, Finish
<1>4. CASE Initialize
  <2>1. polls' \in 0..(MaxPolls - 1) /\ pc' \in {"poll", "boot"}
    BY <1>4, EdgeDeviceAssumption DEF Initialize
  <2> QED BY <1>4, <2>1 DEF Initialize
<1>5. CASE Boot
  BY <1>5 DEF Boot, Finish
<1> QED BY <1>1, <1>2, <1>3, <1>4, <1>5

LEMMA PollsTyping ==
    ASSUME TypeOK, FindDevice \/ WaitForAutomount
    PROVE  TypeOK'
<1> USE DEF TypeOK, resultVars, systemVars, pollVars
<1>0. 0 \in 0..(MaxPolls - 1)
  BY EdgeDeviceAssumption
<1>1. CASE FindDevice
  <2>1. polls' \in {0, polls} \/ (polls + 1 < MaxPolls /\ polls' = polls + 1)
    BY <1>1 DEF FindDevice, Poll, WakeUp
  <2>2. polls' \in 0..(MaxPolls - 1)
    BY <1>0, <2>1, EdgeDeviceAssumption
  <2>3. asleep' \in BOOLEAN
    BY <1>1 DEF FindDevice, Poll
  <2>4. /\ device' \in BOOLEAN /\ pc' \in {"poll", "partition", "idle"}
        /\ status' \in {status, "Failed"}
    BY <1>1 DEF FindDevice, Poll, WakeUp, PollOn, Finish
  <2> QED BY <1>1, <2>2, <2>3, <2>4 DEF FindDevice
<1>2. CASE WaitForAutomount
  <2>1. polls' \in {0, polls} \/ (polls + 1 < MaxPolls /\ polls' = polls + 1)
    BY <1>2 DEF WaitForAutomount, Poll, WakeUp
  <2>2. polls' \in 0..(MaxPolls - 1)
    BY <1>0, <2>1, EdgeDeviceAssumption
  <2>3. asleep' \in BOOLEAN
    BY <1>2 DEF WaitForAutomount, Poll
  <2>4. device' = device /\ status' = status /\ pc' \in {"automount", "parse", "mount"}
    BY <1>2 DEF WaitForAutomount, Poll, WakeUp, PollOn
  <2>5. mntpt' \in {"none", "auto", "temp"}
    BY <1>2 DEF WaitForAutomount
  <2> QED BY <1>2, <2>2, <2>3, <2>4, <2>5 DEF WaitForAutomount
<1> QED BY <1>1, <1>2

LEMMA VersionTyping ==
    ASSUME TypeOK, FindPartition \/ TemporaryMount \/ Parse \/ Umount
    PROVE  TypeOK'
<1> USE DEF TypeOK, resultVars, systemVars, pollVars
<1>1. CASE FindPartition
  BY <1>1 DEF FindPartition, Versioned, Finish
<1>2. CASE TemporaryMount
  <2>1. /\ mounts' \subseteq {"auto", "temp"} /\ mntpt' \in {mntpt, "temp"}
        /\ pc' \in {"crashed", "parseTemp", "idle"}
        /\ version' \in {version, "Undefined"} /\ status' \in {status, "Succeed"}
    BY <1>2 DEF TemporaryMount, Versioned, Finish
  <2> QED BY <1>2, <2>1 DEF TemporaryMount
<1>3. CASE Parse
  <2>1. version' \in {"Undefined", "v"}
    BY <1>3 DEF Parse
  <2>2. pc' \in {"umount", "idle"} /\ status' \in {status, "Succeed"}
    BY <1>3 DEF Parse, Finish
  <2> QED BY <1>3, <2>1, <2>2 DEF Parse
<1>4. CASE Umount
  <2>1. mounts' \subseteq {"auto", "temp"} /\ stuck' \in BOOLEAN
    <3>1. \/ mounts' = mounts \ {"temp"} /\ stuck' = stuck
          \/ mounts' = mounts /\ stuck' = ("temp" \in mounts)
      BY <1>4, Zenon DEF Umount
    <3>2. ("temp" \in mounts) \in BOOLEAN
      OBVIOUS
    <3>3. stuck' \in BOOLEAN
      BY <3>1, <3>2, Zenon
    <3> QED BY <3>1, <3>3
  <2>2. /\ pc' = "idle" /\ status' = "Succeed"
        /\ UNCHANGED <<platform, systemVars, pollVars, mntpt, device, version, inits>>
    BY <1>4 DEF Umount, Finish
  <2> QED BY <2>1, <2>2
<1> QED BY <1>1, <1>2, <1>3, <1>4

\* Every reachable state is well typed; a poll never sleeps longer than its limit.
THEOREM TypeCorrect == Spec => []TypeOK
<1>1. TypeOK /\ [Next]_vars => TypeOK'
  <2> SUFFICES ASSUME TypeOK, [Next]_vars PROVE TypeOK'
    OBVIOUS
  <2>1. CASE UNCHANGED vars
    BY <2>1 DEF TypeOK, vars, systemVars, resultVars, pollVars
  <2> QED BY <2>1, SystemTyping, StartTyping, PollsTyping, VersionTyping DEF Next, Session
<1> QED BY <1>1, InitTyping, PTL DEF Spec

-----------------------------------------------------------------------------
\* The temporary mount

\* What makes TemporaryMountUndone inductive: the temporary mount is there while
\* its version is read and undone, and otherwise only when umount has failed.
MountInv == "temp" \in mounts => stuck \/ pc \in {"parseTemp", "umount"}

LEMMA MountStep ==
    ASSUME MountInv, [Next]_vars
    PROVE  MountInv'
<1> USE DEF MountInv, systemVars, resultVars
<1>1. CASE Bus
  BY <1>1 DEF Bus
<1>2. CASE Enumerate \/ Automount
  BY <1>2 DEF Enumerate, Automount
<1>3. CASE BeginInitialize \/ IsPlugged \/ IsListed \/ Initialize \/ Boot
  BY <1>3 DEF BeginInitialize, IsPlugged, IsListed, Initialize, Boot, Finish
<1>4. CASE FindDevice \/ FindPartition \/ WaitForAutomount
  <2>1. UNCHANGED <<mounts, stuck>> /\ pc \notin {"parseTemp", "umount"}
    BY <1>4 DEF FindDevice, FindPartition, WaitForAutomount
  <2> QED BY <2>1
<1>5. CASE TemporaryMount
  BY <1>5 DEF TemporaryMount, Versioned, Finish
<1>6. CASE Parse
  BY <1>6 DEF Parse, Finish
<1>7. CASE Umount
  BY <1>7 DEF Umount, Finish
<1>8. CASE UNCHANGED vars
  BY <1>8 DEF vars
<1> QED BY <1>1, <1>2, <1>3, <1>4, <1>5, <1>6, <1>7, <1>8 DEF Next, Session

\* An initialization that has ended leaves its temporary mount behind only when
\* the system refused to unmount it.
THEOREM MountAlwaysUndone == Spec => []TemporaryMountUndone
<1>1. Init => MountInv
  BY DEF Init, MountInv
<1>2. MountInv => TemporaryMountUndone
  BY DEF MountInv, TemporaryMountUndone
<1> QED BY <1>1, <1>2, MountStep, PTL DEF Spec
=============================================================================
