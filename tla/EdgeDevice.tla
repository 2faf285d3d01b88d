----------------------------- MODULE EdgeDevice ----------------------------
(***************************************************************************)
(* edge::EdgeManagerImpl and EdgeDeviceImpl as the update session uses     *)
(* them: is an Edge there, boot it as mass storage (RpiBoot), poll until   *)
(* the system lists it, find its boot partition, wait for the system to    *)
(* mount it or mount it in a temporary directory, read the version of the  *)
(* firmware and undo the mount.  The Edge may come and go, and the system  *)
(* mounts and unmounts the partition, between any two steps.               *)
(***************************************************************************)
EXTENDS Naturals

CONSTANTS Platforms,   \* the native layers checked
          MaxPolls,    \* pollTime / period of util::poll
          MaxInits     \* bound: initializations

ASSUME EdgeDeviceAssumption ==
    /\ Platforms \subseteq {"linux", "macx", "windows"}
    /\ MaxPolls \in Nat \ {0} /\ MaxInits \in Nat

VARIABLES
  platform,
  edge,      \* on the bus: "absent", "usb" (to be booted) or "storage"
  node,      \* does the system have a disk for it, one that can be opened?
  scanned,   \* ... and know its partitions?
  mounts,    \* where the boot partition is mounted: "auto", "temp"
  pc,        \* "idle", "plugged", "listed", "initialize", "boot", "poll",
             \* "partition", "automount", "mount", "parse", "parseTemp", "umount",
             \* "crashed"
  polls,     \* periods the present util::poll has slept
  asleep,    \* is it in QThread::msleep, after a call that found nothing?
  device,    \* _sessionData.edgeDevice is set
  mntpt,     \* the mount point the version is read from
  version,   \* "none", "Undefined" or "v"
  status,    \* the last initializingFinished: "none", "Failed", "Succeed"
  stuck,     \* has the temporary mount resisted umount?
  inits      \* initializations asked for

systemVars == <<edge, node, scanned>>
resultVars == <<device, version, status, inits>>
pollVars   == <<polls, asleep>>
vars == <<platform, systemVars, mounts, pc, pollVars, mntpt, resultVars, stuck>>

TypeOK ==
    /\ platform \in Platforms
    /\ edge \in {"absent", "usb", "storage"}
    /\ node \in BOOLEAN /\ scanned \in BOOLEAN /\ device \in BOOLEAN /\ stuck \in BOOLEAN
    /\ mounts \subseteq {"auto", "temp"} /\ mntpt \in {"none", "auto", "temp"}
    /\ pc \in {"idle", "plugged", "listed", "initialize", "boot", "poll", "partition",
               "automount", "mount", "parse", "parseTemp", "umount", "crashed"}
    /\ polls \in 0..(MaxPolls - 1) /\ asleep \in BOOLEAN
    /\ version \in {"none", "Undefined", "v"} /\ status \in {"none", "Failed", "Succeed"}
    /\ inits \in 0..MaxInits

Init ==
    /\ platform \in Platforms
    /\ edge \in {"absent", "usb", "storage"} /\ node = FALSE /\ scanned = FALSE
    /\ mounts = {} /\ pc = "idle" /\ polls = 0 /\ asleep = FALSE /\ mntpt = "none"
    /\ device = FALSE /\ version = "none" /\ status = "none"
    /\ stuck = FALSE /\ inits = 0

-----------------------------------------------------------------------------
(* The Edge and the operating system *)

\* It is plugged in, booted or pulled out: the disk goes with it.
Bus ==
    /\ edge' \in {"absent", "usb", "storage"} \ {edge}
    /\ node' = FALSE /\ scanned' = FALSE /\ mounts' = {} /\ stuck' = FALSE
    /\ UNCHANGED <<platform, pc, pollVars, mntpt, resultVars>>

\* The disk appears, then its partitions.
Enumerate ==
    /\ edge = "storage"
    /\ \/ ~node /\ node' = TRUE /\ UNCHANGED scanned
       \/ node /\ ~scanned /\ scanned' = TRUE /\ UNCHANGED node
    /\ UNCHANGED <<platform, edge, mounts, pc, pollVars, mntpt, resultVars, stuck>>

\* The system, or the user, mounts the boot partition or unmounts it.
Automount ==
    /\ scanned
    /\ mounts' = IF "auto" \in mounts THEN mounts \ {"auto"} ELSE mounts \cup {"auto"}
    /\ UNCHANGED <<platform, systemVars, pc, pollVars, mntpt, resultVars, stuck>>

-----------------------------------------------------------------------------
(* What the native layers answer *)

\* requestUsbDeviceList: the block devices of type disk, with the ids of their
\* USB device; the USB devices whose serial number is in the path of a disk; the
\* USB devices with a BSD name.  The Edge is the one with its ids.
LinuxListed   == node
WindowsDisk   == node   \* deviceDiskPath, driveNumber
WindowsListed == edge = "storage" /\ WindowsDisk
MacListed     == edge = "storage" /\ node

Listed == CASE platform = "linux"   -> LinuxListed
            [] platform = "windows" -> WindowsListed
            [] OTHER                -> MacListed

\* devicePartitions, which of them has the label: a disk or a partition that
\* cannot be probed yet, or an answer of diskutil that cannot be read, has none.
LinuxPartitions == scanned
MacPartitions   == scanned

\* Windows only knows the mounted volumes of the drive.
WindowsPartitions == "auto" \in mounts

Partitioned == CASE platform = "linux"   -> LinuxPartitions
                 [] platform = "windows" -> WindowsPartitions
                 [] OTHER                -> MacPartitions

\* mount(8); Windows has no mount.
Mountable == platform # "windows" /\ scanned

-----------------------------------------------------------------------------
(* FirmwareUpdateSession::initializeDevice *)

Finish(s) == pc' = "idle" /\ status' = s

\* The client opens a session of its own for each initialization.
BeginInitialize ==
    /\ pc = "idle" /\ inits < MaxInits
    /\ inits' = inits + 1 /\ status' = "none" /\ version' = "none" /\ device' = FALSE
    /\ pc' = "plugged"
    /\ UNCHANGED <<platform, systemVars, mounts, pollVars, mntpt, stuck>>

\* isEdgePlugged asks the bus (a count of the devices with the ids of the ROM) ...
IsPlugged ==
    /\ pc = "plugged"
    /\ pc' = IF edge = "usb" THEN "initialize" ELSE "listed"
    /\ UNCHANGED <<platform, systemVars, mounts, pollVars, mntpt, resultVars, stuck>>

\* ... and isEdgeInitialized the system.
IsListed ==
    /\ pc = "listed"
    /\ IF Listed THEN pc' = "initialize" /\ UNCHANGED status ELSE Finish("Failed")
    /\ UNCHANGED <<platform, systemVars, mounts, pollVars, mntpt, device, version, inits, stuck>>

\* initialize asks again.
Initialize ==
    /\ pc = "initialize"
    /\ pc' = IF Listed THEN "poll" ELSE "boot"
    /\ polls' = 0
    /\ UNCHANGED <<platform, systemVars, mounts, asleep, mntpt, resultVars, stuck>>

\* bootAsMassStorage takes its time and fails or not, whatever becomes of the Edge.
Boot ==
    /\ pc = "boot"
    /\ \/ pc' = "poll" /\ UNCHANGED <<device, status>>
       \/ Finish("Failed") /\ device' = FALSE
    /\ UNCHANGED <<platform, systemVars, mounts, pollVars, mntpt, version, inits, stuck>>

PollOn == UNCHANGED <<pc, device, status>>

UncountedWakeUp(failure) == PollOn /\ UNCHANGED polls  \* mutant: the time slept is not added up

HastyWakeUp(failure) ==   \* mutant: gives up a period early
    IF polls + 2 < MaxPolls THEN polls' = polls + 1 /\ PollOn ELSE failure

LongWakeUp(failure) ==   \* mutant: a call too many
    IF polls + 1 <= MaxPolls THEN polls' = polls + 1 /\ PollOn ELSE failure

\* A period has been slept: another call, or none any more.
WakeUp(failure) ==
    IF polls + 1 < MaxPolls THEN polls' = polls + 1 /\ PollOn ELSE failure

\* util::poll: a call, a period of sleep after each call that finds nothing, the
\* last one too, and no call after that one.
Poll(found, success, failure) ==
    \/ ~asleep /\ found /\ success /\ UNCHANGED asleep
    \/ ~asleep /\ ~found /\ PollOn /\ UNCHANGED polls /\ asleep' = TRUE
    \/ asleep /\ WakeUp(failure) /\ asleep' = FALSE

FindDevice ==
    /\ pc = "poll"
    /\ Poll(Listed,
            device' = TRUE /\ pc' = "partition" /\ polls' = 0 /\ UNCHANGED status,
            device' = FALSE /\ polls' = 0 /\ Finish("Failed"))
    /\ UNCHANGED <<platform, systemVars, mounts, mntpt, version, inits, stuck>>

-----------------------------------------------------------------------------
(* EdgeDeviceImpl::firmwareVersion *)

Versioned(v) == version' = v /\ Finish("Succeed")

\* A null partition is an undefined version.
FindPartition ==
    /\ pc = "partition"
    /\ \/ Partitioned /\ pc' = "automount" /\ UNCHANGED <<version, status>>
       \/ Versioned("Undefined")
    /\ UNCHANGED <<platform, systemVars, mounts, pollVars, mntpt, device, inits, stuck>>

WaitForAutomount ==
    /\ pc = "automount"
    /\ Poll(mounts # {},
            pc' = "parse" /\ polls' = 0 /\ UNCHANGED <<device, status>>,
            pc' = "mount" /\ polls' = 0 /\ UNCHANGED <<device, status>>)
    /\ mntpt' \in (IF pc' = "parse" THEN mounts ELSE {mntpt})
    /\ UNCHANGED <<platform, systemVars, mounts, version, inits, stuck>>

\* temporaryMountTo: no mount point at all when the directory cannot be made, and
\* the caller uses it; an unmounted one when mounting fails.
TemporaryMount ==
    /\ pc = "mount"
    /\ \/ pc' = "crashed" /\ UNCHANGED <<mounts, mntpt, version, status>>
       \/ /\ Mountable /\ mounts' = mounts \cup {"temp"} /\ mntpt' = "temp"
          /\ pc' = "parseTemp" /\ UNCHANGED <<version, status>>
       \/ Versioned("Undefined") /\ UNCHANGED <<mounts, mntpt>>
    /\ UNCHANGED <<platform, systemVars, pollVars, device, inits, stuck>>

ForgetfulParse ==   \* mutant: an undefined version returns at once
    /\ pc \in {"parse", "parseTemp"}
    /\ \/ /\ mntpt \in mounts /\ version' = "v"
          /\ IF pc = "parseTemp" THEN pc' = "umount" /\ UNCHANGED status ELSE Finish("Succeed")
       \/ Versioned("Undefined")
    /\ UNCHANGED <<platform, systemVars, mounts, pollVars, mntpt, device, inits, stuck>>

\* parseVersionFile: no file, or no version in it, is an undefined version.  Only
\* the mount the session has made is undone.
Parse ==
    /\ pc \in {"parse", "parseTemp"}
    /\ version' \in {"Undefined"} \cup {"v" : m \in mounts \cap {mntpt}}
    /\ IF pc = "parseTemp" THEN pc' = "umount" /\ UNCHANGED status ELSE Finish("Succeed")
    /\ UNCHANGED <<platform, systemVars, mounts, pollVars, mntpt, device, inits, stuck>>

\* The result of umount is dropped.
Umount ==
    /\ pc = "umount"
    /\ \/ mounts' = mounts \ {"temp"} /\ UNCHANGED stuck
       \/ UNCHANGED mounts /\ stuck' = ("temp" \in mounts)
    /\ Finish("Succeed")
    /\ UNCHANGED <<platform, systemVars, pollVars, mntpt, device, version, inits>>

-----------------------------------------------------------------------------

Session == IsPlugged \/ IsListed \/ Initialize \/ Boot \/ FindDevice \/ FindPartition
           \/ WaitForAutomount \/ TemporaryMount \/ Parse \/ Umount

Next == Bus \/ Enumerate \/ Automount \/ BeginInitialize \/ Session

\* The session thread goes on; what it calls returns.
Spec == Init /\ [][Next]_vars /\ WF_vars(Session)

-----------------------------------------------------------------------------
(* Properties *)

Ended == pc \in {"idle", "crashed"}

\* A version asked for leaves the boot partition mounted where the session has
\* mounted it only if unmounting has failed, on every path through
\* firmwareVersion: a mount left behind would be found by the next open_core.
TemporaryMountUndone == pc = "idle" /\ "temp" \in mounts => stuck

\* An initialization ends, whatever the Edge and the system do: neither poll
\* waits for ever (FirmwareUpdateSession::initializeDevice, util::poll).
InitializationEnds == ~Ended ~> Ended

\* An Edge that the system lists while initialize polls for it is found, unless
\* it goes away again, as long as the poll has a call to come: in the last period
\* it sleeps, an Edge comes too late (FoundWhilePolling).
FoundWhenListed ==
    pc = "poll" /\ node /\ (asleep => polls + 1 < MaxPolls) ~> pc = "partition" \/ ~node

\* An Edge listed before the poll has given up is found.  It is not: util::poll
\* sleeps a period after its last call (util.h:34) and does not look again.
FoundWhilePolling == pc = "poll" /\ node ~> pc = "partition" \/ ~node
=============================================================================
