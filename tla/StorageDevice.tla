--------------------------- MODULE StorageDevice ---------------------------
(***************************************************************************)
(* devlib: the Edge's mass storage opened as a file (IStorageDeviceFile,   *)
(* StorageDeviceFileImpl) over the native layers of Linux, macOS and       *)
(* Windows.  Opening unmounts the volumes of the device one by one and     *)
(* keeps what the native umount returned; the update session then writes   *)
(* the image, flushes, and reads it back.  The operating system meanwhile  *)
(* mounts volumes, writes to mounted ones and, on Linux, caches what is    *)
(* written; a faulty medium may keep something else than it was sent.      *)
(***************************************************************************)
EXTENDS Naturals

CONSTANTS Volumes,     \* the volumes of the Edge
          Alike,       \* volumes of other disks whose device name begins with
                       \* the name of the Edge (/dev/sda and /dev/sdaa1)
          Platforms,   \* the native layers checked
          MaxOpens     \* bound: devices opened

ASSUME StorageAssumption ==
    /\ Volumes \cap Alike = {}
    /\ Platforms \subseteq {"linux", "macx", "windows"}
    /\ MaxOpens \in Nat

VARIABLES
  platform,
  mounted,    \* mounted volumes
  pc,         \* the device file: "none", "made", "unmounting", "open",
              \* "written" (flash is over, sync is not), "synced", "closing",
              \* or "crashed"
  todo,       \* mount points open_core has still to unmount
  locks,      \* volumes that _mntptsLocks keeps locked
  unmounted,  \* volumes unmounted for the present opening
  handle,     \* _fileHandle: "null", "good", or "bad" (of no descriptor)
  flashed,    \* how the last flash ended: "none", "ok" or "failed"
  checked,    \* ... and the last checksum
  media,      \* what is on the device: "old", "partial", "image", "damaged"
  cache,      \* what Linux has cached of it, or "empty"
  flushed,    \* has nothing been cached since the last flush?
  opens       \* devices opened

mountVars == <<mounted, todo, locks, unmounted>>
dataVars  == <<flashed, checked, media, cache, flushed>>
vars == <<platform, mountVars, pc, handle, dataVars, opens>>

TypeOK ==
    /\ platform \in Platforms
    /\ mounted \subseteq Volumes \cup Alike /\ todo \subseteq Volumes \cup Alike
    /\ locks \subseteq Volumes /\ unmounted \subseteq Volumes \cup Alike
    /\ pc \in {"none", "made", "unmounting", "open", "written", "synced",
               "closing", "crashed"}
    /\ handle \in {"null", "good", "bad"}
    /\ flashed \in {"none", "ok", "failed"} /\ checked \in {"none", "ok", "failed"}
    /\ media \in {"old", "partial", "image", "damaged"}
    /\ cache \in {"empty", "old", "partial", "image", "damaged"}
    /\ flushed \in BOOLEAN
    /\ opens \in 0..MaxOpens

Init ==
    /\ platform \in Platforms
    /\ mounted \in SUBSET (Volumes \cup Alike)
    /\ pc = "none" /\ handle = "null" /\ opens = 0
    /\ todo = {} /\ locks = {} /\ unmounted = {}
    /\ flashed = "none" /\ checked = "none"
    /\ media = "old" /\ cache = "empty" /\ flushed = FALSE

-----------------------------------------------------------------------------
(* The operating system *)

\* A volume that is locked cannot be mounted; nobody else's lock is modelled.
Mount(v) ==
    /\ v \notin mounted \cup locks
    /\ mounted' = mounted \cup {v}
    /\ UNCHANGED <<platform, todo, locks, unmounted, pc, handle, dataVars, opens>>

\* A mounted file system writes to the device behind the back of its file.
WriteBack(v) ==
    /\ v \in mounted \cap Volumes
    /\ media' = "damaged"
    /\ UNCHANGED <<platform, mountVars, pc, handle, flashed, checked, cache,
                   flushed, opens>>

-----------------------------------------------------------------------------
(* StorageDeviceFileImpl *)

\* mntptsForPartition: Linux and macOS compare the beginning of the names.
UnixMountpoints == mounted

\* drivesMountedToMountpoint: a volume that cannot be asked has no drive.
Asked == SUBSET mounted

LooseWindowsMountpoints == Asked   \* mutant: the volumes of any drive

\* Windows compares the number of the drive.
WindowsMountpoints == {asked \cap Volumes : asked \in Asked}

Mountpoints == IF platform = "windows" THEN WindowsMountpoints ELSE {UnixMountpoints}

\* asIODevice: a new file; the one before, if any, has been closed.
MakeDevice ==
    /\ pc = "none" /\ opens < MaxOpens
    /\ pc' = "made" /\ opens' = opens + 1
    /\ flashed' = "none" /\ checked' = "none"
    /\ UNCHANGED <<platform, mountVars, handle, media, cache, flushed>>

\* open_core lists the mount points once and drops the locks it had.
BeginOpen ==
    /\ pc = "made"
    /\ todo' \in Mountpoints
    /\ locks' = {} /\ unmounted' = {}
    /\ pc' = "unmounting"
    /\ UNCHANGED <<platform, mounted, handle, dataVars, opens>>

\* umount of Linux and macOS: a lock that holds nothing, or none when the volume
\* is busy or gone; the result is not looked at.
UnixUmount(v) ==
    /\ \/ v \in mounted /\ mounted' = mounted \ {v} /\ unmounted' = unmounted \cup {v}
       \/ UNCHANGED <<mounted, unmounted>>
    /\ UNCHANGED locks

\* umount of Windows: the volume is locked, dismounted and stays locked.
WindowsUmount(v) ==
    \/ /\ v \in mounted
       /\ mounted' = mounted \ {v} /\ unmounted' = unmounted \cup {v}
       /\ locks' = locks \cup {v}
    \/ UNCHANGED <<mounted, unmounted, locks>>

Umount(v) ==
    /\ pc = "unmounting" /\ v \in todo
    /\ todo' = todo \ {v}
    /\ IF platform = "windows" THEN WindowsUmount(v) ELSE UnixUmount(v)
    /\ UNCHANGED <<platform, pc, handle, dataVars, opens>>

\* io::open of Linux and Windows makes a handle of whatever the system returned.
LinuxOpen   == handle' \in {"good", "bad"}
WindowsOpen == handle' \in {"good", "bad"}

\* io::open of macOS returns none when the raw disk cannot be opened.
MacOpen == handle' \in {"good", "null"}

\* setOpenMode follows whether the handle is good or not, and the session does
\* not look at the result of open.
EndOpen ==
    /\ pc = "unmounting" /\ todo = {}
    /\ \/ platform = "linux" /\ LinuxOpen
       \/ platform = "macx" /\ MacOpen
       \/ platform = "windows" /\ WindowsOpen
    /\ pc' = "open"
    /\ UNCHANGED <<platform, mountVars, dataVars, opens>>

\* Linux writes through its cache (O_SYNC): both change.
Stored(content) ==
    /\ media' \in {content, "damaged"}
    /\ IF platform = "linux" THEN cache' = content /\ flushed' = FALSE
                             ELSE UNCHANGED <<cache, flushed>>

\* A part of the image is written.
Write ==
    /\ pc = "open" /\ handle = "good"
    /\ Stored("partial")
    /\ UNCHANGED <<platform, mountVars, pc, handle, flashed, checked, opens>>

\* The rest of the image is written, or flashing has failed or was cancelled.
EndFlash ==
    /\ pc = "open" /\ handle # "null"
    /\ \/ handle = "good" /\ Stored("image") /\ flashed' = "ok"
       \/ flashed' = "failed" /\ UNCHANGED <<media, cache, flushed>>
    /\ pc' = "written"
    /\ UNCHANGED <<platform, mountVars, handle, checked, opens>>

\* io::write of macOS asserts that there is a handle and uses it.
WriteWithoutHandle ==
    /\ pc = "open" /\ handle = "null"
    /\ pc' = "crashed"
    /\ UNCHANGED <<platform, mountVars, handle, dataVars, opens>>

StubbedSync ==   \* mutant: nothing is flushed on Linux either
    /\ pc = "written"
    /\ pc' = "synced"
    /\ flushed' = TRUE
    /\ UNCHANGED <<platform, mountVars, handle, flashed, checked, media, cache, opens>>

\* io::sync of Linux: the cache is written out and dropped (BLKFLSBUF), a failure
\* only logged; the other layers have a stub and no cache.
Sync ==
    /\ pc = "written"
    /\ pc' = "synced"
    /\ \/ platform = "linux" /\ handle = "good" /\ cache' = "empty" /\ flushed' = TRUE
       \/ platform = "linux" /\ UNCHANGED <<cache, flushed>>
       \/ platform # "linux" /\ flushed' = TRUE /\ UNCHANGED cache
    /\ UNCHANGED <<platform, mountVars, handle, flashed, checked, media, opens>>

\* seek(0) and the checksum, read through the cache, which then holds the rest.
Check ==
    /\ pc = "synced"
    /\ LET content == IF cache = "empty" THEN media ELSE cache IN
         /\ checked' = IF handle = "good" /\ content = "image" THEN "ok" ELSE "failed"
         /\ IF platform = "linux" /\ handle = "good"
            THEN cache' = content /\ flushed' = FALSE
            ELSE UNCHANGED <<cache, flushed>>
    /\ UNCHANGED <<platform, mountVars, pc, handle, flashed, media, opens>>

UnlockingCloseHandle ==   \* mutant: the locks are cleared before the handle
    /\ pc \in {"open", "written", "synced"}
    /\ pc' = "closing"
    /\ locks' = {}
    /\ UNCHANGED <<platform, mounted, todo, unmounted, handle, dataVars, opens>>

\* close_core, or the destructor: the handle first ...
CloseHandle ==
    /\ pc \in {"open", "written", "synced"}
    /\ pc' = "closing"
    /\ handle' = "null"
    /\ UNCHANGED <<platform, mountVars, dataVars, opens>>

\* ... then the locks.
ReleaseLocks ==
    /\ pc = "closing"
    /\ pc' = "none"
    /\ locks' = {} /\ handle' = "null"
    /\ UNCHANGED <<platform, mounted, todo, unmounted, dataVars, opens>>

-----------------------------------------------------------------------------

File == \/ MakeDevice \/ BeginOpen \/ (\E v \in todo : Umount(v)) \/ EndOpen
        \/ Write \/ EndFlash \/ WriteWithoutHandle \/ Sync \/ Check
        \/ CloseHandle \/ ReleaseLocks

OperatingSystem == \E v \in Volumes \cup Alike : Mount(v) \/ WriteBack(v)

Next == File \/ OperatingSystem

Spec == Init /\ [][Next]_vars

-----------------------------------------------------------------------------
(* Properties *)

\* On Windows a volume that was unmounted for the device cannot be mounted again
\* before the handle that writes to it is closed: the locks outlive the handle
\* (close_core resets them in this order).
UnmountedStaysUnmounted ==
    platform = "windows" /\ handle = "good" => unmounted \cap mounted = {}

\* The checksum says that the image was written only of a device that holds it,
\* not of what the system still has in its cache, when the flush before it has
\* succeeded (sync between flashing and the checksum).
CheckedOnMedia ==
    [][Check /\ flushed /\ checked' = "ok" => media = "image"]_vars

(* What a comment and an assertion say, and does not hold (README, section 6) *)

\* The device is written when none of its volumes is mounted (the comment of
\* StorageDeviceFileImpl.cpp:15, "first: unmount all mounpoints").
WrittenUnmounted == [][Write \/ EndFlash => media' = media \/ mounted \cap Volumes = {}]_vars

\* io::write is called with a handle (the assertion of macosx_native.cpp:353,
\* "Q_ASSERT(handle)").
WriteHasHandle == pc # "crashed"
=============================================================================
