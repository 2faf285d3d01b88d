------------------------ MODULE StorageDeviceProofs -------------------------
(***************************************************************************)
(* Theorems about StorageDevice, for every set of volumes, on every        *)
(* platform and for every number of openings.                              *)
(***************************************************************************)
EXTENDS StorageDevice, TLAPS

-----------------------------------------------------------------------------
\* Types

LEMMA InitTyping == Init => TypeOK
<1> SUFFICES ASSUME Init PROVE TypeOK
  OBVIOUS
<1>1. opens \in 0..MaxOpens
  BY StorageAssumption DEF Init
<1> QED BY <1>1 DEF Init, TypeOK

LEMMA MountTyping ==
    ASSUME TypeOK, OperatingSystem
    PROVE  TypeOK'
<1> USE DEF TypeOK, mountVars, dataVars
<1>1. PICK v \in Volumes \cup Alike : Mount(v) \/ WriteBack(v)
  BY DEF OperatingSystem
<1>2. CASE Mount(v)
  BY <1>1, <1>2 DEF Mount
<1>3. CASE WriteBack(v)
  BY <1>1, <1>3 DEF WriteBack
<1> QED BY <1>1, <1>2, <1>3

LEMMA UmountTyping ==
    ASSUME TypeOK, NEW v \in todo, Umount(v),
           platform = "windows" => v \in Volumes
    PROVE  TypeOK'
<1> USE DEF TypeOK, dataVars
<1>1. v \in Volumes \cup Alike
  OBVIOUS
<1>2. CASE platform = "windows"
  BY <1>1, <1>2 DEF Umount, WindowsUmount
<1>3. CASE platform # "windows"
  BY <1>1, <1>3 DEF Umount, UnixUmount
<1> QED BY <1>2, <1>3

LEMMA OpenTyping ==
    ASSUME TypeOK, MakeDevice \/ BeginOpen \/ EndOpen
    PROVE  TypeOK'
<1> USE DEF TypeOK, mountVars, dataVars
<1>1. CASE MakeDevice
  <2>1. opens' \in 0..MaxOpens
    BY <1>1, StorageAssumption DEF MakeDevice
  <2> QED BY <1>1, <2>1 DEF MakeDevice
<1>2. CASE BeginOpen
  <2>1. todo' \subseteq Volumes \cup Alike
    BY <1>2 DEF BeginOpen, Mountpoints, WindowsMountpoints, Asked, UnixMountpoints
  <2> QED BY <1>2, <2>1 DEF BeginOpen
<1>3. CASE EndOpen
  <2>1. handle' \in {"null", "good", "bad"}
    BY <1>3 DEF EndOpen, LinuxOpen, MacOpen, WindowsOpen
  <2> QED BY <1>3, <2>1 DEF EndOpen
<1> QED BY <1>1, <1>2, <1>3

LEMMA StoredTyping ==
    ASSUME TypeOK, NEW content \in {"partial", "image"}, Stored(content)
    PROVE  /\ media' \in {"old", "partial", "image", "damaged"}
           /\ cache' \in {"empty", "old", "partial", "image", "damaged"}
           /\ flushed' \in BOOLEAN
BY DEF TypeOK, Stored

LEMMA DataTyping ==
    ASSUME TypeOK, Write \/ EndFlash \/ WriteWithoutHandle \/ Sync \/ Check
    PROVE  TypeOK'
<1> USE DEF TypeOK, mountVars, dataVars
<1>1. CASE Write
  BY <1>1, StoredTyping DEF Write
<1>2. CASE EndFlash
  <2>1. /\ media' \in {"old", "partial", "image", "damaged"}
        /\ cache' \in {"empty", "old", "partial", "image", "damaged"}
        /\ flushed' \in BOOLEAN
    BY <1>2, StoredTyping DEF EndFlash
  <2> QED BY <1>2, <2>1 DEF EndFlash
<1>3. CASE WriteWithoutHandle
  BY <1>3 DEF WriteWithoutHandle
<1>4. CASE Sync
  BY <1>4 DEF Sync
<1>5. CASE Check
  BY <1>5 DEF Check
<1> QED BY <1>1, <1>2, <1>3, <1>4, <1>5

LEMMA CloseTyping ==
    ASSUME TypeOK, CloseHandle \/ ReleaseLocks
    PROVE  TypeOK'
BY DEF TypeOK, mountVars, dataVars, CloseHandle, ReleaseLocks

\* On Windows only volumes of the device are listed, so only they are locked.
Listing == platform = "windows" => todo \subseteq Volumes

LEMMA ListingStep ==
    ASSUME Listing, [Next]_vars
    PROVE  Listing'
<1> USE DEF Listing, mountVars, dataVars
<1>1. CASE BeginOpen
  BY <1>1 DEF BeginOpen, Mountpoints, WindowsMountpoints, Asked
<1>2. ASSUME NEW v \in todo, Umount(v) PROVE Listing'
  BY <1>2 DEF Umount
<1>3. CASE UNCHANGED <<platform, todo>>
  BY <1>3
<1> QED
  BY <1>1, <1>2, <1>3 DEF Next, File, OperatingSystem, MakeDevice, EndOpen, Write,
     EndFlash, WriteWithoutHandle, Sync, Check, CloseHandle, ReleaseLocks, Mount,
     WriteBack, vars

\* Every reachable state is well typed; in particular only volumes of the device
\* are ever locked.
THEOREM TypeCorrect == Spec => []TypeOK
<1>1. Init => TypeOK /\ Listing
  BY InitTyping DEF Init, Listing
<1>2. TypeOK /\ Listing /\ [Next]_vars => TypeOK' /\ Listing'
  <2> SUFFICES ASSUME TypeOK, Listing, [Next]_vars PROVE TypeOK'
    BY ListingStep
  <2>1. CASE UNCHANGED vars
    BY <2>1 DEF vars, mountVars, dataVars, TypeOK
  <2>2. ASSUME NEW v \in todo, Umount(v) PROVE TypeOK'
    BY <2>2, UmountTyping DEF Listing
  <2> QED BY <2>1, <2>2, MountTyping, OpenTyping, DataTyping, CloseTyping
             DEF Next, File
<1> QED BY <1>1, <1>2, PTL DEF Spec

-----------------------------------------------------------------------------
\* The locks

\* What the locks of Windows hold: a volume unmounted for the present opening is
\* locked until the handle is closed, a locked volume is not mounted, and there is
\* a good handle only between the two.
LockInv ==
    /\ platform = "windows" =>
         /\ locks \cap mounted = {}
         /\ pc \in {"unmounting", "open", "written", "synced"} => unmounted \subseteq locks
    /\ handle = "good" => pc \in {"open", "written", "synced"}

LEMMA LockInit == Init => LockInv
BY DEF Init, LockInv

LEMMA LockStep ==
    ASSUME LockInv, [Next]_vars
    PROVE  LockInv'
<1> USE DEF LockInv, mountVars, dataVars
<1>1. CASE OperatingSystem
  BY <1>1 DEF OperatingSystem, Mount, WriteBack
<1>2. CASE MakeDevice
  BY <1>2 DEF MakeDevice
<1>3. CASE BeginOpen
  BY <1>3 DEF BeginOpen
<1>4. ASSUME NEW v \in todo, Umount(v) PROVE LockInv'
  <2>1. CASE platform = "windows"
    BY <1>4, <2>1 DEF Umount, WindowsUmount
  <2>2. CASE platform # "windows"
    BY <1>4, <2>2 DEF Umount
  <2> QED BY <2>1, <2>2
<1>5. CASE EndOpen
  BY <1>5 DEF EndOpen
<1>6. CASE Write
  BY <1>6 DEF Write
<1>7. CASE EndFlash
  BY <1>7 DEF EndFlash
<1>8. CASE WriteWithoutHandle
  BY <1>8 DEF WriteWithoutHandle
<1>9. CASE Sync
  BY <1>9 DEF Sync
<1>10. CASE Check
  BY <1>10 DEF Check
<1>11. CASE CloseHandle
  BY <1>11 DEF CloseHandle
<1>12. CASE ReleaseLocks
  BY <1>12 DEF ReleaseLocks
<1>13. CASE UNCHANGED vars
  BY <1>13 DEF vars
<1> QED BY <1>1, <1>2, <1>3, <1>4, <1>5, <1>6, <1>7, <1>8, <1>9, <1>10, <1>11,
           <1>12, <1>13 DEF Next, File

\* On Windows a volume that was unmounted for the device stays unmounted as long
\* as there is a handle to write to it.
THEOREM LocksOutliveHandle == Spec => []UnmountedStaysUnmounted
<1>1. LockInv => UnmountedStaysUnmounted
  BY DEF LockInv, UnmountedStaysUnmounted
<1> QED BY LockInit, LockStep, <1>1, PTL DEF Spec

-----------------------------------------------------------------------------
\* What the checksum reads

\* Nothing is cached but on Linux, and there not between a flush and the next
\* access.
CacheInv == platform # "linux" \/ flushed => cache = "empty"

LEMMA CacheStep ==
    ASSUME CacheInv, [Next]_vars
    PROVE  CacheInv'
<1> USE DEF CacheInv, mountVars, dataVars
<1>1. CASE Write
  BY <1>1 DEF Write, Stored
<1>2. CASE EndFlash
  BY <1>2 DEF EndFlash, Stored
<1>3. CASE Sync
  BY <1>3 DEF Sync
<1>4. CASE Check
  BY <1>4 DEF Check
<1>5. CASE UNCHANGED <<platform, cache, flushed>>
  BY <1>5
<1> QED
  BY <1>1, <1>2, <1>3, <1>4, <1>5 DEF Next, File, OperatingSystem, MakeDevice,
     BeginOpen, Umount, EndOpen, WriteWithoutHandle, CloseHandle, ReleaseLocks,
     Mount, WriteBack, vars

\* A checksum after a flush that has succeeded is one of the medium.
THEOREM ChecksumOfMedium == Spec => CheckedOnMedia
<1>1. Init => CacheInv
  BY DEF Init, CacheInv
<1>2. CacheInv /\ [Next]_vars
        => [Check /\ flushed /\ checked' = "ok" => media = "image"]_vars
  BY DEF CacheInv, Check
<1> QED BY <1>1, <1>2, CacheStep, PTL DEF Spec, CheckedOnMedia
=============================================================================
