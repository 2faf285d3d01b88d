----------------------------- MODULE ImageCopy -----------------------------
(***************************************************************************)
(* util::FlashingServiceImpl and util::CRCServiceImpl: an image is copied  *)
(* to the device block by block, and the device is read back to be hashed. *)
(* Below them are QIODevice, whose read() buffers requests smaller than a  *)
(* chunk (external: a library), and the native layers, of which macOS and  *)
(* Windows transfer whole sectors only.  A unit of an image is known by    *)
(* its position, so the image is the sequence 0, 1, ..., size - 1.         *)
(***************************************************************************)
EXTENDS Integers, Sequences

CONSTANTS Sizes,        \* sizes of image checked
          Block,        \* IOService::defaultBlockSize
          Chunk,        \* the buffer of a QIODevice
          Sector,       \* win32IOBlockDivider, Macx_divider
          DeviceSize,
          MaxChecks,    \* bound: checksums of one opening
          Old, Zero     \* what a unit of the device holds that is not of the image

ASSUME ImageCopyAssumption ==
    /\ Sizes \subseteq Nat /\ DeviceSize \in Nat /\ MaxChecks \in Nat
    /\ Block \in Nat \ {0} /\ Chunk \in Nat \ {0} /\ Sector \in Nat \ {0}
    /\ Block % Sector = 0 /\ Chunk % Sector = 0 /\ Chunk <= Block

ASSUME ContentAssumption == Old \notin Nat /\ Zero \notin Nat

VARIABLES
  size,      \* of the image
  padded,    \* the native layer transfers whole sectors
  medium,    \* what each unit of the device holds
  pc,        \* "opened", "flashing", "flashed", "hashing" or "checked"
  ret,       \* RetStatus of the operation that has ended last, or "none"
  copied,    \* totalWrote of flash_core
  fd,        \* offset of the descriptor of the device
  buffer,    \* what the QIODevice has read and not handed out
  block,     \* i of computeCRC_core
  hashed,    \* what was added to the hash
  checks     \* checksums begun

flashVars == <<medium, copied>>
checkVars == <<buffer, block, hashed, checks>>
vars == <<size, padded, flashVars, pc, ret, fd, checkVars>>

Offsets  == 0..(DeviceSize - 1)
Contents == Nat \cup {Old, Zero}

TypeOK ==
    /\ size \in Sizes /\ padded \in BOOLEAN
    /\ medium \in [Offsets -> Contents]
    /\ pc \in {"opened", "flashing", "flashed", "hashing", "checked"}
    /\ ret \in {"none", "Success", "ReadFail", "WriteFail", "Cancelled"}
    /\ copied \in 0..size /\ fd \in 0..DeviceSize
    /\ buffer \in Seq(Contents) /\ hashed \in Seq(Contents)
    /\ block \in Nat /\ checks \in 0..MaxChecks

Init ==
    /\ size \in Sizes /\ padded \in BOOLEAN
    /\ medium = [a \in Offsets |-> Old]
    /\ pc = "opened" /\ ret = "none"
    /\ copied = 0 /\ fd = 0
    /\ buffer = <<>> /\ block = 0 /\ hashed = <<>> /\ checks = 0

Min2(a, b) == IF a <= b THEN a ELSE b

EagerNeeded(n) ==   \* mutant: padded even when the size is whole
    IF padded THEN n + (Sector - (n % Sector)) ELSE n

\* neededSize: what the native layer transfers for a request of n units.
Needed(n) == IF padded /\ n % Sector # 0 THEN n + (Sector - (n % Sector)) ELSE n

-----------------------------------------------------------------------------
(* Flashing *)

Stop(where, status) == pc' = where /\ ret' = status

BeginFlash ==
    /\ pc = "opened"
    /\ pc' = "flashing"
    /\ UNCHANGED <<size, padded, flashVars, ret, fd, checkVars>>

\* io::write: n units of the image from its position and zeros up to the sector;
\* done of them reach the device.
Written(n, done) ==
    [a \in Offsets |-> IF a < fd \/ a >= fd + done THEN medium[a]
                       ELSE IF a < fd + n THEN copied + (a - fd) ELSE Zero]

UnheededWrote(n, done) == n   \* mutant: a write that came back short is not noticed

\* What io::write returns of it; a short padded write counts for nothing.
Wrote(n, done) == IF done = Needed(n) THEN n
                  ELSE IF Needed(n) = n THEN done ELSE 0

\* Cancelled before a block, or the image cannot be read on.
StopFlash ==
    /\ pc = "flashing" /\ copied < size
    /\ \E status \in {"Cancelled", "ReadFail"} : Stop("flashed", status)
    /\ UNCHANGED <<size, padded, flashVars, fd, checkVars>>

FlashBlock ==
    /\ pc = "flashing" /\ copied < size
    /\ LET n == Min2(Block, size - copied) IN
       \E done \in 0..Min2(Needed(n), DeviceSize - fd) :
         /\ medium' = Written(n, done)
         /\ fd' = fd + done
         /\ IF Wrote(n, done) = n THEN copied' = copied + n /\ UNCHANGED <<pc, ret>>
                                  ELSE Stop("flashed", "WriteFail") /\ UNCHANGED copied
    /\ UNCHANGED <<size, padded, checkVars>>

EndFlash ==
    /\ pc = "flashing" /\ copied >= size
    /\ Stop("flashed", "Success")
    /\ UNCHANGED <<size, padded, flashVars, fd, checkVars>>

-----------------------------------------------------------------------------
(* Reading back *)

UnitsAt(at, n) == [k \in 1..n |-> medium[at + k - 1]]

OverrunningNativeRead(n) ==   \* mutant: the offset passes the end of the device
    LET got == Min2(n, DeviceSize - fd)
    IN  [data |-> UnitsAt(fd, got), next |-> fd + Needed(n)]

\* io::read: its result, none when a padded request comes back short, and the
\* offset after it.
NativeRead(n) ==
    LET needed == Needed(n)
        got    == Min2(needed, DeviceSize - fd)
    IN  [data |-> IF got = needed \/ needed = n THEN UnitsAt(fd, Min2(n, got)) ELSE <<>>,
         next |-> fd + got]

\* QIODevice::read: first what is buffered, then the device, directly when what
\* is left is at least a chunk, else through the buffer.
QIODeviceRead(n) ==
    LET old    == SubSeq(buffer, 1, Min2(n, Len(buffer)))
        left   == n - Len(old)
        native == NativeRead(IF left >= Chunk THEN left ELSE Chunk)
        taken  == Min2(left, Len(native.data))
    IN  IF left = 0
        THEN [data |-> old, rest |-> SubSeq(buffer, n + 1, Len(buffer)), next |-> fd]
        ELSE [data |-> old \o SubSeq(native.data, 1, taken),
              rest |-> SubSeq(native.data, taken + 1, Len(native.data)),
              next |-> native.next]

Blocks == size \div Block
Rest   == size % Block

RewindlessBeginCheck ==   \* mutant: the device is not rewound
    /\ pc \in {"flashed", "checked"} /\ checks < MaxChecks
    /\ pc' = "hashing" /\ checks' = checks + 1
    /\ block' = 0 /\ hashed' = <<>>
    /\ UNCHANGED <<size, padded, flashVars, ret, buffer, fd>>

\* seek(0) moves the descriptor and leaves the buffer of the QIODevice alone.
BeginCheck ==
    /\ pc \in {"flashed", "checked"} /\ checks < MaxChecks
    /\ pc' = "hashing" /\ checks' = checks + 1
    /\ block' = 0 /\ hashed' = <<>>
    /\ fd' = 0
    /\ UNCHANGED <<size, padded, flashVars, ret, buffer>>

CancelCheck ==
    /\ pc = "hashing"
    /\ Stop("checked", "Cancelled")
    /\ UNCHANGED <<size, padded, flashVars, fd, checkVars>>

\* Adds n units of the device to the hash; a short read, as at the end of the
\* device, ends the checksum.
Hash(n) ==
    LET read == QIODeviceRead(n)
    IN  /\ buffer' = read.rest /\ fd' = read.next
        /\ IF Len(read.data) = n THEN hashed' = hashed \o read.data
                                 ELSE UNCHANGED hashed

CheckBlock ==
    /\ pc = "hashing" /\ block < Blocks
    /\ Hash(Block)
    /\ IF hashed' = hashed THEN Stop("checked", "ReadFail") /\ UNCHANGED block
                           ELSE block' = block + 1 /\ UNCHANGED <<pc, ret>>
    /\ UNCHANGED <<size, padded, flashVars, checks>>

CheckRest ==
    /\ pc = "hashing" /\ block = Blocks
    /\ IF Rest = 0 THEN Stop("checked", "Success") /\ UNCHANGED <<buffer, fd, hashed>>
       ELSE /\ Hash(Rest)
            /\ Stop("checked", IF hashed' = hashed THEN "ReadFail" ELSE "Success")
    /\ UNCHANGED <<size, padded, flashVars, block, checks>>

-----------------------------------------------------------------------------

Next == \/ BeginFlash \/ FlashBlock \/ StopFlash \/ EndFlash
        \/ BeginCheck \/ CheckBlock \/ CheckRest \/ CancelCheck

Spec == Init /\ [][Next]_vars

-----------------------------------------------------------------------------
(* Properties *)

\* Whatever stops flashing, what it has counted as written is the image, in its
\* place on the device: the padding of a sector never overwrites a unit of the
\* image, and a write that came back short is not counted (flash_core, io::write).
\* When flashing has succeeded that is all of the image.
PrefixWritten ==
    /\ \A a \in 0..(copied - 1) : a < DeviceSize /\ medium[a] = a
    /\ pc = "flashed" /\ ret = "Success" => copied = size

\* Past the end of the image less than a sector is written, whatever its size.
NothingPastImage == \A a \in Offsets : a >= size + Sector - 1 => medium[a] = Old

Checked == pc = "checked" /\ ret = "Success"

\* A checksum that succeeds has hashed what the device holds, from its beginning,
\* as long as the image, whatever flashing left of the position; so does one that
\* is repeated, unless the image ends with a rest that goes through the buffer.
CheckedIsDevice ==
    Checked /\ (checks = 1 \/ Rest = 0 \/ Rest >= Chunk) => hashed = UnitsAt(0, size)

(* It does not hold: the second checksum of an opening (README, section 6) *)

\* A checksum fails a device only if it does not hold the image (the message of
\* FirmwareUpdateSession.cpp:171, "Image incorrectly wrote").
FailedIsIncorrect ==
    Checked /\ copied = size => hashed = [k \in 1..size |-> k - 1]
=============================================================================
