-------------------------- MODULE ImageCopyProofs ---------------------------
(***************************************************************************)
(* Theorems about what ImageCopy writes and reads back, for images,        *)
(* blocks, chunks, sectors and devices of every size.                      *)
(***************************************************************************)
EXTENDS ImageCopy, SequenceTheorems, TLAPS

\* What a native layer transfers for n units: at least n, less than a sector more,
\* and exactly n when n is a block.
LEMMA NeededBounds ==
    ASSUME NEW n \in Nat
    PROVE  /\ Needed(n) \in Nat
           /\ n <= Needed(n) /\ Needed(n) <= n + Sector - 1
           /\ n = Block => Needed(n) = n
<1> USE ImageCopyAssumption
<1>1. n % Sector \in 0..(Sector - 1)
  OBVIOUS
<1>2. CASE padded /\ n % Sector # 0
  <2>1. Needed(n) = n + (Sector - (n % Sector))
    BY <1>2 DEF Needed
  <2> QED BY <1>1, <1>2, <2>1
<1>3. CASE ~(padded /\ n % Sector # 0)
  BY <1>3 DEF Needed
<1> QED BY <1>2, <1>3

-----------------------------------------------------------------------------

\* While it flashes, the offset of the device is the number of units written, but
\* for the padding of the last block; nothing else moves what is written.
FlashInv ==
    /\ size \in Nat /\ copied \in 0..size
    /\ medium \in [Offsets -> Contents]
    /\ pc \in {"opened", "flashing"} => fd \in 0..DeviceSize
    /\ pc = "opened" => fd = copied
    /\ pc = "flashing" /\ copied < size => fd = copied
    /\ PrefixWritten
    /\ NothingPastImage

LEMMA FlashInit == Init => FlashInv
<1> SUFFICES ASSUME Init PROVE FlashInv
  OBVIOUS
<1> USE ImageCopyAssumption
<1>1. size \in Nat /\ copied = 0 /\ fd = 0 /\ pc = "opened"
  BY DEF Init
<1>2. medium = [a \in Offsets |-> Old] /\ Old \in Contents
  BY DEF Init, Contents
<1> QED BY <1>1, <1>2 DEF FlashInv, PrefixWritten, NothingPastImage

\* A block as it is written.
LEMMA BlockWritten ==
    ASSUME FlashInv, pc = "flashing", copied < size,
           NEW n, n = Min2(Block, size - copied),
           NEW done \in 0..Min2(Needed(n), DeviceSize - fd),
           medium' = Written(n, done), UNCHANGED size
    PROVE  /\ n \in Nat \ {0} /\ copied + n <= size
           /\ n # Block => copied + n = size
           /\ done \in Nat /\ done <= Needed(n) /\ fd + done <= DeviceSize
           /\ fd = copied
           /\ medium' \in [Offsets -> Contents]
           /\ \A a \in Offsets : a < copied => medium'[a] = medium[a]
           /\ \A a \in Offsets : copied <= a /\ a < copied + n /\ a < copied + done
                                   => medium'[a] = a
           /\ NothingPastImage'
<1> USE ImageCopyAssumption
<1>1. /\ size \in Nat /\ copied \in Nat /\ fd = copied /\ fd <= DeviceSize
      /\ medium \in [Offsets -> Contents]
  BY DEF FlashInv
<1>2. n \in Nat \ {0} /\ copied + n <= size /\ (n # Block => copied + n = size)
  BY <1>1 DEF Min2
<1>3. Needed(n) \in Nat /\ Needed(n) <= n + Sector - 1
  BY <1>2, NeededBounds
<1>4. done \in Nat /\ done <= Needed(n) /\ fd + done <= DeviceSize
  BY <1>1, <1>3 DEF Min2
<1>5. \A a \in Offsets : a \in Nat
  BY DEF Offsets
<1>6. medium' \in [Offsets -> Contents]
  <2> SUFFICES ASSUME NEW a \in Offsets PROVE medium'[a] \in Contents
    BY DEF Written
  <2>1. copied <= a => copied + (a - fd) \in Nat
    BY <1>1, <1>5
  <2>2. ~(a < fd \/ a >= fd + done) => copied <= a
    BY <1>1, <1>4, <1>5
  <2>3. Zero \in Contents /\ Nat \subseteq Contents /\ medium[a] \in Contents
    BY <1>1 DEF Contents
  <2>4. medium'[a] = IF a < fd \/ a >= fd + done THEN medium[a]
                     ELSE IF a < fd + n THEN copied + (a - fd) ELSE Zero
    BY DEF Written
  <2> QED BY <2>1, <2>2, <2>3, <2>4
<1>7. \A a \in Offsets : a < copied => medium'[a] = medium[a]
  BY <1>1 DEF Written
<1>8. \A a \in Offsets : copied <= a /\ a < copied + n /\ a < copied + done
                           => medium'[a] = a
  <2> SUFFICES ASSUME NEW a \in Offsets, copied <= a, a < copied + n, a < copied + done
               PROVE  medium'[a] = a
    OBVIOUS
  <2>1. ~(a < fd \/ a >= fd + done) /\ a < fd + n
    BY <1>1, <1>2, <1>4, <1>5
  <2>2. medium'[a] = copied + (a - fd)
    BY <2>1 DEF Written
  <2> QED BY <1>1, <1>5, <2>2
<1>9. NothingPastImage'
  <2> SUFFICES ASSUME NEW a \in Offsets, a >= size + Sector - 1 PROVE medium'[a] = Old
    BY DEF NothingPastImage, Offsets
  <2>1. a >= fd + done
    BY <1>1, <1>2, <1>3, <1>4, <1>5
  <2>2. medium'[a] = medium[a]
    BY <2>1 DEF Written
  <2> QED BY <2>2 DEF FlashInv, NothingPastImage
<1> QED BY <1>1, <1>2, <1>4, <1>6, <1>7, <1>8, <1>9

LEMMA FlashBlockStep ==
    ASSUME FlashInv, FlashBlock
    PROVE  FlashInv'
<1> USE ImageCopyAssumption
<1>1. pc = "flashing" /\ copied < size /\ UNCHANGED size /\ size \in Nat /\ copied \in Nat
  BY DEF FlashBlock, FlashInv
<1> DEFINE n == Min2(Block, size - copied)
<1>2. PICK done \in 0..Min2(Needed(n), DeviceSize - fd) :
         /\ medium' = Written(n, done)
         /\ fd' = fd + done
         /\ IF Wrote(n, done) = n THEN copied' = copied + n /\ UNCHANGED <<pc, ret>>
                                  ELSE Stop("flashed", "WriteFail") /\ UNCHANGED copied
  BY DEF FlashBlock
<1> HIDE DEF n
<1>3. /\ n \in Nat \ {0} /\ copied + n <= size
      /\ n # Block => copied + n = size
      /\ done \in Nat /\ done <= Needed(n) /\ fd + done <= DeviceSize
      /\ fd = copied
      /\ medium' \in [Offsets -> Contents]
      /\ \A a \in Offsets : a < copied => medium'[a] = medium[a]
      /\ \A a \in Offsets : copied <= a /\ a < copied + n /\ a < copied + done
                              => medium'[a] = a
      /\ NothingPastImage'
  BY <1>1, <1>2, BlockWritten DEF n
<1>4. \A a \in 0..(copied - 1) : a \in Offsets /\ medium'[a] = a
  BY <1>1, <1>3 DEF FlashInv, PrefixWritten, Offsets
<1>5. CASE Wrote(n, done) = n
  <2>1. copied' = copied + n /\ UNCHANGED <<pc, ret>>
    BY <1>2, <1>5
  <2>2. done = Needed(n)
    BY <1>3, <1>5 DEF Wrote
  <2>3. n <= done /\ (n = Block => done = n)
    BY <1>3, <2>2, NeededBounds
  <2>4. ASSUME NEW a \in 0..(copied' - 1) PROVE a < DeviceSize /\ medium'[a] = a
    <3>1. CASE a < copied
      BY <1>1, <1>4, <3>1 DEF Offsets
    <3>2. CASE a >= copied
      <4>1. a \in Offsets /\ a < copied + n /\ a < copied + done
        BY <1>1, <1>3, <2>1, <2>3, <3>2 DEF Offsets
      <4> QED BY <1>3, <3>2, <4>1 DEF Offsets
    <3> QED BY <1>1, <1>3, <2>1, <3>1, <3>2
  <2>5. PrefixWritten'
    BY <1>1, <2>1, <2>4 DEF PrefixWritten
  <2>6. fd' \in 0..DeviceSize /\ (copied' < size => fd' = copied')
    BY <1>1, <1>2, <1>3, <2>1, <2>3
  <2> QED BY <1>1, <1>3, <2>1, <2>5, <2>6 DEF FlashInv
<1>6. CASE Wrote(n, done) # n
  <2>1. pc' = "flashed" /\ ret' = "WriteFail" /\ copied' = copied
    BY <1>2, <1>6 DEF Stop
  <2>2. PrefixWritten'
    BY <1>4, <2>1 DEF PrefixWritten, Offsets
  <2> QED BY <1>1, <1>3, <2>1, <2>2 DEF FlashInv
<1> QED BY <1>5, <1>6

LEMMA FlashStep ==
    ASSUME FlashInv, [Next]_vars
    PROVE  FlashInv'
<1> USE DEF flashVars, checkVars
<1>1. CASE FlashBlock
  BY <1>1, FlashBlockStep
<1>2. CASE BeginFlash
  <2>1. pc = "opened" /\ pc' = "flashing" /\ UNCHANGED <<size, copied, medium, fd>>
    BY <1>2 DEF BeginFlash
  <2> QED BY <2>1 DEF FlashInv, PrefixWritten, NothingPastImage
<1>3. CASE StopFlash
  <2>1. pc' = "flashed" /\ ret' # "Success" /\ UNCHANGED <<size, copied, medium, fd>>
    BY <1>3 DEF StopFlash, Stop
  <2> QED BY <2>1 DEF FlashInv, PrefixWritten, NothingPastImage
<1>4. CASE EndFlash
  <2>1. /\ pc' = "flashed" /\ copied >= size
        /\ UNCHANGED <<size, copied, medium, fd>>
    BY <1>4 DEF EndFlash, Stop
  <2>2. copied = size
    BY <2>1 DEF FlashInv
  <2> QED BY <2>1, <2>2 DEF FlashInv, PrefixWritten, NothingPastImage
<1>5. CASE BeginCheck \/ CheckBlock \/ CheckRest \/ CancelCheck
  <2>1. pc' \in {"hashing", "checked"} /\ UNCHANGED <<size, copied, medium>>
    BY <1>5 DEF BeginCheck, CheckBlock, CheckRest, CancelCheck, Stop
  <2> QED BY <2>1 DEF FlashInv, PrefixWritten, NothingPastImage
<1>6. CASE UNCHANGED vars
  BY <1>6 DEF vars, FlashInv, PrefixWritten, NothingPastImage
<1> QED BY <1>1, <1>2, <1>3, <1>4, <1>5, <1>6 DEF Next

-----------------------------------------------------------------------------
(* Reading back *)

\* Units of the device, in place.
LEMMA UnitsTyped ==
    ASSUME medium \in [Offsets -> Contents], NEW at \in Nat, NEW n \in Nat,
           at + n <= DeviceSize
    PROVE  UnitsAt(at, n) \in Seq(Contents) /\ Len(UnitsAt(at, n)) = n
<1> USE ImageCopyAssumption
<1>1. \A k \in 1..n : at + k - 1 \in Offsets
  BY DEF Offsets
<1>2. UnitsAt(at, n) \in [1..n -> Contents]
  BY <1>1 DEF UnitsAt
<1>3. UnitsAt(at, n) \in Seq(Contents)
  BY <1>2, IsASeq
<1>4. DOMAIN UnitsAt(at, n) = 1..n
  BY DEF UnitsAt
<1> QED BY <1>3, <1>4, LenProperties

\* A native read gives units of the device from the offset on, at most as many as
\* asked for, and leaves the offset within the device.
LEMMA NativeReadBounds ==
    ASSUME medium \in [Offsets -> Contents], fd \in 0..DeviceSize, NEW n \in Nat
    PROVE  /\ NativeRead(n).next \in 0..DeviceSize
           /\ \E got \in 0..n : /\ fd + got <= DeviceSize
                                /\ NativeRead(n).data = UnitsAt(fd, got)
                                /\ got = n /\ Needed(n) = n => NativeRead(n).next = fd + n
<1> USE ImageCopyAssumption
<1> DEFINE needed == Needed(n)
           got == Min2(needed, DeviceSize - fd)
<1>1. needed \in Nat /\ n <= needed
  BY NeededBounds
<1>2. got \in Nat /\ got <= needed /\ fd + got <= DeviceSize
  BY <1>1 DEF Min2
<1>3. NativeRead(n) =
        [data |-> IF got = needed \/ needed = n THEN UnitsAt(fd, Min2(n, got)) ELSE <<>>,
         next |-> fd + got]
  BY DEF NativeRead
<1> HIDE DEF got, needed
<1>4. NativeRead(n).next = fd + got
  BY <1>3
<1>5. CASE got = needed \/ needed = n
  <2>1. NativeRead(n).data = UnitsAt(fd, Min2(n, got))
    BY <1>3, <1>5
  <2>2. Min2(n, got) \in 0..n /\ fd + Min2(n, got) <= DeviceSize
    BY <1>1, <1>2 DEF Min2
  <2>3. Min2(n, got) = n /\ needed = n => got = n
    BY <1>1, <1>2 DEF Min2
  <2> QED BY <1>2, <1>4, <2>1, <2>2, <2>3 DEF needed
<1>6. CASE ~(got = needed \/ needed = n)
  <2>1. NativeRead(n).data = UnitsAt(fd, 0)
    BY <1>3, <1>6 DEF UnitsAt
  <2>2. n # 0
    BY <1>1, <1>6 DEF needed, Needed
  <2> QED BY <1>2, <1>4, <2>1, <2>2
<1> QED BY <1>5, <1>6

\* A read of n units hands out units typed as those of the device, at most n.
LEMMA QIODeviceReadTyped ==
    ASSUME medium \in [Offsets -> Contents], fd \in 0..DeviceSize,
           buffer \in Seq(Contents), NEW n \in Nat
    PROVE  /\ QIODeviceRead(n).data \in Seq(Contents)
           /\ QIODeviceRead(n).rest \in Seq(Contents)
           /\ QIODeviceRead(n).next \in 0..DeviceSize
<1> USE ImageCopyAssumption
<1> DEFINE old    == SubSeq(buffer, 1, Min2(n, Len(buffer)))
           left   == n - Len(old)
           asked  == IF left >= Chunk THEN left ELSE Chunk
           native == NativeRead(asked)
           taken  == Min2(left, Len(native.data))
<1>1. Len(buffer) \in Nat /\ \A i \in 1..Len(buffer) : buffer[i] \in Contents
  BY LenProperties
<1>2. Min2(n, Len(buffer)) \in 0..n /\ Min2(n, Len(buffer)) <= Len(buffer)
  BY <1>1 DEF Min2
<1>3. old \in Seq(Contents) /\ Len(old) = Min2(n, Len(buffer))
  BY <1>1, <1>2, SubSeqProperties
<1> HIDE DEF old
<1>4. left \in Nat /\ asked \in Nat
  BY <1>2, <1>3
<1> HIDE DEF left, asked
<1>5. native.next \in 0..DeviceSize /\ native.data \in Seq(Contents)
  BY <1>4, NativeReadBounds, UnitsTyped
<1> HIDE DEF native
<1>6. Len(native.data) \in Nat /\ \A i \in 1..Len(native.data) : native.data[i] \in Contents
  BY <1>5, LenProperties
<1>7. taken \in Nat /\ taken <= Len(native.data)
  BY <1>4, <1>6 DEF Min2
<1> HIDE DEF taken
<1>8. /\ SubSeq(native.data, 1, taken) \in Seq(Contents)
      /\ SubSeq(native.data, taken + 1, Len(native.data)) \in Seq(Contents)
  BY <1>6, <1>7, SubSeqProperties
<1>9. SubSeq(buffer, n + 1, Len(buffer)) \in Seq(Contents)
  BY <1>1, SubSeqProperties
<1>10. old \o SubSeq(native.data, 1, taken) \in Seq(Contents)
  BY <1>3, <1>8, ConcatProperties
<1>11. QIODeviceRead(n) =
         IF left = 0
         THEN [data |-> old, rest |-> SubSeq(buffer, n + 1, Len(buffer)), next |-> fd]
         ELSE [data |-> old \o SubSeq(native.data, 1, taken),
               rest |-> SubSeq(native.data, taken + 1, Len(native.data)),
               next |-> native.next]
  BY DEF QIODeviceRead, old, left, asked, native, taken
<1>12. CASE left = 0
  BY <1>3, <1>9, <1>11, <1>12
<1>13. CASE left # 0
  BY <1>5, <1>8, <1>10, <1>11, <1>13
<1> QED BY <1>12, <1>13

\* With nothing buffered a read hands out what the device holds from the offset
\* on; a request of a chunk or more leaves nothing buffered, and a whole block
\* moves the offset by a block.
LEMMA UnbufferedRead ==
    ASSUME medium \in [Offsets -> Contents], fd \in 0..DeviceSize, buffer = <<>>,
           NEW n \in Nat \ {0}
    PROVE  /\ n >= Chunk => QIODeviceRead(n).rest = <<>>
           /\ \E got \in 0..n :
                 /\ fd + got <= DeviceSize /\ QIODeviceRead(n).data = UnitsAt(fd, got)
                 /\ n = Block /\ got = n => QIODeviceRead(n).next = fd + n
<1> USE ImageCopyAssumption
<1> DEFINE asked  == IF n >= Chunk THEN n ELSE Chunk
           native == NativeRead(asked)
           taken  == Min2(n, Len(native.data))
<1>1. SubSeq(buffer, 1, Min2(n, Len(buffer))) = <<>>
  BY SubSeqEmpty, EmptySeq DEF Min2
<1>2. n - Len(<<>>) = n
  BY EmptySeq
<1>3. QIODeviceRead(n) =
        [data |-> <<>> \o SubSeq(native.data, 1, taken),
         rest |-> SubSeq(native.data, taken + 1, Len(native.data)),
         next |-> native.next]
  BY <1>1, <1>2 DEF QIODeviceRead
<1>4. PICK got \in 0..asked : /\ fd + got <= DeviceSize
                              /\ native.data = UnitsAt(fd, got)
                              /\ got = asked /\ Needed(asked) = asked
                                   => native.next = fd + asked
  BY NativeReadBounds
<1>5. native.data \in Seq(Contents) /\ Len(native.data) = got /\ got \in Nat
  BY <1>4, UnitsTyped
<1> HIDE DEF native
<1>6. taken \in 0..n /\ taken <= got /\ (n >= Chunk => taken = got)
  BY <1>4, <1>5 DEF Min2
<1> HIDE DEF taken
<1>7. SubSeq(native.data, 1, taken) = UnitsAt(fd, taken)
  <2>1. /\ SubSeq(native.data, 1, taken) \in Seq(Contents)
        /\ Len(SubSeq(native.data, 1, taken)) = taken
        /\ \A i \in 1..taken : SubSeq(native.data, 1, taken)[i] = native.data[i]
    <3>1. \A i \in 1..taken : native.data[i] \in Contents
      BY <1>5, <1>6, LenProperties
    <3> QED BY <1>6, <3>1, SubSeqProperties
  <2>2. UnitsAt(fd, taken) \in Seq(Contents) /\ Len(UnitsAt(fd, taken)) = taken
    BY <1>4, <1>6, UnitsTyped
  <2>3. \A i \in 1..taken : native.data[i] = UnitsAt(fd, taken)[i]
    BY <1>4, <1>5, <1>6 DEF UnitsAt
  <2> QED BY <2>1, <2>2, <2>3, SeqEqual
<1>8. UnitsAt(fd, taken) \in Seq(Contents)
  BY <1>4, <1>6, UnitsTyped
<1>9. QIODeviceRead(n).data = UnitsAt(fd, taken)
  BY <1>3, <1>7, <1>8, ConcatEmptySeq
<1>10. n >= Chunk => QIODeviceRead(n).rest = <<>>
  BY <1>3, <1>5, <1>6, SubSeqEmpty
<1>11. ASSUME n = Block, taken = n PROVE QIODeviceRead(n).next = fd + n
  <2>1. asked = n /\ got = asked /\ Needed(asked) = asked
    BY <1>6, <1>11, <1>5, NeededBounds
  <2> QED BY <1>3, <1>4, <2>1
<1> QED BY <1>4, <1>5, <1>6, <1>9, <1>10, <1>11

\* Reading on from the offset adds what follows to what was hashed.
LEMMA UnitsConcat ==
    ASSUME medium \in [Offsets -> Contents], NEW at \in Nat, NEW n \in Nat,
           at + n <= DeviceSize
    PROVE  UnitsAt(0, at) \o UnitsAt(at, n) = UnitsAt(0, at + n)
<1> USE ImageCopyAssumption
<1>1. /\ UnitsAt(0, at) \in Seq(Contents) /\ Len(UnitsAt(0, at)) = at
      /\ UnitsAt(at, n) \in Seq(Contents) /\ Len(UnitsAt(at, n)) = n
      /\ UnitsAt(0, at + n) \in Seq(Contents) /\ Len(UnitsAt(0, at + n)) = at + n
  BY UnitsTyped
<1> DEFINE both == UnitsAt(0, at) \o UnitsAt(at, n)
<1>2. /\ both \in Seq(Contents) /\ Len(both) = at + n
      /\ \A i \in 1..(at + n) : both[i] = IF i <= at THEN UnitsAt(0, at)[i]
                                          ELSE UnitsAt(at, n)[i - at]
  <2>1. ASSUME NEW s \in Seq(Contents), NEW t \in Seq(Contents), Len(s) = at, Len(t) = n
        PROVE  /\ s \o t \in Seq(Contents) /\ Len(s \o t) = at + n
               /\ \A i \in 1..(at + n) : (s \o t)[i] = IF i <= at THEN s[i] ELSE t[i - at]
    BY <2>1, ConcatProperties
  <2> QED BY <1>1, <2>1
<1> HIDE DEF both
<1>3. ASSUME NEW i \in 1..(at + n) PROVE both[i] = UnitsAt(0, at + n)[i]
  <2>1. CASE i <= at
    <3>1. UnitsAt(0, at)[i] = medium[0 + i - 1] /\ UnitsAt(0, at + n)[i] = medium[0 + i - 1]
      BY <2>1 DEF UnitsAt
    <3> QED BY <1>2, <2>1, <3>1
  <2>2. CASE i > at
    <3>1. i - at \in 1..n
      BY <2>2
    <3>2. UnitsAt(at, n)[i - at] = medium[at + (i - at) - 1]
      BY <3>1 DEF UnitsAt
    <3>3. UnitsAt(0, at + n)[i] = medium[0 + i - 1]
      BY DEF UnitsAt
    <3>4. at + (i - at) - 1 = 0 + i - 1
      OBVIOUS
    <3> QED BY <1>2, <2>2, <3>2, <3>3, <3>4
  <2> QED BY <2>1, <2>2
<1> QED BY <1>1, <1>2, <1>3, SeqEqual DEF both

-----------------------------------------------------------------------------

\* A rest that does not go through the buffer leaves nothing in it.
RestUnbuffered == Rest = 0 \/ Rest >= Chunk

\* A checksum that began with an empty buffer has hashed the device up to the offset,
\* block by block.
CheckInv ==
    /\ pc \in {"opened", "flashing", "flashed"} => checks = 0 /\ buffer = <<>>
    /\ pc \in {"hashing", "checked"} => checks >= 1
    /\ RestUnbuffered => buffer = <<>>
    /\ pc = "hashing" /\ (checks = 1 \/ RestUnbuffered) =>
          buffer = <<>> /\ block <= Blocks /\ fd = block * Block /\ hashed = UnitsAt(0, fd)
    /\ CheckedIsDevice

Inv == TypeOK /\ FlashInv /\ CheckInv

LEMMA Sized ==
    ASSUME size \in Nat
    PROVE  /\ Blocks \in Nat /\ Rest \in Nat /\ Rest < Block
           /\ size = Blocks * Block + Rest
BY ImageCopyAssumption DEF Blocks, Rest

LEMMA CheckInit == Init => TypeOK /\ CheckInv
<1> SUFFICES ASSUME Init PROVE TypeOK /\ CheckInv
  OBVIOUS
<1> USE ImageCopyAssumption DEF Init
<1>1. medium \in [Offsets -> Contents]
  BY DEF Contents
<1>2. buffer \in Seq(Contents) /\ hashed \in Seq(Contents)
  BY EmptySeq
<1> QED BY <1>1, <1>2 DEF TypeOK, CheckInv, CheckedIsDevice, Checked

\* Neither flashing nor the beginning or end of a checksum reads the device.
LEMMA NoReadStep ==
    ASSUME Inv,
           \/ BeginFlash \/ FlashBlock \/ StopFlash \/ EndFlash
           \/ BeginCheck \/ CancelCheck \/ UNCHANGED vars
    PROVE  TypeOK' /\ CheckInv'
<1> USE ImageCopyAssumption DEF Inv, flashVars, checkVars
<1>1. size \in Nat /\ copied \in 0..size
  BY DEF FlashInv
<1>2. CASE FlashBlock
  <2> DEFINE n == Min2(Block, size - copied)
  <2>1. PICK done \in 0..Min2(Needed(n), DeviceSize - fd) :
           /\ medium' = Written(n, done)
           /\ fd' = fd + done
           /\ IF Wrote(n, done) = n THEN copied' = copied + n /\ UNCHANGED <<pc, ret>>
                                    ELSE Stop("flashed", "WriteFail") /\ UNCHANGED copied
    BY <1>2 DEF FlashBlock
  <2>2. pc = "flashing" /\ copied < size /\ UNCHANGED <<size, padded, buffer, block, hashed, checks>>
    BY <1>2 DEF FlashBlock
  <2> HIDE DEF n
  <2>3. /\ n \in Nat \ {0} /\ copied + n <= size
        /\ done \in Nat /\ fd + done <= DeviceSize
        /\ medium' \in [Offsets -> Contents]
    BY <2>1, <2>2, BlockWritten DEF n
  <2>4. TypeOK'
    BY <1>1, <2>1, <2>2, <2>3 DEF TypeOK, Stop, Offsets
  <2>5. pc' \in {"flashing", "flashed"}
    BY <2>1, <2>2 DEF Stop
  <2> QED BY <2>2, <2>4, <2>5
          DEF CheckInv, CheckedIsDevice, Checked, RestUnbuffered, Rest
<1>3. CASE BeginFlash
  <2>1. pc = "opened" /\ pc' = "flashing"
    BY <1>3 DEF BeginFlash
  <2> QED BY <1>3, <2>1 DEF BeginFlash, TypeOK, CheckInv, CheckedIsDevice, Checked, RestUnbuffered, Rest,
                            Offsets, Contents
<1>4. CASE StopFlash \/ EndFlash
  <2>1. pc = "flashing" /\ pc' = "flashed"
    BY <1>4 DEF StopFlash, EndFlash, Stop
  <2> QED BY <1>4, <2>1 DEF StopFlash, EndFlash, Stop, TypeOK, CheckInv, CheckedIsDevice, Checked,
                            RestUnbuffered, Rest, Offsets, Contents
<1>5. CASE BeginCheck
  <2>1. /\ pc \in {"flashed", "checked"} /\ pc' = "hashing" /\ checks' = checks + 1
        /\ checks < MaxChecks /\ block' = 0 /\ hashed' = <<>> /\ fd' = 0
        /\ UNCHANGED <<size, padded, medium, copied, ret, buffer>>
    BY <1>5 DEF BeginCheck
  <2>2. TypeOK'
    BY <2>1, EmptySeq DEF TypeOK, Offsets, Contents
  <2>3. Blocks \in Nat /\ Blocks' = Blocks /\ RestUnbuffered' = RestUnbuffered
    BY <1>1, <2>1, Sized DEF Blocks, RestUnbuffered, Rest
  <2>4. UnitsAt(0, 0)' = <<>>
    BY DEF UnitsAt
  <2>5. checks' = 1 \/ RestUnbuffered => buffer = <<>>
    BY <2>1 DEF CheckInv, TypeOK
  <2> QED BY <2>1, <2>2, <2>3, <2>4, <2>5 DEF TypeOK, CheckInv, CheckedIsDevice, Checked
<1>6. CASE CancelCheck
  <2>1. pc = "hashing" /\ pc' = "checked" /\ ret' = "Cancelled"
        /\ UNCHANGED <<size, padded, medium, copied, fd, buffer, block, hashed, checks>>
    BY <1>6 DEF CancelCheck, Stop
  <2> QED BY <2>1 DEF TypeOK, CheckInv, CheckedIsDevice, Checked, RestUnbuffered, Rest, Offsets, Contents
<1>7. CASE UNCHANGED vars
  BY <1>7 DEF vars, TypeOK, CheckInv, CheckedIsDevice, Checked, RestUnbuffered, Rest, Blocks, UnitsAt,
              Offsets, Contents
<1> QED BY <1>2, <1>3, <1>4, <1>5, <1>6, <1>7

\* n units that are hashed follow those hashed before.
LEMMA HashOn ==
    ASSUME Inv, NEW n \in Nat \ {0}, Hash(n), UNCHANGED medium
    PROVE  /\ buffer' \in Seq(Contents) /\ hashed' \in Seq(Contents) /\ fd' \in 0..DeviceSize
           /\ buffer = <<>> /\ n >= Chunk => buffer' = <<>>
           /\ buffer = <<>> /\ hashed = UnitsAt(0, fd) /\ hashed' # hashed =>
                 /\ hashed' = UnitsAt(0, fd + n)
                 /\ n = Block => fd' = fd + n
<1> USE ImageCopyAssumption DEF Inv
<1>1. /\ medium \in [Offsets -> Contents] /\ fd \in 0..DeviceSize
      /\ buffer \in Seq(Contents) /\ hashed \in Seq(Contents)
  BY DEF TypeOK
<1> DEFINE read == QIODeviceRead(n)
<1>2. /\ buffer' = read.rest /\ fd' = read.next
      /\ hashed' = IF Len(read.data) = n THEN hashed \o read.data ELSE hashed
  BY DEF Hash
<1>3. read.data \in Seq(Contents) /\ read.rest \in Seq(Contents) /\ read.next \in 0..DeviceSize
  BY <1>1, QIODeviceReadTyped
<1>4. hashed' \in Seq(Contents)
  BY <1>1, <1>2, <1>3, ConcatProperties
<1>5. ASSUME buffer = <<>>
      PROVE  /\ n >= Chunk => read.rest = <<>>
             /\ \E got \in 0..n :
                   /\ fd + got <= DeviceSize /\ read.data = UnitsAt(fd, got)
                   /\ n = Block /\ got = n => read.next = fd + n
  BY <1>1, <1>5, UnbufferedRead
<1> HIDE DEF read
<1>6. ASSUME buffer = <<>>, hashed = UnitsAt(0, fd), hashed' # hashed
      PROVE  hashed' = UnitsAt(0, fd + n) /\ (n = Block => fd' = fd + n)
  <2>1. PICK got \in 0..n : /\ fd + got <= DeviceSize /\ read.data = UnitsAt(fd, got)
                            /\ n = Block /\ got = n => read.next = fd + n
    BY <1>5, <1>6
  <2>2. Len(read.data) = n /\ hashed' = hashed \o read.data
    BY <1>2, <1>6
  <2>3. got = n
    BY <1>1, <2>1, <2>2, UnitsTyped
  <2>4. hashed' = UnitsAt(0, fd) \o UnitsAt(fd, n)
    BY <1>6, <2>1, <2>2, <2>3
  <2>5. hashed' = UnitsAt(0, fd + n)
    <3>1. fd \in Nat /\ n \in Nat /\ fd + n <= DeviceSize
      BY <1>1, <2>1, <2>3
    <3>2. UnitsAt(0, fd) \o UnitsAt(fd, n) = UnitsAt(0, fd + n)
      BY <1>1, <3>1, UnitsConcat, Zenon
    <3> QED BY <2>4, <3>2
  <2>6. n = Block => fd' = fd + n
    BY <1>2, <2>1, <2>3
  <2> QED BY <2>5, <2>6
<1> QED BY <1>2, <1>3, <1>4, <1>5, <1>6

LEMMA CheckBlockStep ==
    ASSUME Inv, CheckBlock
    PROVE  TypeOK' /\ CheckInv'
<1> USE ImageCopyAssumption DEF Inv, flashVars
<1>1. /\ pc = "hashing" /\ block < Blocks /\ Hash(Block)
      /\ UNCHANGED <<size, padded, medium, copied, checks>>
      /\ \/ pc' = "checked" /\ ret' = "ReadFail" /\ UNCHANGED block
         \/ hashed' # hashed /\ block' = block + 1 /\ UNCHANGED <<pc, ret>>
  BY DEF CheckBlock, Stop
<1>2. /\ buffer' \in Seq(Contents) /\ hashed' \in Seq(Contents) /\ fd' \in 0..DeviceSize
      /\ buffer = <<>> /\ Block >= Chunk => buffer' = <<>>
      /\ buffer = <<>> /\ hashed = UnitsAt(0, fd) /\ hashed' # hashed =>
            /\ hashed' = UnitsAt(0, fd + Block) /\ fd' = fd + Block
  BY <1>1, HashOn
<1>3. TypeOK'
  BY <1>1, <1>2 DEF TypeOK, Offsets, Contents
<1>4. size \in Nat /\ Blocks \in Nat /\ Blocks' = Blocks /\ RestUnbuffered' = RestUnbuffered
  BY <1>1, Sized DEF FlashInv, Blocks, RestUnbuffered, Rest
<1>5. block \in Nat /\ fd \in Nat
  BY DEF TypeOK
<1>6. checks >= 1 /\ (RestUnbuffered => buffer' = <<>>)
  <2>1. RestUnbuffered => buffer = <<>>
    BY DEF CheckInv
  <2> QED BY <1>1, <1>2, <2>1 DEF CheckInv
<1>7. CASE pc' = "checked" /\ ret' = "ReadFail"
  <2>1. CheckedIsDevice'
    BY <1>7 DEF CheckedIsDevice, Checked
  <2> QED BY <1>1, <1>3, <1>4, <1>6, <1>7, <2>1 DEF CheckInv
<1>8. CASE hashed' # hashed /\ block' = block + 1 /\ UNCHANGED <<pc, ret>>
  <2>1. ASSUME checks = 1 \/ RestUnbuffered
        PROVE  /\ buffer' = <<>> /\ block' <= Blocks /\ fd' = block' * Block
               /\ hashed' = UnitsAt(0, fd')
    <3>1. buffer = <<>> /\ fd = block * Block /\ hashed = UnitsAt(0, fd)
      BY <1>1, <2>1 DEF CheckInv
    <3>2. (block + 1) * Block = block * Block + Block
      BY <1>5
    <3> QED BY <1>1, <1>2, <1>4, <1>5, <1>8, <3>1, <3>2
  <2>2. UnitsAt(0, fd)' = UnitsAt(0, fd')
    BY <1>1 DEF UnitsAt
  <2>3. pc' = "hashing" /\ CheckedIsDevice'
    BY <1>1, <1>8 DEF CheckedIsDevice, Checked
  <2> QED BY <1>1, <1>3, <1>4, <1>6, <2>1, <2>2, <2>3 DEF CheckInv
<1> QED BY <1>1, <1>7, <1>8

LEMMA CheckRestStep ==
    ASSUME Inv, CheckRest
    PROVE  TypeOK' /\ CheckInv'
<1> USE ImageCopyAssumption DEF Inv, flashVars
<1>1. /\ pc = "hashing" /\ block = Blocks /\ pc' = "checked"
      /\ UNCHANGED <<size, padded, medium, copied, block, checks>>
  BY DEF CheckRest, Stop
<1>2. /\ size \in Nat /\ Blocks \in Nat /\ Rest \in Nat /\ size = Blocks * Block + Rest
      /\ Blocks' = Blocks /\ RestUnbuffered' = RestUnbuffered
  BY <1>1, Sized DEF FlashInv, Blocks, RestUnbuffered, Rest
<1>3. checks = 1 \/ RestUnbuffered =>
         buffer = <<>> /\ fd = Blocks * Block /\ hashed = UnitsAt(0, fd)
  BY <1>1 DEF CheckInv
<1>4. UnitsAt(0, size)' = UnitsAt(0, size)
  BY <1>1 DEF UnitsAt
<1>5. (checks = 1 \/ Rest = 0 \/ Rest >= Chunk)' <=> checks = 1 \/ RestUnbuffered
  BY <1>1 DEF RestUnbuffered, Rest
<1>6. CASE Rest = 0
  <2>1. ret' = "Success" /\ UNCHANGED <<buffer, fd, hashed>>
    BY <1>6 DEF CheckRest, Stop
  <2>2. TypeOK'
    BY <1>1, <2>1 DEF TypeOK, Offsets, Contents
  <2>3. CheckedIsDevice'
    BY <1>2, <1>3, <1>4, <1>5, <1>6, <2>1 DEF CheckedIsDevice
  <2> QED BY <1>1, <1>2, <2>1, <2>2, <2>3 DEF CheckInv
<1>7. CASE Rest # 0
  <2>1. Hash(Rest) /\ ret' = IF hashed' = hashed THEN "ReadFail" ELSE "Success"
    BY <1>7 DEF CheckRest, Stop
  <2>2. /\ buffer' \in Seq(Contents) /\ hashed' \in Seq(Contents) /\ fd' \in 0..DeviceSize
        /\ buffer = <<>> /\ Rest >= Chunk => buffer' = <<>>
        /\ buffer = <<>> /\ hashed = UnitsAt(0, fd) /\ hashed' # hashed =>
              hashed' = UnitsAt(0, fd + Rest)
    BY <1>1, <1>2, <1>7, <2>1, HashOn
  <2>3. TypeOK'
    BY <1>1, <2>1, <2>2 DEF TypeOK, Offsets, Contents
  <2>4. CheckedIsDevice'
    BY <1>2, <1>3, <1>4, <1>5, <2>1, <2>2 DEF CheckedIsDevice, Checked
  <2>5. RestUnbuffered => buffer' = <<>>
    BY <1>7, <2>2 DEF CheckInv, RestUnbuffered
  <2> QED BY <1>1, <1>2, <2>3, <2>4, <2>5 DEF CheckInv
<1> QED BY <1>6, <1>7

LEMMA InvStep == Inv /\ [Next]_vars => Inv'
<1> SUFFICES ASSUME Inv, [Next]_vars PROVE Inv'
  OBVIOUS
<1>1. FlashInv'
  BY FlashStep DEF Inv
<1>2. TypeOK' /\ CheckInv'
  BY NoReadStep, CheckBlockStep, CheckRestStep DEF Next
<1> QED BY <1>1, <1>2 DEF Inv

\* Every reachable state is well typed: no read or write passes the end of the device.
THEOREM TypeCorrect == Spec => []TypeOK
<1>1. Init => Inv
  BY FlashInit, CheckInit DEF Inv
<1>2. Inv => TypeOK
  BY DEF Inv
<1> QED BY <1>1, InvStep, <1>2, PTL DEF Spec

\* A checksum that succeeds is that of the device, for images and devices of every
\* size, unless it is repeated and the image ends with less than a chunk.
THEOREM CheckedAlwaysDevice == Spec => []CheckedIsDevice
<1>1. Init => Inv
  BY FlashInit, CheckInit DEF Inv
<1>2. Inv => CheckedIsDevice
  BY DEF Inv, CheckInv
<1> QED BY <1>1, InvStep, <1>2, PTL DEF Spec

\* What flashing counts as written is the image, in its place, and all of it when
\* it reports success.
THEOREM PrefixAlwaysWritten == Spec => []PrefixWritten
<1>1. FlashInv => PrefixWritten
  BY DEF FlashInv
<1> QED BY FlashInit, FlashStep, <1>1, PTL DEF Spec

\* The device is left alone from less than a sector past the end of the image.
THEOREM NothingEverPastImage == Spec => []NothingPastImage
<1>1. FlashInv => NothingPastImage
  BY DEF FlashInv
<1> QED BY FlashInit, FlashStep, <1>1, PTL DEF Spec
=============================================================================
