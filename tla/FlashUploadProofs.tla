------------------------- MODULE FlashUploadProofs -------------------------
(***************************************************************************)
(* Proofs about FlashUpload, for every flash, sector and page size, every  *)
(* place of the excluded sector and every request.                         *)
(***************************************************************************)
EXTENDS FlashUpload, TLAPS

-----------------------------------------------------------------------------
(* Sectors.                                                                 *)

\* A sector starts at a multiple of its size, at or before each of its bytes.
LEMMA SectorBounds ==
  ASSUME NEW a \in Int
  PROVE  /\ SectorOf(a) \in Int
         /\ SectorOf(a) <= a
         /\ a < SectorOf(a) + SectorSize
         /\ \E q \in Int : SectorOf(a) = SectorSize * q
<1>1. SectorSize \in Nat \ {0}
  BY SizesAssumption
<1>2. \E r \in 0 .. SectorSize - 1, q \in Int :
        a = SectorSize * q + r /\ SectorOf(a) = a - r
  <2>1. /\ a % SectorSize \in 0 .. SectorSize - 1
        /\ a \div SectorSize \in Int
        /\ a = SectorSize * (a \div SectorSize) + (a % SectorSize)
    BY <1>1
  <2> QED
    BY <2>1 DEF SectorOf
<1>3. PICK r \in 0 .. SectorSize - 1, q \in Int :
        a = SectorSize * q + r /\ SectorOf(a) = a - r
  BY <1>2
<1>4. r \in Nat /\ r < SectorSize /\ SectorSize * q \in Int
  BY <1>1
<1>5. SectorOf(a) = SectorSize * q
  BY <1>3, <1>4
<1> QED
  BY <1>1, <1>3, <1>4, <1>5

\* The excluded area is a sector, too.
LEMMA ExcludedIsSector ==
  /\ ExcludeStart \in Nat /\ ExcludeEnd \in Nat
  /\ ExcludeEnd = ExcludeStart + SectorSize
  /\ \E e \in Int : ExcludeStart = SectorSize * e
<1>1. SectorOf(ExcludeStart) = ExcludeStart
  BY SizesAssumption DEF SectorOf
<1>2. ExcludeStart \in Int
  BY SizesAssumption
<1>3. PICK e \in Int : SectorOf(ExcludeStart) = SectorSize * e
  BY <1>2, SectorBounds
<1> QED
  BY <1>1, <1>3, SizesAssumption DEF ExcludeEnd

\* The sector of a byte before the excluded area ends before it, ...
LEMMA SectorBefore ==
  ASSUME NEW a \in Int, a < ExcludeStart
  PROVE  SectorOf(a) + SectorSize <= ExcludeStart
<1>1. SectorSize \in Nat \ {0}
  BY SizesAssumption
<1>2. PICK q \in Int : SectorOf(a) = SectorSize * q
  BY SectorBounds
<1>3. PICK e \in Int : ExcludeStart = SectorSize * e
  BY ExcludedIsSector
<1>4. SectorSize * q < SectorSize * e
  <2>1. SectorOf(a) <= a /\ SectorOf(a) \in Int /\ ExcludeStart \in Int
    BY SectorBounds, SizesAssumption
  <2> QED
    BY <1>2, <1>3, <2>1
<1>5. q + 1 <= e
  BY <1>1, <1>4
<1>6. SectorSize * q + SectorSize <= SectorSize * e
  BY <1>1, <1>5
<1> QED
  BY <1>2, <1>3, <1>6

\* ... and that of a byte behind it starts behind it.
LEMMA SectorBehind ==
  ASSUME NEW a \in Int, a >= ExcludeEnd
  PROVE  SectorOf(a) >= ExcludeEnd
<1>1. SectorSize \in Nat \ {0}
  BY SizesAssumption
<1>2. PICK q \in Int : SectorOf(a) = SectorSize * q
  BY SectorBounds
<1>3. PICK e \in Int : ExcludeStart = SectorSize * e
  BY ExcludedIsSector
<1>4. SectorSize * (e + 1) = ExcludeEnd
  BY <1>1, <1>3, ExcludedIsSector
<1>5. a < SectorSize * (q + 1)
  BY <1>1, <1>2, SectorBounds
<1>6. SectorSize * (e + 1) < SectorSize * (q + 1)
  BY <1>1, <1>4, <1>5, ExcludedIsSector
<1>7. e + 1 <= q
  BY <1>1, <1>6
<1>8. SectorSize * (e + 1) <= SectorSize * q
  BY <1>1, <1>7
<1> QED
  BY <1>2, <1>4, <1>8

-----------------------------------------------------------------------------
(* What write_buffer writes and erases.                                     *)

\* The part of a page that is written lies in the page and outside the excluded area.
LEMMA PartOutside ==
  ASSUME NEW a \in Nat, NEW n \in Nat, vLen(a, n) # 0
  PROVE  /\ vAddr(a, n) \in Nat /\ vLen(a, n) \in Nat \ {0}
         /\ a <= vAddr(a, n) /\ vAddr(a, n) + vLen(a, n) <= a + n
         /\ \/ vAddr(a, n) >= ExcludeEnd
            \/ vAddr(a, n) + vLen(a, n) <= ExcludeStart
  BY ExcludedIsSector, SizesAssumption DEF vAddr, vLen, check_exclude_area

\* A part outside the excluded area does not meet the area, nor do its sectors.
LEMMA ExcludedApart ==
  ASSUME NEW addr \in Nat, NEW n \in Nat \ {0},
         addr >= ExcludeEnd \/ addr + n <= ExcludeStart,
         NEW a \in Excluded
  PROVE  /\ a \notin addr .. addr + n - 1
         /\ a \notin SectorOf(addr) .. SectorOf(addr + n - 1) + SectorSize - 1
<1>1. /\ a \in Int /\ SectorSize \in Nat \ {0}
      /\ a >= ExcludeStart /\ a < ExcludeEnd
  BY ExcludedIsSector, SizesAssumption DEF Excluded
<1>2. a \notin addr .. addr + n - 1
  BY <1>1, ExcludedIsSector
<1>3. a \notin SectorOf(addr) .. SectorOf(addr + n - 1) + SectorSize - 1
  <2> DEFINE last == addr + n - 1
  <2>1. addr \in Int /\ last \in Int
    OBVIOUS
  <2>2. SectorOf(addr) \in Int /\ SectorOf(last) \in Int
    BY <2>1, SectorBounds
  <2>3. CASE addr >= ExcludeEnd
    <3>1. SectorOf(addr) >= ExcludeEnd
      BY <2>1, <2>3, SectorBehind
    <3> QED
      BY <1>1, <2>2, <3>1, ExcludedIsSector
  <2>4. CASE addr + n <= ExcludeStart
    <3>1. last < ExcludeStart
      BY <1>1, <2>4, ExcludedIsSector
    <3>2. SectorOf(last) + SectorSize <= ExcludeStart
      BY <2>1, <3>1, SectorBefore
    <3> QED
      BY <1>1, <2>2, <3>2, ExcludedIsSector
  <2> QED
    BY <2>3, <2>4
<1> QED
  BY <1>2, <1>3

\* It leaves the area as it is.
LEMMA ExcludedIsKept ==
  ASSUME NEW u \in UploadState, NEW addr \in Nat, NEW n \in Nat \ {0},
         addr >= ExcludeEnd \/ addr + n <= ExcludeStart,
         NEW a \in Excluded
  PROVE  Written(u, addr, n, a) = flash[a] /\ a \notin ToErase(u, addr, n)
BY ExcludedApart DEF Written, ToErase

-----------------------------------------------------------------------------
(* Types.                                                                   *)

\* What is copied to the page, and how much.
LEMMA CopiedType ==
  ASSUME NEW u \in UploadState, NEW data \in Nat, NEW n \in Nat, n <= LenLeft(u)
  PROVE  /\ Copied(u, data, n) \in UploadState
         /\ [Copied(u, data, n) EXCEPT !.state = StateAfter(Copied(u, data, n))]
              \in UploadState
<1>1. PageLen \in Nat \ {0}
  BY SizesAssumption
<1>2. /\ u.len - n \in Nat
      /\ u.pagePos + n \in 0 .. PageLen
  BY <1>1 DEF LenLeft, UploadState
<1>3. WordSize * u.pagePos \in Nat
  BY <1>1 DEF WordSize, UploadState
<1>4. [k \in 0 .. PageLen - 1 |->
         IF k \in WordSize * u.pagePos .. WordSize * u.pagePos + n - 1
         THEN data + k - WordSize * u.pagePos ELSE u.page[k]]
         \in [0 .. PageLen - 1 -> Cells]
  BY <1>1, <1>3, SMTT(30) DEF UploadState, Cells
<1>5. Copied(u, data, n) \in UploadState
  BY <1>2, <1>4 DEF Copied, UploadState
<1> QED
  BY <1>5 DEF UploadState, StateAfter

\* A byte of the flash, when a page is written.
LEMMA WrittenType ==
  ASSUME NEW u \in UploadState, flash \in [Addresses -> Cells],
         NEW addr \in Nat, NEW n \in Nat \ {0}, u.currentAddress <= addr, NEW a \in Addresses
  PROVE  Written(u, addr, n, a) \in Cells
<1>1. /\ PageLen \in Nat \ {0} /\ u.currentAddress \in Nat
      /\ u.page \in [0 .. PageLen - 1 -> Cells]
  BY SizesAssumption DEF UploadState
<1>2. ASSUME a \in addr .. addr + n - 1
      PROVE  Source(u, addr, a) \in Cells
  <2> DEFINE k == WordSize * (addr - u.currentAddress) + (a - addr)
  <2>1. k \in Nat
    BY <1>1, <1>2 DEF WordSize
  <2>2. k < PageLen => k \in 0 .. PageLen - 1
    BY <1>1, <2>1
  <2> QED
    BY <1>1, <2>2 DEF Source, Cells
<1> QED
  BY <1>2 DEF Written, Cells

\* The flash and the upload after write_buffer.
LEMMA WriteBufferType ==
  ASSUME NEW u \in UploadState, flash \in [Addresses -> Cells], WriteBuffer(u)
  PROVE  flash' \in [Addresses -> Cells] /\ upload' \in UploadState
<1> DEFINE addr == vAddr(u.currentAddress, u.pagePos)
           n == vLen(u.currentAddress, u.pagePos)
           next == [u EXCEPT !.currentAddress = @ + u.pagePos, !.pagePos = 0]
<1>1. /\ PageLen \in Nat \ {0} /\ u.currentAddress \in Nat /\ u.pagePos \in Nat
      /\ u.page \in [0 .. PageLen - 1 -> Cells]
  BY SizesAssumption DEF UploadState
<1>2. next \in UploadState
  <2>1. u.currentAddress + u.pagePos \in Nat /\ 0 \in 0 .. PageLen
    BY <1>1
  <2> QED
    BY <2>1 DEF UploadState
<1>3. CASE n = 0
  BY <1>2, <1>3 DEF WriteBuffer
<1>4. CASE n # 0
  <2>1. addr \in Nat /\ n \in Nat \ {0} /\ u.currentAddress <= addr
    BY <1>1, <1>4, PartOutside
  <2>2. Remembered(u, addr, n) \in Int
    <3>1. u.erasedAddress \in Int
      BY DEF UploadState
    <3>2. addr + n - 1 \in Int
      BY <2>1
    <3> QED
      BY <3>1, <3>2, SectorBounds DEF Remembered
  <2>3. [next EXCEPT !.erasedAddress = Remembered(u, addr, n)] \in UploadState
    BY <1>2, <2>2 DEF UploadState
  <2>4. ASSUME NEW a \in Addresses
        PROVE  Written(u, addr, n, a) \in Cells
    BY <2>1, WrittenType
  <2> QED
    BY <1>4, <2>3, <2>4 DEF WriteBuffer
<1> QED
  BY <1>3, <1>4

\* Every step of the program keeps the types.
LEMMA TypeStep ==
  ASSUME TypeOK, [Next]_vars
  PROVE  TypeOK'
<1> USE DEF TypeOK
<1>1. CASE Call
  <2>1. request.len \in Nat
    BY RequestsAssumption
  <2>2. BlockSize(request.len - post.received) \in Int
    BY <2>1, SizesAssumption DEF BlockSize
  <2>3. FreshUpload \in UploadState
    BY SizesAssumption DEF FreshUpload, UploadState, Cells
  <2> DEFINE n == BlockSize(request.len - post.received)
  <2>4. n \in Nat /\ n > 0
    BY <1>1, <2>2 DEF Call
  <2>5. post' \in [received : Nat, data : Nat, dataLen : Nat]
    <3>1. post' = post \/ post' = [post EXCEPT !.received = @ + n, !.dataLen = n]
      BY <1>1 DEF Call
    <3>2. post.received + n \in Nat /\ n \in Nat
      BY <2>4
    <3> HIDE DEF n
    <3> QED
      BY <3>1, <3>2
  <2>6. upload' \in UploadState \cup {NoUpload}
    BY <1>1, <2>3 DEF Call
  <2> QED
    BY <1>1, <2>5, <2>6 DEF Call
<1>2. CASE Start
  <2>1. /\ upload \in UploadState
        /\ request.start \in Nat /\ request.len \in Nat /\ request.autoErase \in BOOLEAN
    BY <1>2, RequestsAssumption DEF Start, NoUpload
  <2>2. SectorOf(request.start - SectorSize) \in Int
    <3>1. request.start - SectorSize \in Int
      BY <2>1, SizesAssumption
    <3> QED
      BY <3>1, SectorBounds
  <2>3. 0 \in 0 .. PageLen
    BY SizesAssumption
  <2>4. upload' \in UploadState
    BY <1>2, <2>1, <2>2, <2>3 DEF Start, UploadState
  <2> QED
    BY <1>2, <2>4 DEF Start
<1>3. CASE TakeBytes
  <2> DEFINE lenLeft == LenLeft(upload)
             n == IF post.dataLen < lenLeft THEN post.dataLen ELSE lenLeft
             copied == Copied(upload, post.data, n)
             u == [copied EXCEPT !.state = StateAfter(copied)]
  <2>1. upload \in UploadState /\ post.dataLen \in Nat /\ post.data \in Nat
    BY <1>3 DEF TakeBytes, NoUpload
  <2>2. lenLeft \in Nat
    BY <2>1, SizesAssumption DEF LenLeft, UploadState
  <2>3. n \in Nat /\ n <= lenLeft /\ n <= post.dataLen
    BY <2>1, <2>2
  <2>4. u \in UploadState
    BY <2>1, <2>3, CopiedType
  <2>5. post' \in [received : Nat, data : Nat, dataLen : Nat]
    <3>1. post' = [post EXCEPT !.data = @ + n, !.dataLen = @ - n]
      BY <1>3 DEF TakeBytes
    <3>2. post.data + n \in Nat /\ post.dataLen - n \in Nat
      BY <2>1, <2>3
    <3> HIDE DEF n
    <3> QED
      BY <3>1, <3>2
  <2>6. (upload' = u /\ flash' = flash) \/ WriteBuffer(u)
    BY <1>3 DEF TakeBytes
  <2>7. flash' \in [Addresses -> Cells] /\ upload' \in UploadState
    <3> HIDE DEF u
    <3> QED
      BY <2>4, <2>6, WriteBufferType
  <2> QED
    BY <1>3, <2>5, <2>7 DEF TakeBytes
<1>4. CASE Answer
  BY <1>4 DEF Answer
<1>5. CASE Abort
  BY <1>5 DEF Abort
<1>6. CASE UNCHANGED vars
  BY <1>6 DEF vars
<1> QED
  BY <1>1, <1>2, <1>3, <1>4, <1>5, <1>6 DEF Next

\* The types of the variables hold in every state.
THEOREM UploadTypes == Spec => []TypeOK
<1>1. Init => TypeOK
  BY DEF Init, TypeOK, Cells
<1>2. TypeOK /\ [Next]_vars => TypeOK'
  BY TypeStep
<1> QED
  BY <1>1, <1>2, PTL DEF Spec

-----------------------------------------------------------------------------
(* The excluded sector.                                                     *)

\* Only the writing of a page changes the flash, and never the excluded sector.
LEMMA CalibrationStep ==
  ASSUME TypeOK, CalibrationUntouched, [Next]_vars
  PROVE  CalibrationUntouched'
<1>1. CASE TakeBytes
  <2> DEFINE lenLeft == LenLeft(upload)
             n == IF post.dataLen < lenLeft THEN post.dataLen ELSE lenLeft
             copied == Copied(upload, post.data, n)
             u == [copied EXCEPT !.state = StateAfter(copied)]
  <2>1. upload \in UploadState /\ post.dataLen \in Nat /\ post.data \in Nat
    BY <1>1 DEF TakeBytes, NoUpload, TypeOK
  <2>2. lenLeft \in Nat
    BY <2>1, SizesAssumption DEF LenLeft, UploadState
  <2>3. n \in Nat /\ n <= lenLeft
    BY <2>1, <2>2
  <2>4. u \in UploadState
    BY <2>1, <2>3, CopiedType
  <2>5. flash' = flash \/ WriteBuffer(u)
    BY <1>1 DEF TakeBytes
  <2> HIDE DEF u
  <2> DEFINE addr == vAddr(u.currentAddress, u.pagePos)
             m == vLen(u.currentAddress, u.pagePos)
  <2>6. CASE WriteBuffer(u) /\ m # 0
    <3>1. u.currentAddress \in Nat /\ u.pagePos \in Nat
      BY <2>4, SizesAssumption DEF UploadState
    <3>2. /\ addr \in Nat /\ m \in Nat \ {0}
          /\ addr >= ExcludeEnd \/ addr + m <= ExcludeStart
      BY <2>6, <3>1, PartOutside
    <3>3. flash' = [a \in Addresses |-> Written(u, addr, m, a)]
      BY <2>6 DEF WriteBuffer
    <3> HIDE DEF addr, m
    <3>4. ASSUME NEW a \in Excluded \cap Addresses
          PROVE  flash'[a] = flash[a]
      BY <2>4, <3>2, <3>3, ExcludedIsKept
    <3> QED
      BY <3>4 DEF CalibrationUntouched
  <2>7. CASE WriteBuffer(u) /\ m = 0
    BY <2>7 DEF WriteBuffer, CalibrationUntouched
  <2>8. CASE flash' = flash
    BY <2>8 DEF CalibrationUntouched
  <2> QED
    BY <2>5, <2>6, <2>7, <2>8
<1>2. CASE UNCHANGED flash
  BY <1>2 DEF CalibrationUntouched
<1> QED
  BY <1>1, <1>2 DEF Next, Call, Start, Answer, Abort, vars

\* No upload erases or writes a byte of the excluded sector, whatever its start,
\* its length and the sizes are.
THEOREM CalibrationIsSafe == Spec => []CalibrationUntouched
<1>1. Init => CalibrationUntouched
  BY DEF Init, CalibrationUntouched
<1>2. TypeOK /\ CalibrationUntouched /\ [Next]_vars => CalibrationUntouched'
  BY CalibrationStep
<1> QED
  BY <1>1, <1>2, UploadTypes, PTL DEF Spec

-----------------------------------------------------------------------------
(* Whole pages.                                                             *)

Pages(n) == \E q \in Int : n = PageLen * q

\* What is still to be copied is what the client has not sent and what is left of
\* the block; no page is begun; and a block that is not the last has whole pages.
PageInv ==
  /\ post.received <= request.len
  /\ post.received = request.len \/ Pages(post.dataLen)
  /\ upload = NoUpload /\ answer = "no" => post.received = 0
  /\ upload.state = "start" => upload.pagePos = 0 /\ post.received = post.dataLen
  /\ upload.state \in {"write", "done"} =>
       /\ upload.pagePos = 0
       /\ upload.len = request.len - post.received + post.dataLen
       /\ upload.state = "done" => upload.len = 0

\* A block of the body that is not the last one is full.
LEMMA BlockPages ==
  ASSUME NEW left \in Nat
  PROVE  /\ BlockSize(left) \in Nat /\ BlockSize(left) <= left
         /\ BlockSize(left) = left \/ Pages(BlockSize(left))
<1>1. MaxPost \in Nat /\ PageLen \in Nat \ {0} /\ MaxPost % PageLen = 0
  BY SizesAssumption
<1>2. MaxPost = PageLen * (MaxPost \div PageLen) + (MaxPost % PageLen)
  BY <1>1
<1>3. MaxPost \div PageLen \in Int /\ PageLen * (MaxPost \div PageLen) \in Int
  BY <1>1
<1>4. MaxPost = PageLen * (MaxPost \div PageLen)
  <2> DEFINE p == PageLen * (MaxPost \div PageLen)
             r == MaxPost % PageLen
  <2>1. p \in Int /\ r = 0 /\ MaxPost = p + r
    BY <1>1, <1>2, <1>3
  <2> HIDE DEF p, r
  <2>2. MaxPost = p
    BY <1>1, <2>1
  <2> QED
    BY <2>2 DEF p
<1>5. Pages(MaxPost)
  BY <1>3, <1>4 DEF Pages
<1> QED
  BY <1>1, <1>5 DEF BlockSize

\* What is left of whole pages after a page: whole pages; and a page fits in them.
LEMMA PagesLess ==
  ASSUME NEW n \in Nat \ {0}, Pages(n)
  PROVE  PageLen <= n /\ Pages(n - PageLen)
<1>1. PageLen \in Nat \ {0}
  BY SizesAssumption
<1>2. PICK q \in Int : n = PageLen * q
  BY DEF Pages
<1>3. q >= 1
  BY <1>1, <1>2
<1>4. PageLen * q >= PageLen
  BY <1>1, <1>3
<1>5. n - PageLen = PageLen * (q - 1)
  BY <1>1, <1>2
<1> QED
  BY <1>2, <1>4, <1>5 DEF Pages

\* write_buffer empties the page and leaves the rest.
LEMMA WriteBufferEmpties ==
  ASSUME NEW u \in UploadState, WriteBuffer(u)
  PROVE  /\ upload'.pagePos = 0 /\ upload'.len = u.len /\ upload'.state = u.state
  BY DEF WriteBuffer, UploadState

LEMMA PageStep ==
  ASSUME TypeOK, PageInv, [Next]_vars
  PROVE  PageInv'
<1>0. /\ request.len \in Nat /\ post.received \in Nat /\ post.dataLen \in Nat
      /\ post.data \in Nat /\ PageLen \in Nat \ {0}
  BY RequestsAssumption, SizesAssumption DEF TypeOK
<1>1. CASE Call
  <2> DEFINE n == BlockSize(request.len - post.received)
  <2>1. request.len - post.received \in Nat
    BY <1>0 DEF PageInv
  <2>2. n \in Nat /\ n <= request.len - post.received
    BY <2>1, BlockPages
  <2>3. n = request.len - post.received \/ Pages(n)
    BY <2>1, BlockPages
  <2>4. CASE /\ upload' = IF upload = NoUpload THEN FreshUpload ELSE upload
             /\ post' = [post EXCEPT !.received = @ + n, !.dataLen = n]
    <3>1. /\ request' = request /\ post.dataLen = 0
          /\ post'.received = post.received + n /\ post'.dataLen = n
      BY <1>1, <2>4 DEF Call, TypeOK
    <3> HIDE DEF n
    <3>2. /\ post'.received <= request'.len
          /\ post'.received = request'.len \/ Pages(post'.dataLen)
      BY <1>0, <2>2, <2>3, <3>1
    <3>3. CASE upload = NoUpload
      <4>1. upload' = FreshUpload /\ post.received = 0
        BY <1>1, <2>4, <3>3 DEF Call, PageInv
      <4>2. /\ upload'.state = "start" /\ upload'.pagePos = 0 /\ upload' # NoUpload
        BY <4>1 DEF FreshUpload, NoUpload
      <4>3. post'.received = post'.dataLen
        BY <2>2, <3>1, <4>1
      <4> QED
        BY <3>2, <4>2, <4>3 DEF PageInv, Pages
    <3>4. CASE upload # NoUpload
      <4>1. upload' = upload
        BY <2>4, <3>4
      <4>2. post.received = 0 => post'.received = post'.dataLen
        BY <2>2, <3>1
      <4>3. request'.len - post'.received + post'.dataLen
              = request.len - post.received + post.dataLen
        BY <1>0, <2>2, <3>1
      <4> QED
        BY <3>1, <3>2, <3>4, <4>1, <4>2, <4>3 DEF PageInv, Pages
    <3> QED
      BY <3>3, <3>4
  <2>5. CASE UNCHANGED <<upload, post>>
    BY <1>1, <2>5 DEF Call, PageInv, Pages
  <2> QED
    BY <1>1, <2>4, <2>5 DEF Call
<1>2. CASE Start
  <2>1. upload \in UploadState
    BY <1>2 DEF Start, TypeOK, NoUpload
  <2>2. /\ upload'.pagePos = 0 /\ upload'.len = request.len /\ upload'.state = "write"
        /\ upload' # NoUpload
    BY <1>2, <2>1 DEF Start, UploadState, NoUpload
  <2>3. request' = request /\ post' = post /\ post.received = post.dataLen
    BY <1>2 DEF Start, PageInv
  <2>4. request'.len = request'.len - post'.received + post'.dataLen
    BY <1>0, <2>3
  <2> QED
    BY <2>2, <2>3, <2>4 DEF PageInv, Pages
<1>3. CASE TakeBytes
  <2> DEFINE lenLeft == LenLeft(upload)
             n == IF post.dataLen < lenLeft THEN post.dataLen ELSE lenLeft
             copied == Copied(upload, post.data, n)
             u == [copied EXCEPT !.state = StateAfter(copied)]
  <2>1. /\ upload \in UploadState /\ upload.state = "write" /\ post.dataLen # 0
        /\ upload.len \in Nat /\ upload.pagePos = 0
        /\ upload.len = request.len - post.received + post.dataLen
    BY <1>3 DEF TakeBytes, TypeOK, NoUpload, PageInv, UploadState
  <2>2. /\ post.dataLen <= upload.len
        /\ lenLeft = IF upload.len < PageLen THEN upload.len ELSE PageLen
    BY <1>0, <2>1 DEF LenLeft, PageInv
  \* The page can be completed.
  <2>3. lenLeft \in Nat /\ lenLeft <= post.dataLen
    <3>1. CASE post.received = request.len
      BY <1>0, <2>1, <2>2, <3>1
    <3>2. CASE Pages(post.dataLen)
      BY <1>0, <2>1, <2>2, <3>2, PagesLess
    <3> QED
      BY <3>1, <3>2 DEF PageInv
  <2>4. n = lenLeft
    BY <1>0, <2>3
  <2>5. u \in UploadState /\ u.len = upload.len - n /\ u.state = StateAfter(u)
    <3>1. u \in UploadState
      BY <1>0, <2>1, <2>3, <2>4, CopiedType
    <3>2. copied.len = upload.len - n
      BY <2>1 DEF Copied, UploadState
    <3> HIDE DEF n
    <3> QED
      BY <2>1, <3>1, <3>2 DEF Copied, UploadState, StateAfter
  <2>6. WriteBuffer(u)
    BY <1>3, <2>4, <2>3 DEF TakeBytes
  <2>7. /\ request' = request /\ answer' = answer
        /\ post'.received = post.received /\ post'.dataLen = post.dataLen - n
    BY <1>3 DEF TakeBytes, TypeOK
  <2> HIDE DEF u
  <2>8. /\ upload'.pagePos = 0 /\ upload'.len = upload.len - n
        /\ upload' # NoUpload /\ upload'.state = StateAfter(u)
    BY <2>5, <2>6, WriteBufferEmpties, WriteBufferType DEF NoUpload, UploadState, TypeOK
  <2>9. /\ upload'.state \in {"write", "done"}
        /\ upload'.state = "done" => upload'.len = 0
    BY <2>5, <2>8 DEF StateAfter
  <2>10. post'.received = request'.len \/ Pages(post'.dataLen)
    <3>1. CASE post.received = request.len
      BY <2>7, <3>1
    <3>2. CASE Pages(post.dataLen)
      <4>1. PageLen <= post.dataLen /\ Pages(post.dataLen - PageLen)
        BY <1>0, <2>1, <3>2, PagesLess
      <4>2. lenLeft = PageLen
        BY <1>0, <2>1, <2>2, <4>1
      <4> QED
        BY <2>4, <2>7, <4>1, <4>2
    <3> QED
      BY <3>1, <3>2 DEF PageInv
  <2> HIDE DEF n
  <2>11. upload'.len = request'.len - post'.received + post'.dataLen
    BY <1>0, <2>1, <2>3, <2>4, <2>7, <2>8
  <2> QED
    BY <2>7, <2>8, <2>9, <2>10, <2>11 DEF PageInv, Pages
<1>4. CASE Answer \/ Abort
  BY <1>4 DEF Answer, Abort, PageInv, NoUpload, Pages
<1>5. CASE UNCHANGED vars
  BY <1>5 DEF vars, PageInv, Pages
<1> QED
  BY <1>1, <1>2, <1>3, <1>4, <1>5 DEF Next

LEMMA PageStart == Init => PageInv
<1> SUFFICES ASSUME Init
             PROVE  PageInv
  OBVIOUS
<1>1. Pages(0)
  BY SizesAssumption DEF Pages
<1>2. request.len \in Nat
  BY RequestsAssumption DEF Init
<1>3. post.received = 0 /\ post.dataLen = 0
  BY DEF Init
<1>4. upload.state = "none"
  BY DEF Init, NoUpload
<1> QED
  BY <1>1, <1>2, <1>3, <1>4 DEF PageInv

\* No byte waits in the page buffer between two calls, whatever the sizes are, as
\* long as a POST block has a whole number of pages.
THEOREM PagesAreWhole == Spec => []NoPartialPage
<1>1. Init => PageInv
  BY PageStart
<1>2. TypeOK /\ PageInv /\ [Next]_vars => PageInv'
  BY PageStep
<1>3. TypeOK /\ PageInv => NoPartialPage
  BY DEF TypeOK, PageInv, NoPartialPage, UploadState
<1> QED
  BY <1>1, <1>2, <1>3, UploadTypes, PTL DEF Spec

-----------------------------------------------------------------------------
(* What a page that is written leaves in the flash.                         *)

\* Sectors do not overlap: one that starts in or before the sector of b is not behind it.
LEMMA SectorOrder ==
  ASSUME NEW a \in Int, NEW b \in Int, SectorOf(a) < SectorOf(b) + SectorSize
  PROVE  SectorOf(a) <= SectorOf(b)
<1>1. SectorSize \in Nat \ {0}
  BY SizesAssumption
<1>2. PICK q \in Int : SectorOf(a) = SectorSize * q
  BY SectorBounds
<1>3. PICK p \in Int : SectorOf(b) = SectorSize * p
  BY SectorBounds
<1>4. SectorSize * q < SectorSize * (p + 1)
  BY <1>1, <1>2, <1>3
<1>5. q <= p
  BY <1>1, <1>4
<1>6. SectorSize * q <= SectorSize * p
  BY <1>1, <1>5
<1> QED
  BY <1>2, <1>3, <1>6

LEMMA SectorGrows ==
  ASSUME NEW a \in Int, NEW b \in Int, a <= b
  PROVE  SectorOf(a) <= SectorOf(b)
<1>1. /\ SectorOf(a) \in Int /\ SectorOf(a) <= a
      /\ SectorOf(b) \in Int /\ b < SectorOf(b) + SectorSize
  BY SectorBounds
<1>2. SectorOf(a) < SectorOf(b) + SectorSize
  BY <1>1, SizesAssumption
<1> QED
  BY <1>2, SectorOrder

\* The sectors that a part of the flash meets have the bytes whose sectors lie between
\* that of its first and that of its last byte.
LEMMA SectorsMet ==
  ASSUME NEW first \in Int, NEW last \in Int, NEW a \in Int
  PROVE  a \in SectorOf(first) .. SectorOf(last) + SectorSize - 1
           <=> SectorOf(first) <= SectorOf(a) /\ SectorOf(a) <= SectorOf(last)
<1>1. /\ SectorOf(first) \in Int /\ SectorOf(last) \in Int /\ SectorOf(a) \in Int
      /\ SectorOf(a) <= a /\ a < SectorOf(a) + SectorSize /\ SectorSize \in Nat
  BY SectorBounds, SizesAssumption
<1>2. ASSUME a >= SectorOf(first) PROVE SectorOf(first) <= SectorOf(a)
  <2>1. SectorOf(first) < SectorOf(a) + SectorSize
    BY <1>1, <1>2
  <2> QED
    BY <2>1, SectorOrder
<1>3. ASSUME a <= SectorOf(last) + SectorSize - 1 PROVE SectorOf(a) <= SectorOf(last)
  <2>1. SectorOf(a) < SectorOf(last) + SectorSize
    BY <1>1, <1>3
  <2> QED
    BY <2>1, SectorOrder
<1> QED
  BY <1>1, <1>2, <1>3

\* What of a page is written: all of it, what is before the excluded sector, or what is
\* behind it; and nothing of a page that lies in the sector.
LEMMA PartOf ==
  ASSUME NEW a \in Nat, NEW n \in Nat \ {0}, n <= PageLen
  PROVE  /\ vLen(a, n) \in Nat
         /\ vLen(a, n) = 0 => a >= ExcludeStart /\ a + n <= ExcludeEnd
         /\ vLen(a, n) # 0 =>
              \/ vAddr(a, n) = a /\ vLen(a, n) = n
              \/ /\ vAddr(a, n) = a /\ a + vLen(a, n) = ExcludeStart
                 /\ ExcludeStart < a + n /\ a + n <= ExcludeEnd
              \/ /\ ExcludeStart <= a /\ a < ExcludeEnd /\ vAddr(a, n) = ExcludeEnd
                 /\ ExcludeEnd + vLen(a, n) = a + n
<1>1. /\ ExcludeStart \in Nat /\ ExcludeEnd \in Nat /\ ExcludeEnd = ExcludeStart + SectorSize
      /\ SectorSize \in Nat /\ PageLen \in Nat /\ PageLen <= SectorSize
  BY ExcludedIsSector, SizesAssumption
<1> QED
  BY <1>1 DEF vAddr, vLen, check_exclude_area

\* Which bytes are erased for a part.
LEMMA ErasedFor ==
  ASSUME NEW u, NEW addr \in Nat, NEW n \in Nat \ {0}, NEW a \in Addresses,
         NEW first, NEW last, first = SectorOf(addr), last = SectorOf(addr + n - 1)
  PROVE  a \in ToErase(u, addr, n) <=>
           /\ u.autoErase /\ first <= SectorOf(a) /\ SectorOf(a) <= last
           /\ SectorOf(a) # first \/ first # u.erasedAddress
<1>1. a \in Int /\ addr \in Int /\ addr + n - 1 \in Int
  BY SizesAssumption DEF Addresses
<1>2. a \in first .. last + SectorSize - 1 <=> first <= SectorOf(a) /\ SectorOf(a) <= last
  BY <1>1, SectorsMet
<1> QED
  BY <1>2 DEF ToErase

\* The bytes of the part, of the sectors it meets, and the others.
LEMMA WrittenIs ==
  ASSUME NEW u \in UploadState, NEW addr \in Nat, NEW n \in Nat \ {0}, NEW a \in Addresses,
         NEW first, NEW last, first = SectorOf(addr), last = SectorOf(addr + n - 1)
  PROVE  /\ a \in addr .. addr + n - 1 =>
              /\ first <= SectorOf(a) /\ SectorOf(a) <= last
              /\ u.autoErase /\ (first = u.erasedAddress /\ SectorOf(a) = first => flash[a] = Erased)
                   => Written(u, addr, n, a) = Source(u, addr, a)
              /\ Written(u, addr, n, a) \in {Source(u, addr, a), Junk}
         /\ a \notin addr .. addr + n - 1 =>
              /\ Written(u, addr, n, a) \in {flash[a], Erased}
              /\ SectorOf(a) < first \/ last < SectorOf(a) => Written(u, addr, n, a) = flash[a]
              /\ ~u.autoErase => Written(u, addr, n, a) = flash[a]
              /\ u.autoErase /\ first = u.erasedAddress /\ SectorOf(a) = first
                   => Written(u, addr, n, a) = flash[a]
              /\ u.autoErase /\ first <= SectorOf(a) /\ SectorOf(a) <= last
                   /\ (SectorOf(a) # first \/ first # u.erasedAddress)
                   => Written(u, addr, n, a) = Erased
<1>1. a \in Int /\ addr \in Int /\ addr + n - 1 \in Int
  BY SizesAssumption DEF Addresses
<1>2. SectorOf(a) \in Int /\ first \in Int /\ last \in Int
  BY <1>1, SectorBounds
<1>3. a \in ToErase(u, addr, n) <=>
        /\ u.autoErase /\ first <= SectorOf(a) /\ SectorOf(a) <= last
        /\ SectorOf(a) # first \/ first # u.erasedAddress
  BY ErasedFor
<1>4. a \in addr .. addr + n - 1 => first <= SectorOf(a) /\ SectorOf(a) <= last
  BY <1>1, SectorGrows
<1>5. PICK e \in BOOLEAN : e = (a \in ToErase(u, addr, n))
  <2>1. (a \in ToErase(u, addr, n)) \in BOOLEAN
    OBVIOUS
  <2> QED
    BY <2>1, Zenon
<1>6. e <=> /\ u.autoErase /\ first <= SectorOf(a) /\ SectorOf(a) <= last
            /\ SectorOf(a) # first \/ first # u.erasedAddress
  BY <1>3, <1>5, Zenon
<1>7. Written(u, addr, n, a) =
        IF a \in addr .. addr + n - 1
        THEN IF e \/ flash[a] = Erased THEN Source(u, addr, a) ELSE Junk
        ELSE IF e THEN Erased ELSE flash[a]
  BY <1>5 DEF Written
<1>8. SectorOf(a) < first => ~(first <= SectorOf(a))
  BY <1>2
<1>9. last < SectorOf(a) => ~(SectorOf(a) <= last)
  BY <1>2
<1> HIDE DEF Written
<1>10. CASE a \in addr .. addr + n - 1
  BY <1>4, <1>6, <1>7, <1>10, Zenon
<1>11. CASE a \notin addr .. addr + n - 1
  BY <1>6, <1>7, <1>8, <1>9, <1>11, Zenon
<1> QED
  BY <1>10, <1>11

-----------------------------------------------------------------------------
(* A round of the loop: a page, or the end of the image.                    *)

PageTaken(n, u) ==
  /\ n = PageLen \/ n = upload.len
  /\ n <= upload.len
  /\ u.pagePos = n /\ u.currentAddress = upload.currentAddress
  /\ u.len = upload.len - n /\ u.state = StateAfter(u)
  /\ u.erasedAddress = upload.erasedAddress /\ u.autoErase = upload.autoErase
  /\ \A k \in 0 .. n - 1 : u.page[k] = post.data + k
  /\ WriteBuffer(u)
  /\ request' = request /\ answer' = answer /\ post'.received = post.received
  /\ post'.data = post.data + n /\ post'.dataLen = post.dataLen - n

LEMMA TakesPage ==
  ASSUME TypeOK, PageInv, TakeBytes
  PROVE  /\ upload \in UploadState /\ upload.state = "write"
         /\ \E n \in 1 .. PageLen, u \in UploadState : PageTaken(n, u)
<1>1. /\ request.len \in Nat /\ post.received \in Nat /\ post.dataLen \in Nat
      /\ post.data \in Nat /\ PageLen \in Nat \ {0}
  BY RequestsAssumption, SizesAssumption DEF TypeOK
<1>2. /\ upload \in UploadState /\ upload.state = "write" /\ post.dataLen # 0
      /\ upload.len \in Nat /\ upload.pagePos = 0
      /\ upload.len = request.len - post.received + post.dataLen
  BY DEF TakeBytes, TypeOK, NoUpload, PageInv, UploadState
<1>3. /\ post.dataLen <= upload.len
      /\ LenLeft(upload) = IF upload.len < PageLen THEN upload.len ELSE PageLen
  BY <1>1, <1>2 DEF LenLeft, PageInv
<1>4. LenLeft(upload) \in Nat /\ LenLeft(upload) <= post.dataLen
  <2>1. CASE post.received = request.len
    BY <1>1, <1>2, <1>3, <2>1
  <2>2. CASE Pages(post.dataLen)
    BY <1>1, <1>2, <1>3, <2>2, PagesLess
  <2> QED
    BY <2>1, <2>2 DEF PageInv
<1>5. PICK n \in Nat : n = LenLeft(upload)
  BY <1>4
<1>6. /\ n \in 1 .. PageLen /\ n <= upload.len /\ n <= post.dataLen
      /\ n = PageLen \/ n = upload.len
  BY <1>1, <1>2, <1>3, <1>4, <1>5
<1>7. n = IF post.dataLen < LenLeft(upload) THEN post.dataLen ELSE LenLeft(upload)
  BY <1>1, <1>4, <1>5
<1>8. PICK copied : copied = Copied(upload, post.data, n)
  OBVIOUS
<1>9. PICK u : u = [copied EXCEPT !.state = StateAfter(copied)]
  OBVIOUS
<1>10. u \in UploadState
  <2>1. n \in Nat /\ n <= LenLeft(upload)
    BY <1>4, <1>5
  <2> QED
    BY <1>1, <1>2, <1>8, <1>9, <2>1, CopiedType
<1>11. WriteBuffer(u)
  <2>1. ~(n < LenLeft(upload))
    BY <1>5, <1>6
  <2> QED
    BY <1>7, <1>8, <1>9, <2>1 DEF TakeBytes
<1>12. /\ request' = request /\ answer' = answer
       /\ post' = [post EXCEPT !.data = @ + n, !.dataLen = @ - n]
  BY <1>7 DEF TakeBytes
<1>13. /\ post'.received = post.received /\ post'.data = post.data + n
       /\ post'.dataLen = post.dataLen - n
  BY <1>12 DEF TypeOK
<1>14. /\ copied.pagePos = upload.pagePos + n /\ copied.len = upload.len - n
       /\ copied.currentAddress = upload.currentAddress
       /\ copied.erasedAddress = upload.erasedAddress /\ copied.autoErase = upload.autoErase
       /\ \A k \in 0 .. PageLen - 1 :
            copied.page[k] = IF k \in WordSize * upload.pagePos .. WordSize * upload.pagePos + n - 1
                             THEN post.data + k - WordSize * upload.pagePos ELSE upload.page[k]
       /\ copied \in [state : {"start", "write", "done"}, currentAddress : Nat, len : Int,
                      erasedAddress : Int, autoErase : BOOLEAN, pagePos : Int,
                      page : [0 .. PageLen - 1 -> Cells]]
  <2>1. PICK pg : pg = [k \in 0 .. PageLen - 1 |->
                          IF k \in WordSize * upload.pagePos .. WordSize * upload.pagePos + n - 1
                          THEN post.data + k - WordSize * upload.pagePos ELSE upload.page[k]]
    OBVIOUS
  <2>2. pg \in [0 .. PageLen - 1 -> Cells]
    <3>1. WordSize * upload.pagePos = 0
      BY <1>2 DEF WordSize
    <3>2. ASSUME NEW k \in 0 .. PageLen - 1 PROVE pg[k] \in Cells
      <4>1. upload.page[k] \in Cells
        BY <1>2 DEF UploadState
      <4>2. PICK b \in Nat : b = post.data + k - WordSize * upload.pagePos
        <5>1. post.data + k - 0 \in Nat
          BY <1>1
        <5> QED
          BY <3>1, <5>1
      <4>3. b \in Cells
        BY DEF Cells
      <4> QED
        BY <2>1, <4>1, <4>2, <4>3
    <3> QED
      BY <2>1, <3>2
  <2>3. PICK pos \in Int, l \in Int : pos = upload.pagePos + n /\ l = upload.len - n
    BY <1>2
  <2>4. copied = [upload EXCEPT !.page = pg, !.pagePos = pos, !.len = l]
    BY <1>8, <2>1, <2>3 DEF Copied
  <2>5. /\ copied.pagePos = pos /\ copied.len = l /\ copied.page = pg
        /\ copied.currentAddress = upload.currentAddress
        /\ copied.erasedAddress = upload.erasedAddress /\ copied.autoErase = upload.autoErase
        /\ copied \in [state : {"start", "write", "done"}, currentAddress : Nat, len : Int,
                       erasedAddress : Int, autoErase : BOOLEAN, pagePos : Int,
                       page : [0 .. PageLen - 1 -> Cells]]
    BY <1>2, <2>2, <2>4 DEF UploadState
  <2> QED
    BY <2>1, <2>3, <2>5
<1>15. /\ u.pagePos = n /\ u.currentAddress = upload.currentAddress
       /\ u.len = upload.len - n /\ u.state = StateAfter(u)
       /\ u.erasedAddress = upload.erasedAddress /\ u.autoErase = upload.autoErase
       /\ u.page = copied.page
  <2>1. PICK st : st = StateAfter(copied)
    OBVIOUS
  <2>2. u = [copied EXCEPT !.state = st]
    BY <1>9, <2>1
  <2>3. /\ u.pagePos = copied.pagePos /\ u.currentAddress = copied.currentAddress
        /\ u.len = copied.len /\ u.state = st
        /\ u.erasedAddress = copied.erasedAddress /\ u.autoErase = copied.autoErase
        /\ u.page = copied.page
    BY <1>14, <2>2
  <2>4. StateAfter(u) = st
    BY <2>1, <2>3 DEF StateAfter
  <2> QED
    BY <1>2, <1>14, <2>3, <2>4
<1>16. \A k \in 0 .. n - 1 : u.page[k] = post.data + k
  <2>1. WordSize * upload.pagePos = 0
    BY <1>2 DEF WordSize
  <2>2. TAKE k \in 0 .. n - 1
  <2>3. k \in 0 .. PageLen - 1 /\ k \in 0 .. 0 + n - 1 /\ post.data + k - 0 = post.data + k
    BY <1>1, <1>6
  <2> QED
    BY <1>14, <1>15, <2>1, <2>3
<1>17. PageTaken(n, u)
  BY <1>6, <1>11, <1>12, <1>13, <1>15, <1>16 DEF PageTaken
<1> QED
  BY <1>2, <1>6, <1>10, <1>17

LEMMA Wrote ==
  ASSUME NEW u \in UploadState, WriteBuffer(u), NEW addr, NEW m,
         addr = vAddr(u.currentAddress, u.pagePos), m = vLen(u.currentAddress, u.pagePos)
  PROVE  /\ upload'.currentAddress = u.currentAddress + u.pagePos
         /\ upload'.len = u.len /\ upload'.state = u.state /\ upload'.autoErase = u.autoErase
         /\ m = 0 => flash' = flash /\ upload'.erasedAddress = u.erasedAddress
         /\ m # 0 => /\ flash' = [a \in Addresses |-> Written(u, addr, m, a)]
                     /\ upload'.erasedAddress = Remembered(u, addr, m)
<1>1. PICK nx, cur : /\ cur = u.currentAddress + u.pagePos
                     /\ nx = [u EXCEPT !.currentAddress = cur, !.pagePos = 0]
  OBVIOUS
<1>2. /\ nx.currentAddress = cur /\ nx.len = u.len /\ nx.state = u.state
      /\ nx.autoErase = u.autoErase /\ nx.erasedAddress = u.erasedAddress
      /\ nx = [state |-> u.state, currentAddress |-> cur, len |-> u.len,
               erasedAddress |-> u.erasedAddress, autoErase |-> u.autoErase,
               pagePos |-> 0, page |-> u.page]
  BY <1>1 DEF UploadState
<1>3. IF m = 0
      THEN flash' = flash /\ upload' = nx
      ELSE /\ flash' = [a \in Addresses |-> Written(u, addr, m, a)]
           /\ upload' = [nx EXCEPT !.erasedAddress = Remembered(u, addr, m)]
  BY <1>1 DEF WriteBuffer
<1>4. CASE m = 0
  BY <1>1, <1>2, <1>3, <1>4
<1>5. CASE m # 0
  <2>1. PICK e : e = Remembered(u, addr, m)
    OBVIOUS
  <2>2. upload' = [nx EXCEPT !.erasedAddress = e]
    BY <1>3, <1>5, <2>1
  <2>3. /\ upload'.currentAddress = cur /\ upload'.len = u.len /\ upload'.state = u.state
        /\ upload'.autoErase = u.autoErase /\ upload'.erasedAddress = e
    BY <1>2, <2>2
  <2> QED
    BY <1>1, <1>3, <1>5, <2>1, <2>3
<1> QED
  BY <1>4, <1>5

-----------------------------------------------------------------------------
(* Where the upload is.                                                     *)

Going == upload.state \in {"write", "done"}

\* Of the image, what was taken from the blocks is what the address has advanced by.
PlaceInv ==
  /\ answer # "no" => post.dataLen = 0 /\ upload = NoUpload
  /\ upload.state = "none" /\ answer = "no" => post.data = 0
  /\ upload.state = "start" => post.data = 0
  /\ Going => /\ post.data + upload.len = request.len
              /\ upload.currentAddress = request.start + post.data
              /\ upload.autoErase = request.autoErase

LEMMA NoneIs == NoUpload.state = "none" /\ NoUpload \notin UploadState
BY DEF NoUpload, UploadState

\* A step that takes no bytes leaves the flash, and what was taken, as it is.
LEMMA OtherSteps ==
  ASSUME [Next]_vars, ~TakeBytes
  PROVE  flash' = flash /\ request' = request
BY DEF Next, Call, Start, Answer, Abort, vars

LEMMA PlaceStart == Init => PlaceInv
<1> SUFFICES ASSUME Init
             PROVE  PlaceInv
  OBVIOUS
<1>1. answer = "no" /\ upload = NoUpload /\ post.data = 0
  BY DEF Init
<1> QED
  BY <1>1, NoneIs DEF PlaceInv, Going

LEMMA PlaceStep ==
  ASSUME TypeOK, PageInv, PlaceInv, [Next]_vars
  PROVE  PlaceInv'
<1>1. /\ request.start \in Nat /\ request.len \in Nat /\ post.data \in Nat
      /\ post \in [received : Nat, data : Nat, dataLen : Nat]
  BY RequestsAssumption DEF TypeOK
<1>2. CASE Call
  <2>1. request' = request /\ answer = "no" /\ post.dataLen = 0 /\ post'.data = post.data
    BY <1>1, <1>2 DEF Call
  <2>2. CASE upload' = (IF upload = NoUpload THEN FreshUpload ELSE upload) /\ answer' = answer
    <3>1. CASE upload = NoUpload
      <4>1. upload'.state = "start" /\ post'.data = 0
        BY <2>1, <2>2, <3>1, NoneIs DEF FreshUpload, PlaceInv
      <4> QED
        BY <2>1, <2>2, <4>1 DEF PlaceInv, Going
    <3>2. CASE upload # NoUpload
      BY <2>1, <2>2, <3>2 DEF PlaceInv, Going
    <3> QED
      BY <3>1, <3>2
  <2>3. CASE upload = NoUpload /\ answer' = "none" /\ UNCHANGED <<upload, post>>
    BY <2>1, <2>3, NoneIs DEF PlaceInv, Going
  <2> QED
    BY <1>2, <2>2, <2>3 DEF Call
<1>3. CASE Start
  <2>1. /\ upload \in UploadState /\ post.data = 0 /\ answer = "no"
        /\ request' = request /\ post' = post /\ answer' = answer
    BY <1>3, NoneIs DEF Start, TypeOK, PlaceInv
  <2>2. /\ upload'.currentAddress = request.start /\ upload'.autoErase = request.autoErase
        /\ upload'.len = request.len /\ upload'.state = "write"
    BY <1>3, <2>1 DEF Start, UploadState
  <2>3. post'.data + upload'.len = request'.len
        /\ upload'.currentAddress = request'.start + post'.data
    BY <1>1, <2>1, <2>2
  <2> QED
    BY <2>1, <2>2, <2>3 DEF PlaceInv, Going
<1>4. CASE TakeBytes
  <2>1. /\ upload \in UploadState /\ upload.state = "write"
        /\ \E n \in 1 .. PageLen, u \in UploadState : PageTaken(n, u)
    BY <1>4, TakesPage
  <2>2. PICK n \in 1 .. PageLen, u \in UploadState : PageTaken(n, u)
    BY <2>1
  <2>3. PICK addr, m : addr = vAddr(u.currentAddress, u.pagePos) /\ m = vLen(u.currentAddress, u.pagePos)
    OBVIOUS
  <2>4. /\ upload'.currentAddress = u.currentAddress + u.pagePos
        /\ upload'.len = u.len /\ upload'.state = u.state /\ upload'.autoErase = u.autoErase
    BY <2>2, <2>3, Wrote, Zenon DEF PageTaken
  <2>5. /\ upload'.currentAddress = upload.currentAddress + n
        /\ upload'.len = upload.len - n /\ upload'.autoErase = upload.autoErase
        /\ upload'.state \in {"write", "done"} /\ upload'.state = upload'.state
        /\ post'.data = post.data + n /\ request' = request /\ answer' = answer
    BY <2>2, <2>4 DEF PageTaken, StateAfter
  <2>6. answer = "no"
    BY <2>1, NoneIs DEF PlaceInv
  <2>7. /\ n \in Nat /\ upload.len \in Nat /\ post.data + upload.len = request.len
        /\ upload.currentAddress = request.start + post.data
        /\ upload.autoErase = request.autoErase
    BY <2>1, SizesAssumption DEF PlaceInv, Going, UploadState
  <2>8. /\ post'.data + upload'.len = request'.len
        /\ upload'.currentAddress = request'.start + post'.data
    BY <1>1, <2>5, <2>7
  <2>9. upload'.autoErase = request'.autoErase
    BY <2>5, <2>7
  <2> QED
    BY <2>5, <2>6, <2>8, <2>9 DEF PlaceInv, Going
<1>5. CASE Answer \/ Abort
  BY <1>5, NoneIs DEF Answer, Abort, PlaceInv, Going
<1>6. CASE UNCHANGED vars
  BY <1>6 DEF vars, PlaceInv, Going
<1> QED
  BY <1>2, <1>3, <1>4, <1>5, <1>6 DEF Next

\* A page in numbers: it lies in the image, and the part that is written lies in it.
PageAt(n, u, addr, m, cur) ==
  /\ cur \in Nat /\ cur = upload.currentAddress /\ cur = request.start + post.data
  /\ cur + n <= request.start + request.len
  /\ u.erasedAddress = upload.erasedAddress /\ u.autoErase = request.autoErase
  /\ upload'.currentAddress = cur + n /\ upload'.autoErase = request.autoErase
  /\ upload'.state \in {"write", "done"} /\ (upload'.state = "write" => n = PageLen)
  /\ request' = request /\ answer' = answer /\ post'.data = post.data + n
  /\ addr \in Nat /\ m \in Nat
  /\ m = 0 => /\ cur >= ExcludeStart /\ cur + n <= ExcludeEnd
              /\ flash' = flash /\ upload'.erasedAddress = upload.erasedAddress
  /\ m # 0 => /\ cur <= addr /\ addr + m <= cur + n
              /\ addr >= ExcludeEnd \/ addr + m <= ExcludeStart
              /\ \/ addr = cur /\ m = n
                 \/ /\ addr = cur /\ cur + m = ExcludeStart
                    /\ ExcludeStart < cur + n /\ cur + n <= ExcludeEnd
                 \/ /\ ExcludeStart <= cur /\ cur < ExcludeEnd /\ addr = ExcludeEnd
                    /\ ExcludeEnd + m = cur + n
              /\ flash' = [a \in Addresses |-> Written(u, addr, m, a)]
              /\ request.autoErase => upload'.erasedAddress = SectorOf(addr + m - 1)

LEMMA PageIs ==
  ASSUME TypeOK, PageInv, PlaceInv, TakeBytes
  PROVE  \E n \in 1 .. PageLen, u \in UploadState : PageTaken(n, u) /\
           \E addr, m, cur : PageAt(n, u, addr, m, cur)
<1>1. /\ upload \in UploadState /\ upload.state = "write"
      /\ \E n \in 1 .. PageLen, u \in UploadState : PageTaken(n, u)
  BY TakesPage
<1>2. PICK n \in 1 .. PageLen, u \in UploadState : PageTaken(n, u)
  BY <1>1
<1>3. PICK addr, m : addr = vAddr(u.currentAddress, u.pagePos) /\ m = vLen(u.currentAddress, u.pagePos)
  OBVIOUS
<1>4. /\ upload'.currentAddress = u.currentAddress + u.pagePos
      /\ upload'.len = u.len /\ upload'.state = u.state /\ upload'.autoErase = u.autoErase
      /\ m = 0 => flash' = flash /\ upload'.erasedAddress = u.erasedAddress
      /\ m # 0 => /\ flash' = [a \in Addresses |-> Written(u, addr, m, a)]
                  /\ upload'.erasedAddress = Remembered(u, addr, m)
  <2>1. WriteBuffer(u)
    BY <1>2 DEF PageTaken
  <2> QED
    BY <1>3, <2>1, Wrote
<1>5. PICK cur \in Nat : cur = upload.currentAddress
  BY <1>1 DEF UploadState
<1>6. /\ post.data + upload.len = request.len /\ cur = request.start + post.data
      /\ upload.autoErase = request.autoErase
  BY <1>1, <1>5 DEF PlaceInv, Going
<1>7. /\ request.start \in Nat /\ request.len \in Nat /\ post.data \in Nat /\ upload.len \in Nat
  BY <1>1, RequestsAssumption DEF TypeOK, UploadState
<1>8. n \in Nat \ {0} /\ n <= PageLen /\ n <= upload.len /\ PageLen \in Nat
  BY <1>2, SizesAssumption DEF PageTaken
<1>9. cur + n <= request.start + request.len
  BY <1>6, <1>7, <1>8
<1>10. /\ u.erasedAddress = upload.erasedAddress /\ u.autoErase = request.autoErase
       /\ u.currentAddress = cur /\ u.pagePos = n
       /\ request' = request /\ answer' = answer /\ post'.data = post.data + n
  BY <1>2, <1>5, <1>6 DEF PageTaken
<1>11. upload'.currentAddress = cur + n /\ upload'.autoErase = request.autoErase
  BY <1>4, <1>10
<1>12. upload'.state \in {"write", "done"} /\ (upload'.state = "write" => n = PageLen)
  <2>1. u.state = StateAfter(u) /\ u.len = upload.len - n /\ (n = PageLen \/ n = upload.len)
    BY <1>2 DEF PageTaken
  <2>2. n # PageLen => u.len = 0
    BY <1>7, <2>1
  <2> QED
    BY <1>4, <2>1, <2>2 DEF StateAfter
<1>13. addr = vAddr(cur, n) /\ m = vLen(cur, n)
  BY <1>3, <1>10
<1>14. /\ m \in Nat
       /\ m = 0 => cur >= ExcludeStart /\ cur + n <= ExcludeEnd
       /\ m # 0 =>
            \/ addr = cur /\ m = n
            \/ /\ addr = cur /\ cur + m = ExcludeStart
               /\ ExcludeStart < cur + n /\ cur + n <= ExcludeEnd
            \/ /\ ExcludeStart <= cur /\ cur < ExcludeEnd /\ addr = ExcludeEnd
               /\ ExcludeEnd + m = cur + n
  BY <1>8, <1>13, PartOf
<1>15. m # 0 => /\ cur <= addr /\ addr + m <= cur + n
                /\ addr >= ExcludeEnd \/ addr + m <= ExcludeStart
  BY <1>8, <1>13, PartOutside
<1>16. addr \in Nat
  BY <1>13, ExcludedIsSector DEF vAddr
<1>17. request.autoErase => Remembered(u, addr, m) = SectorOf(addr + m - 1)
  BY <1>10 DEF Remembered
<1>18. m = 0 => flash' = flash /\ upload'.erasedAddress = upload.erasedAddress
  BY <1>4, <1>10
<1>19. m # 0 => /\ flash' = [a \in Addresses |-> Written(u, addr, m, a)]
                /\ request.autoErase => upload'.erasedAddress = SectorOf(addr + m - 1)
  BY <1>4, <1>17
<1>20. PageAt(n, u, addr, m, cur)
  BY <1>5, <1>6, <1>9, <1>10, <1>11, <1>12, <1>14, <1>15, <1>16, <1>18, <1>19 DEF PageAt
<1> QED
  BY <1>2, <1>20

-----------------------------------------------------------------------------
(* The sectors around the image.                                            *)

\* A part of the image meets no sector but those of the image.
LEMMA OthersApart ==
  ASSUME NEW u, NEW addr \in Nat, NEW m \in Nat \ {0}, NEW start \in Nat, NEW len \in Nat,
         start <= addr, addr + m - 1 < start + len, NEW a \in Addresses,
         SectorOf(a) + SectorSize <= start \/ SectorOf(a) >= start + len
  PROVE  a \notin addr .. addr + m - 1 /\ a \notin ToErase(u, addr, m)
<1>1. /\ a \in Int /\ SectorOf(a) \in Int /\ SectorSize \in Nat \ {0}
      /\ addr + m - 1 \in Int
  BY SectorBounds, SizesAssumption DEF Addresses
<1>2. PICK first, last : first = SectorOf(addr) /\ last = SectorOf(addr + m - 1)
  OBVIOUS
<1>3. /\ first \in Int /\ first <= addr /\ addr < first + SectorSize
      /\ last \in Int /\ last <= addr + m - 1
  BY <1>1, <1>2, SectorBounds
<1>4. SectorOf(a) < first \/ last < SectorOf(a)
  BY <1>1, <1>3
<1>5. a \notin addr .. addr + m - 1
  <2>1. CASE SectorOf(a) < first
    <3>1. first <= SectorOf(a) \/ ~(addr <= a)
      BY <1>1, <1>2, SectorGrows
    <3> QED
      BY <1>1, <1>3, <2>1, <3>1
  <2>2. CASE last < SectorOf(a)
    <3>1. SectorOf(a) <= last \/ ~(a <= addr + m - 1)
      BY <1>1, <1>2, SectorGrows
    <3> QED
      BY <1>1, <1>3, <2>2, <3>1
  <2> QED
    BY <1>4, <2>1, <2>2
<1>6. ~(first <= SectorOf(a) /\ SectorOf(a) <= last)
  BY <1>1, <1>3, <1>4
<1>7. a \in ToErase(u, addr, m) <=>
        /\ u.autoErase /\ first <= SectorOf(a) /\ SectorOf(a) <= last
        /\ SectorOf(a) # first \/ first # u.erasedAddress
  BY <1>2, ErasedFor
<1> QED
  BY <1>5, <1>6, <1>7, Zenon

\* A page erases and writes in sectors that the image meets.
LEMMA OthersStep ==
  ASSUME TypeOK, PageInv, PlaceInv, OthersUntouched, [Next]_vars
  PROVE  OthersUntouched'
<1>1. CASE ~TakeBytes
  <2>1. flash' = flash /\ request' = request
    BY <1>1, OtherSteps
  <2> QED
    BY <2>1 DEF OthersUntouched
<1>2. CASE TakeBytes
  <2>1. PICK n \in 1 .. PageLen, u \in UploadState :
          PageTaken(n, u) /\ \E addr, m, cur : PageAt(n, u, addr, m, cur)
    BY <1>2, PageIs
  <2>2. PICK addr, m, cur : PageAt(n, u, addr, m, cur)
    BY <2>1
  <2>3. request' = request /\ (m = 0 => flash' = flash) /\ m \in Nat /\ addr \in Nat
    BY <2>2 DEF PageAt
  <2>4. CASE m = 0
    BY <2>3, <2>4 DEF OthersUntouched
  <2>5. CASE m # 0
    <3>1. /\ flash' = [a \in Addresses |-> Written(u, addr, m, a)]
          /\ cur \in Nat /\ n \in Nat /\ m \in Nat \ {0} /\ request.start \in Nat
          /\ post.data \in Nat /\ request.len \in Nat
          /\ cur = request.start + post.data /\ cur <= addr /\ addr + m <= cur + n
          /\ cur + n <= request.start + request.len
      <4>1. /\ request.start \in Nat /\ request.len \in Nat /\ post.data \in Nat
        BY RequestsAssumption DEF TypeOK
      <4>2. n \in Nat
        BY SizesAssumption
      <4> QED
        BY <2>2, <2>3, <2>5, <4>1, <4>2, Zenon DEF PageAt
    <3>2. request.start <= addr /\ addr + m - 1 < request.start + request.len
          /\ addr + m - 1 \in Int
      BY <3>1, <2>3
    <3>3. ASSUME NEW a \in Addresses,
                 \/ SectorOf(a) + SectorSize <= request.start
                 \/ SectorOf(a) >= request.start + request.len
          PROVE  flash'[a] = flash[a]
      <4>1. Written(u, addr, m, a) = flash[a]
        BY <2>3, <3>1, <3>2, <3>3, OthersApart DEF Written
      <4> QED
        BY <3>1, <4>1
    <3> QED
      BY <2>3, <3>3 DEF OthersUntouched
  <2> QED
    BY <2>4, <2>5
<1> QED
  BY <1>1, <1>2

\* The sectors that the image does not meet are the same after the upload, wherever
\* it starts and whether or not it erases. (write_buffer)
THEOREM OthersAreLeft == Spec => []OthersUntouched
<1>1. Init => OthersUntouched
  BY DEF Init, OthersUntouched
<1>2. TypeOK /\ PageInv /\ PlaceInv /\ OthersUntouched /\ [Next]_vars => OthersUntouched'
  BY OthersStep
<1>3. Init => PageInv
  BY PageStart
<1>4. TypeOK /\ PageInv /\ [Next]_vars => PageInv'
  BY PageStep
<1>5. Init => PlaceInv
  BY PlaceStart
<1>6. TypeOK /\ PageInv /\ PlaceInv /\ [Next]_vars => PlaceInv'
  BY PlaceStep
<1> QED
  BY <1>1, <1>2, <1>3, <1>4, <1>5, <1>6, UploadTypes, PTL DEF Spec

-----------------------------------------------------------------------------
(* Bytes that are written stay.                                             *)

\* Of the sector that was erased last, what lies behind the address is still erased;
\* it is the sector of the last byte, unless that lies in the excluded sector.
ErasedInv ==
  Going /\ request.autoErase =>
    /\ upload.currentAddress > request.start /\ upload.currentAddress - 1 \notin Excluded
         => upload.erasedAddress = SectorOf(upload.currentAddress - 1)
    /\ \A a \in Addresses :
         a >= upload.currentAddress /\ SectorOf(a) = upload.erasedAddress => flash[a] = Erased

\* Only what was taken from the blocks is in the flash.
WrittenInv ==
  /\ upload.state \in {"none", "start"} /\ answer = "no" => \A a \in Addresses : flash[a] = Old
  /\ Going => \A a \in Addresses :
                flash[a] \in Nat => /\ request.start <= a /\ a < upload.currentAddress
                                    /\ a \notin Excluded

\* A part of a page does not meet the bytes before the page: the sector that its first
\* byte shares with them is the one that was erased last.
LEMMA BytesApart ==
  ASSUME TypeOK, ErasedInv, WrittenInv, Going,
         NEW u \in UploadState, NEW addr \in Nat, NEW m \in Nat \ {0}, NEW cur \in Nat,
         cur = upload.currentAddress, cur <= addr,
         u.erasedAddress = upload.erasedAddress, u.autoErase = request.autoErase,
         NEW a \in Addresses, flash[a] \in Nat
  PROVE  a \notin addr .. addr + m - 1 /\ a \notin ToErase(u, addr, m)
<1>1. request.start <= a /\ a < cur /\ a \notin Excluded
  <2>1. a < upload.currentAddress => a < cur
    OBVIOUS
  <2> QED
    BY <2>1 DEF WrittenInv
<1>2. a \in Int /\ request.start \in Nat
  <2>1. a \in Int
    BY SizesAssumption DEF Addresses
  <2>2. request.start \in Nat
    BY RequestsAssumption DEF TypeOK
  <2> QED
    BY <2>1, <2>2
<1>3. PICK first, last : first = SectorOf(addr) /\ last = SectorOf(addr + m - 1)
  OBVIOUS
<1>4. a \notin addr .. addr + m - 1
  BY <1>1, <1>2
<1>5. first \in Int /\ SectorOf(a) \in Int /\ SectorOf(a) <= first
  <2>1. a <= addr /\ addr \in Int
    BY <1>1, <1>2
  <2> QED
    BY <1>2, <1>3, <2>1, SectorGrows, SectorBounds
<1>6. CASE SectorOf(a) < first
  <2>1. ~(first <= SectorOf(a))
    BY <1>5, <1>6
  <2> QED
    BY <1>3, <1>4, <2>1, ErasedFor
<1>7. CASE SectorOf(a) = first
  <2>1. cur > request.start /\ cur - 1 \in Int /\ cur \in Int
    BY <1>1, <1>2
  <2>2. SectorOf(cur - 1) = first
    <3>1. a <= cur - 1 /\ cur - 1 <= addr
      BY <1>1, <1>2
    <3>2. SectorOf(a) <= SectorOf(cur - 1) /\ SectorOf(cur - 1) <= first
      BY <1>2, <1>3, <2>1, <3>1, SectorGrows
    <3>3. SectorOf(cur - 1) \in Int
      BY <2>1, SectorBounds
    <3> QED
      BY <1>5, <1>7, <3>2, <3>3
  <2>3. cur - 1 \notin Excluded
    <3>1. a < ExcludeStart \/ a >= ExcludeEnd
      BY <1>1, <1>2, ExcludedIsSector DEF Excluded
    <3>2. CASE a < ExcludeStart
      <4>1. first + SectorSize <= ExcludeStart /\ cur - 1 < first + SectorSize
        BY <1>2, <1>7, <2>1, <2>2, <3>2, SectorBefore, SectorBounds
      <4> QED
        BY <1>5, <2>1, <4>1, ExcludedIsSector, SizesAssumption DEF Excluded
    <3>3. CASE a >= ExcludeEnd
      BY <1>1, <1>2, <2>1, <3>3, ExcludedIsSector DEF Excluded
    <3> QED
      BY <3>1, <3>2, <3>3
  <2>4. request.autoErase => first = u.erasedAddress
    BY <2>1, <2>2, <2>3 DEF ErasedInv
  <2> QED
    BY <1>3, <1>4, <1>7, <2>4, ErasedFor
<1> QED
  BY <1>5, <1>6, <1>7

\* So a page leaves them as they are.
LEMMA KeepsBytes ==
  ASSUME TypeOK, PlaceInv, ErasedInv, WrittenInv, Going,
         NEW n \in 1 .. PageLen, NEW u \in UploadState, NEW addr, NEW m, NEW cur,
         PageAt(n, u, addr, m, cur), NEW a \in Addresses, flash[a] \in Nat
  PROVE  flash'[a] = flash[a]
<1>1. /\ cur \in Nat /\ addr \in Nat /\ m \in Nat /\ cur = upload.currentAddress
      /\ u.erasedAddress = upload.erasedAddress /\ u.autoErase = request.autoErase
  BY DEF PageAt
<1>2. CASE m = 0
  BY <1>2 DEF PageAt
<1>3. CASE m # 0
  <2>1. flash' = [b \in Addresses |-> Written(u, addr, m, b)] /\ cur <= addr
    BY <1>3 DEF PageAt
  <2>2. m \in Nat \ {0}
    BY <1>1, <1>3
  <2>3. a \notin addr .. addr + m - 1 /\ a \notin ToErase(u, addr, m)
    BY <1>1, <2>1, <2>2, BytesApart
  <2>4. Written(u, addr, m, a) = flash[a]
    BY <2>3 DEF Written
  <2> QED
    BY <2>1, <2>4
<1> QED
  BY <1>1, <1>2, <1>3

\* What a page leaves of the invariants, for the three places of its part.
LEMMA PageKeeps ==
  ASSUME TypeOK, PlaceInv, ErasedInv, WrittenInv, Going,
         NEW n \in 1 .. PageLen, NEW u \in UploadState, NEW addr, NEW m, NEW cur,
         PageAt(n, u, addr, m, cur)
  PROVE  ErasedInv' /\ WrittenInv'
<1>1. /\ cur \in Nat /\ addr \in Nat /\ m \in Nat /\ cur = upload.currentAddress
      /\ u.erasedAddress = upload.erasedAddress /\ u.autoErase = request.autoErase
      /\ upload'.currentAddress = cur + n /\ request' = request
      /\ upload'.state \in {"write", "done"}
  BY DEF PageAt
<1>2. n \in Nat \ {0}
  BY SizesAssumption
<1>3. PICK next \in Nat : next = cur + n
  BY <1>1, <1>2
<1>4. m = 0 => /\ cur >= ExcludeStart /\ next <= ExcludeEnd
               /\ flash' = flash /\ upload'.erasedAddress = upload.erasedAddress
  BY <1>3 DEF PageAt
<1>5. m # 0 => /\ cur <= addr /\ addr + m <= next
               /\ addr >= ExcludeEnd \/ addr + m <= ExcludeStart
               /\ addr + m = next \/ (ExcludeStart < next /\ next <= ExcludeEnd)
               /\ flash' = [a \in Addresses |-> Written(u, addr, m, a)]
               /\ request.autoErase => upload'.erasedAddress = SectorOf(addr + m - 1)
  BY <1>1, <1>2, <1>3, ExcludedIsSector DEF PageAt
<1>6. request.start \in Nat /\ request.start <= cur
  <2>1. request.start \in Nat /\ post.data \in Nat
    BY RequestsAssumption DEF TypeOK
  <2>2. cur = request.start + post.data
    BY DEF PageAt
  <2> QED
    BY <2>1, <2>2
<1>7. \A a \in Addresses : a \in Int
  BY SizesAssumption DEF Addresses
<1>8. ASSUME request.autoErase, next - 1 \notin Excluded
      PROVE  upload'.erasedAddress = SectorOf(next - 1)
  <2>1. m # 0 /\ addr + m = next
    BY <1>1, <1>2, <1>3, <1>4, <1>5, <1>8, ExcludedIsSector DEF Excluded
  <2>2. PICK z \in Int : z = addr + m - 1
    BY <1>1
  <2>3. upload'.erasedAddress = SectorOf(z)
    BY <1>5, <1>8, <2>1, <2>2, Zenon
  <2>4. z = next - 1
    BY <1>1, <1>3, <2>1, <2>2
  <2> QED
    BY <2>3, <2>4, Zenon
<1>9. ASSUME request.autoErase, NEW a \in Addresses, a >= next, SectorOf(a) = upload'.erasedAddress
      PROVE  flash'[a] = Erased
  <2>1. a \in Int /\ a >= cur
    BY <1>1, <1>2, <1>3, <1>7, <1>9
  <2>2. CASE m = 0
    BY <1>1, <1>4, <1>9, <2>1, <2>2 DEF ErasedInv
  <2>3. CASE m # 0
    <3>1. m \in Nat \ {0}
      BY <1>1, <2>3
    <3>2. PICK first, last : first = SectorOf(addr) /\ last = SectorOf(addr + m - 1)
      OBVIOUS
    <3>3. SectorOf(a) = last
      BY <1>5, <1>9, <2>3, <3>2
    <3>4. a \notin addr .. addr + m - 1
      BY <1>1, <1>3, <1>5, <1>9, <2>1, <2>3
    <3>5. first \in Int /\ last \in Int /\ first <= last
      <4>1. addr \in Int /\ addr + m - 1 \in Int /\ addr <= addr + m - 1
        BY <1>1, <3>1
      <4> QED
        BY <3>2, <4>1, SectorGrows, SectorBounds
    <3>6. Written(u, addr, m, a) = Erased
      <4>1. CASE last = first /\ first = u.erasedAddress
        <5>1. flash[a] = Erased
          BY <1>1, <1>9, <2>1, <3>3, <4>1 DEF ErasedInv
        <5>2. Written(u, addr, m, a) \in {flash[a], Erased}
          BY <1>1, <3>1, <3>2, <3>4, WrittenIs
        <5> QED
          BY <5>1, <5>2
      <4>2. CASE ~(last = first /\ first = u.erasedAddress)
        <5>1. first <= SectorOf(a) /\ SectorOf(a) <= last
          BY <3>3, <3>5
        <5>2. SectorOf(a) # first \/ first # u.erasedAddress
          BY <3>3, <4>2
        <5>3. u.autoErase
          BY <1>1, <1>9
        <5> QED
          BY <1>1, <3>1, <3>2, <3>4, <5>1, <5>2, <5>3, WrittenIs
      <4> QED
        BY <4>1, <4>2
    <3> QED
      BY <1>5, <2>3, <3>6
  <2> QED
    BY <2>2, <2>3
<1>10. ASSUME NEW a \in Addresses, flash'[a] \in Nat
       PROVE  request.start <= a /\ a < next /\ a \notin Excluded
  <2>1. flash[a] \in Nat => request.start <= a /\ a < cur /\ a \notin Excluded
    BY <1>1 DEF WrittenInv
  <2>2. a \in Int
    BY <1>7
  <2>3. flash[a] \in Nat => request.start <= a /\ a < next /\ a \notin Excluded
    BY <1>1, <1>2, <1>3, <2>1, <2>2
  <2>4. CASE m = 0
    BY <1>4, <1>10, <2>3, <2>4
  <2>5. CASE m # 0
    <3>1. m \in Nat \ {0}
      BY <1>1, <2>5
    <3>2. CASE a \in addr .. addr + m - 1
      <4>1. request.start <= a /\ a < next
        BY <1>1, <1>3, <1>5, <1>6, <2>2, <2>5, <3>2
      <4>2. a >= ExcludeEnd \/ a < ExcludeStart
        BY <1>1, <1>5, <2>2, <2>5, <3>2, ExcludedIsSector
      <4> QED
        BY <2>2, <4>1, <4>2, ExcludedIsSector DEF Excluded
    <3>3. CASE a \notin addr .. addr + m - 1
      <4>1. Written(u, addr, m, a) \in {flash[a], Erased}
        BY <1>1, <3>1, <3>3, WrittenIs
      <4>2. flash'[a] \in {flash[a], Erased}
        BY <1>5, <2>5, <4>1
      <4>3. Erased \notin Nat
        BY DEF Erased
      <4> QED
        BY <1>10, <2>3, <4>2, <4>3
    <3> QED
      BY <3>2, <3>3
  <2> QED
    BY <2>4, <2>5
<1>11. ErasedInv'
  BY <1>1, <1>3, <1>8, <1>9 DEF ErasedInv
<1>12. WrittenInv'
  <2>1. upload'.state # "none" /\ upload'.state # "start"
    BY <1>1
  <2> QED
    BY <1>1, <1>3, <1>10, <2>1 DEF WrittenInv
<1> QED
  BY <1>11, <1>12

LEMMA BytesStart == Init => ErasedInv /\ WrittenInv
<1> SUFFICES ASSUME Init
             PROVE  ErasedInv /\ WrittenInv
  OBVIOUS
<1>1. upload.state = "none" /\ \A a \in Addresses : flash[a] = Old
  BY NoneIs DEF Init
<1> QED
  BY <1>1 DEF ErasedInv, WrittenInv, Going

LEMMA BytesStep ==
  ASSUME TypeOK, PageInv, PlaceInv, ErasedInv, WrittenInv, [Next]_vars
  PROVE  ErasedInv' /\ WrittenInv'
<1>1. CASE TakeBytes
  <2>1. PICK n \in 1 .. PageLen, u \in UploadState :
          PageTaken(n, u) /\ \E addr, m, cur : PageAt(n, u, addr, m, cur)
    BY <1>1, PageIs
  <2>2. PICK addr, m, cur : PageAt(n, u, addr, m, cur)
    BY <2>1
  <2>3. Going
    BY <1>1 DEF TakeBytes, Going
  <2> QED
    BY <2>2, <2>3, PageKeeps
<1>2. CASE Start
  <2>1. /\ upload \in UploadState /\ upload.state = "start" /\ answer = "no"
        /\ request' = request /\ flash' = flash
    BY <1>2, NoneIs DEF Start, TypeOK, PlaceInv
  <2>2. /\ upload'.currentAddress = request.start /\ upload'.state = "write"
        /\ upload'.erasedAddress = SectorOf(request.start - SectorSize)
    BY <1>2, <2>1 DEF Start, UploadState
  <2>3. /\ request.start \in Nat /\ SectorSize \in Nat \ {0}
        /\ request.start - SectorSize \in Int
    <3>1. request.start \in Nat
      BY RequestsAssumption DEF TypeOK
    <3>2. SectorSize \in Nat \ {0}
      BY SizesAssumption
    <3> QED
      BY <3>1, <3>2
  <2>4. ASSUME NEW a \in Addresses, a >= request.start
        PROVE  SectorOf(a) # SectorOf(request.start - SectorSize)
    <3>1. a \in Int
      BY SizesAssumption DEF Addresses
    <3>2. /\ SectorOf(a) \in Int /\ a < SectorOf(a) + SectorSize
          /\ SectorOf(request.start - SectorSize) <= request.start - SectorSize
      BY <2>3, <3>1, SectorBounds
    <3> QED
      BY <2>3, <2>4, <3>1, <3>2
  <2>5. \A a \in Addresses : flash[a] = Old /\ ~(flash[a] \in Nat)
    BY <2>1 DEF WrittenInv, Old
  <2>6. ~(request.start > request.start)
    BY <2>3
  <2>7. ErasedInv'
    BY <2>1, <2>2, <2>4, <2>6 DEF ErasedInv
  <2>8. WrittenInv'
    BY <2>1, <2>2, <2>5 DEF WrittenInv
  <2> QED
    BY <2>7, <2>8
<1>3. CASE Call
  <2>1. request' = request /\ flash' = flash /\ answer = "no"
    BY <1>3 DEF Call
  <2>2. CASE upload' = (IF upload = NoUpload THEN FreshUpload ELSE upload) /\ answer' = answer
    <3>1. CASE upload = NoUpload
      <4>1. upload'.state = "start" /\ \A a \in Addresses : flash[a] = Old
        BY <2>1, <2>2, <3>1, NoneIs DEF FreshUpload, WrittenInv
      <4> QED
        BY <2>1, <4>1 DEF ErasedInv, WrittenInv, Going
    <3>2. CASE upload # NoUpload
      <4>1. upload' = upload
        BY <2>2, <3>2
      <4> QED
        BY <2>1, <2>2, <4>1 DEF ErasedInv, WrittenInv, Going
    <3> QED
      BY <3>1, <3>2
  <2>3. CASE upload = NoUpload /\ answer' = "none" /\ UNCHANGED <<upload, post>>
    <3>1. upload'.state = "none" /\ answer' = "none"
      BY <2>3, NoneIs
    <3> QED
      BY <3>1 DEF ErasedInv, WrittenInv, Going
  <2> QED
    BY <1>3, <2>2, <2>3 DEF Call
<1>4. CASE Answer \/ Abort
  <2>1. upload'.state = "none" /\ answer' # "no"
    BY <1>4, NoneIs DEF Answer, Abort
  <2> QED
    BY <2>1 DEF ErasedInv, WrittenInv, Going
<1>5. CASE UNCHANGED vars
  BY <1>5 DEF vars, ErasedInv, WrittenInv, Going
<1> QED
  BY <1>1, <1>2, <1>3, <1>4, <1>5 DEF Next

\* A byte of the image that is in the flash is not erased or written again by a later
\* page, whatever the address of the upload is. (write_buffer)
THEOREM BytesStay == Spec => WrittenStays
<1>1. Init => PageInv
  BY PageStart
<1>2. TypeOK /\ PageInv /\ [Next]_vars => PageInv'
  BY PageStep
<1>3. Init => PlaceInv
  BY PlaceStart
<1>4. TypeOK /\ PageInv /\ PlaceInv /\ [Next]_vars => PlaceInv'
  BY PlaceStep
<1>5. Init => ErasedInv /\ WrittenInv
  BY BytesStart
<1>6. TypeOK /\ PageInv /\ PlaceInv /\ ErasedInv /\ WrittenInv /\ [Next]_vars
        => ErasedInv' /\ WrittenInv'
  BY BytesStep
<1>7. TypeOK /\ PageInv /\ PlaceInv /\ ErasedInv /\ WrittenInv /\ [Next]_vars
        => [\A a \in Addresses : flash[a] \in Nat => flash'[a] = flash[a]]_vars
  <2> SUFFICES ASSUME TypeOK, PageInv, PlaceInv, ErasedInv, WrittenInv, [Next]_vars,
                      NEW a \in Addresses, flash[a] \in Nat
               PROVE  flash'[a] = flash[a]
    OBVIOUS
  <2>1. CASE ~TakeBytes
    BY <2>1, OtherSteps
  <2>2. CASE TakeBytes
    <3>1. PICK n \in 1 .. PageLen, u \in UploadState :
            PageTaken(n, u) /\ \E addr, m, cur : PageAt(n, u, addr, m, cur)
      BY <2>2, PageIs
    <3>2. PICK addr, m, cur : PageAt(n, u, addr, m, cur)
      BY <3>1
    <3>3. Going
      BY <2>2 DEF TakeBytes, Going
    <3> QED
      BY <3>2, <3>3, KeepsBytes
  <2> QED
    BY <2>1, <2>2
<1> QED
  BY <1>1, <1>2, <1>3, <1>4, <1>5, <1>6, <1>7, UploadTypes, PTL DEF Spec, WrittenStays

-----------------------------------------------------------------------------
(* The image.                                                               *)

\* No page crosses the end of the excluded area: true of every upload to the start
\* of a sector when a sector has a whole number of pages.
NoPageStraddles == \A s \in Starts : s < ExcludeEnd => Pages(ExcludeEnd - s)

LEMMA AlignedNeverStraddle ==
  ASSUME Pages(SectorSize), \A s \in Starts : s % SectorSize = 0
  PROVE  NoPageStraddles
<1> SUFFICES ASSUME NEW s \in Starts
             PROVE  Pages(ExcludeEnd - s)
  BY DEF NoPageStraddles
<1>1. s \in Int /\ SectorSize \in Nat \ {0} /\ s % SectorSize = 0
  BY RequestsAssumption, SizesAssumption
<1>2. SectorOf(s) = s
  BY <1>1 DEF SectorOf
<1>3. PICK q \in Int : s = SectorSize * q
  BY <1>1, <1>2, SectorBounds
<1>4. PICK e \in Int : ExcludeStart = SectorSize * e
  BY ExcludedIsSector
<1>5. PICK p \in Int : SectorSize = PageLen * p
  BY DEF Pages
<1>6. PageLen \in Int
  BY SizesAssumption
<1>7. ExcludeEnd - s = SectorSize * (e + 1 - q)
  BY <1>1, <1>3, <1>4 DEF ExcludeEnd
<1>8. PICK w \in Int : w = e + 1 - q
  OBVIOUS
<1>9. ExcludeEnd - s = (PageLen * p) * w
  BY <1>5, <1>7, <1>8
<1>10. (PageLen * p) * w = PageLen * (p * w) /\ p * w \in Int
  BY <1>6
<1> QED
  BY <1>9, <1>10 DEF Pages

\* What was taken from the blocks is in the flash, and the pages do not straddle.
ImageInv ==
  /\ Going /\ request.autoErase =>
       \A k \in 0 .. post.data - 1 :
         request.start + k \notin Excluded => flash[request.start + k] = k
  /\ upload.state = "write" /\ upload.currentAddress < ExcludeEnd
       => Pages(ExcludeEnd - upload.currentAddress)

\* A page is written as it came when its part starts where the page does.
LEMMA PageArrives ==
  ASSUME TypeOK, PlaceInv, ErasedInv, Going, request.autoErase,
         NEW n \in 1 .. PageLen, NEW u \in UploadState, NEW addr, NEW m, NEW cur,
         PageTaken(n, u), PageAt(n, u, addr, m, cur), m # 0 => addr = cur,
         NEW k \in 0 .. n - 1, cur + k \notin Excluded
  PROVE  flash'[cur + k] = post.data + k
<1>1. /\ cur \in Nat /\ m \in Nat /\ cur = upload.currentAddress
      /\ u.erasedAddress = upload.erasedAddress /\ u.autoErase = request.autoErase
      /\ u.currentAddress = upload.currentAddress
      /\ cur + n <= request.start + request.len
  BY DEF PageAt, PageTaken
<1>2. PageLen \in Nat \ {0} /\ n \in Nat /\ n <= PageLen /\ k \in Nat /\ k < n
  BY SizesAssumption
<1>3. PICK a \in Nat : a = cur + k
  BY <1>1, <1>2
<1>4. a \in Addresses
  <2>1. /\ request.start \in Starts /\ request.len \in Lengths
        /\ request.start \in Nat /\ request.len \in Nat /\ FlashSize \in Nat
    BY RequestsAssumption, SizesAssumption DEF TypeOK
  <2>2. request.start + request.len <= FlashSize
    BY <2>1, RequestsAssumption
  <2> QED
    BY <1>1, <1>2, <1>3, <2>1, <2>2 DEF Addresses
<1>5. m # 0 /\ a < cur + m
  <2>1. ~(ExcludeStart <= a /\ a < ExcludeEnd)
    BY <1>3, ExcludedIsSector DEF Excluded
  <2>2. CASE m = 0
    <3>1. cur >= ExcludeStart /\ cur + n <= ExcludeEnd
      BY <2>2 DEF PageAt
    <3> QED
      BY <1>1, <1>2, <1>3, <2>1, <3>1, ExcludedIsSector
  <2>3. CASE m # 0
    <3>1. \/ m = n
          \/ cur + m = ExcludeStart /\ cur + n <= ExcludeEnd
          \/ cur < ExcludeEnd /\ addr = ExcludeEnd
      BY <2>3, Zenon DEF PageAt
    <3>2. addr = cur
      BY <2>3
    <3> QED
      BY <1>1, <1>2, <1>3, <2>1, <2>3, <3>1, <3>2, ExcludedIsSector
  <2> QED
    BY <2>2, <2>3
<1>6. addr = cur /\ flash' = [b \in Addresses |-> Written(u, addr, m, b)]
  BY <1>5 DEF PageAt
<1>7. a \in cur .. cur + m - 1 /\ m \in Nat \ {0}
  BY <1>1, <1>2, <1>3, <1>5
<1>8. PICK first, last : first = SectorOf(cur) /\ last = SectorOf(cur + m - 1)
  OBVIOUS
<1>9. first = u.erasedAddress /\ SectorOf(a) = first => flash[a] = Erased
  <2>1. a >= cur
    BY <1>1, <1>2, <1>3
  <2> QED
    BY <1>1, <1>4, <2>1 DEF ErasedInv
<1>10. Written(u, cur, m, a) = Source(u, cur, a)
  <2>1. u.autoErase
    BY <1>1
  <2> QED
    BY <1>1, <1>4, <1>7, <1>8, <1>9, <2>1, WrittenIs
<1>11. Source(u, cur, a) = u.page[k]
  <2>1. PICK j : j = WordSize * (cur - u.currentAddress) + (a - cur)
    OBVIOUS
  <2>2. j = k /\ k < PageLen
    BY <1>1, <1>2, <1>3, <2>1 DEF WordSize
  <2> QED
    BY <2>1, <2>2 DEF Source
<1>12. u.page[k] = post.data + k
  BY DEF PageTaken
<1>13. flash'[a] = post.data + k
  BY <1>4, <1>6, <1>10, <1>11, <1>12
<1> QED
  BY <1>3, <1>13

LEMMA ImageStep ==
  ASSUME NoPageStraddles
  PROVE  /\ TypeOK /\ PageInv /\ PlaceInv /\ ErasedInv /\ WrittenInv
         /\ ImageInv /\ [Next]_vars
         => ImageInv'
<1> SUFFICES ASSUME TypeOK, PageInv, PlaceInv, ErasedInv, WrittenInv, ImageInv, [Next]_vars
             PROVE  ImageInv'
  OBVIOUS
<1>1. CASE TakeBytes
  <2>1. PICK n \in 1 .. PageLen, u \in UploadState :
          PageTaken(n, u) /\ \E addr, m, cur : PageAt(n, u, addr, m, cur)
    BY <1>1, PageIs
  <2>2. PICK addr, m, cur : PageAt(n, u, addr, m, cur)
    BY <2>1
  <2>3. Going /\ upload.state = "write"
    BY <1>1 DEF TakeBytes, Going
  <2>4. /\ cur \in Nat /\ cur = upload.currentAddress /\ cur = request.start + post.data
        /\ upload'.currentAddress = cur + n /\ request' = request /\ post'.data = post.data + n
        /\ upload'.state = "write" => n = PageLen
    BY <2>2 DEF PageAt
  <2>5. PageLen \in Nat \ {0} /\ n \in Nat \ {0} /\ n <= PageLen
    BY SizesAssumption
  <2>6. request.start \in Nat /\ post.data \in Nat /\ request.len \in Nat
    BY RequestsAssumption DEF TypeOK
  <2>7. cur < ExcludeEnd =>
          PageLen <= ExcludeEnd - cur /\ Pages(ExcludeEnd - cur - PageLen)
    <3>1. SUFFICES ASSUME cur < ExcludeEnd
                   PROVE  PageLen <= ExcludeEnd - cur /\ Pages(ExcludeEnd - cur - PageLen)
      OBVIOUS
    <3>2. PICK left \in Nat \ {0} : left = ExcludeEnd - cur
      BY <2>4, <3>1, ExcludedIsSector
    <3>3. Pages(left)
      BY <2>3, <2>4, <3>1, <3>2 DEF ImageInv
    <3> QED
      BY <3>2, <3>3, PagesLess
  <2>8. m # 0 => addr = cur
    <3>1. m # 0 =>
            \/ addr = cur
            \/ cur < ExcludeEnd /\ ExcludeEnd + m = cur + n
      BY <2>2, Zenon DEF PageAt
    <3>2. m \in Nat
      BY <2>2 DEF PageAt
    <3> QED
      BY <2>4, <2>5, <2>7, <3>1, <3>2, ExcludedIsSector
  <2>9. PICK d \in Nat, next \in Nat : d = post.data + n /\ next = cur + n
    BY <2>4, <2>5, <2>6
  <2>10. ASSUME request.autoErase, NEW k \in 0 .. d - 1, request.start + k \notin Excluded
        PROVE  flash'[request.start + k] = k
    <3>1. k \in Nat /\ k < post.data + n
      BY <2>9
    <3>2. CASE k < post.data
      <4>1. k \in 0 .. post.data - 1
        BY <2>6, <3>1, <3>2
      <4>2. flash[request.start + k] = k
        BY <2>3, <2>10, <4>1 DEF ImageInv
      <4>3. request.start + k \in Addresses
        <5>1. request.start \in Starts /\ request.len \in Lengths /\ FlashSize \in Nat
          BY SizesAssumption DEF TypeOK
        <5>2. request.start + request.len <= FlashSize
          BY <5>1, RequestsAssumption
        <5>3. cur + n <= request.start + request.len
          BY <2>2 DEF PageAt
        <5> QED
          BY <2>4, <2>5, <2>6, <3>1, <3>2, <5>1, <5>2, <5>3 DEF Addresses
      <4>4. PICK a \in Addresses : a = request.start + k
        BY <4>3
      <4>5. flash[a] = k
        BY <4>2, <4>4
      <4>6. flash'[a] = flash[a]
        BY <2>2, <2>3, <3>1, <4>5, KeepsBytes
      <4> QED
        BY <4>4, <4>5, <4>6
    <3>3. CASE k >= post.data
      <4>1. PICK j \in 0 .. n - 1 : j = k - post.data
        BY <2>5, <2>6, <3>1, <3>3
      <4>2. cur + j = request.start + k /\ post.data + j = k
        BY <2>4, <2>6, <3>1, <4>1
      <4>3. cur + j \notin Excluded
        BY <2>10, <4>2
      <4>4. flash'[cur + j] = post.data + j
        BY <2>1, <2>2, <2>3, <2>8, <2>10, <4>3, PageArrives
      <4> QED
        BY <4>2, <4>4
    <3> QED
      BY <2>6, <3>1, <3>2, <3>3
  <2>11. upload'.state = "write" /\ cur + n < ExcludeEnd => Pages(ExcludeEnd - (cur + n))
    <3>1. SUFFICES ASSUME upload'.state = "write", cur + n < ExcludeEnd
                   PROVE  Pages(ExcludeEnd - (cur + n))
      OBVIOUS
    <3>2. n = PageLen /\ cur < ExcludeEnd
      BY <2>4, <2>5, <3>1, ExcludedIsSector
    <3>3. PICK left \in Int : left = ExcludeEnd - cur - PageLen
      BY <2>4, <2>5, ExcludedIsSector
    <3>4. left = ExcludeEnd - (cur + n)
      BY <2>4, <2>5, <3>2, <3>3, ExcludedIsSector
    <3>5. Pages(left)
      BY <2>7, <3>2, <3>3
    <3> QED
      BY <3>4, <3>5
  <2>12. post'.data = d /\ upload'.currentAddress = next /\ request' = request
    BY <2>4, <2>9
  <2>13. upload'.state = "write" /\ next < ExcludeEnd => Pages(ExcludeEnd - next)
    BY <2>9, <2>11
  <2> QED
    BY <2>10, <2>12, <2>13, Zenon DEF ImageInv
<1>2. CASE Start
  <2>1. /\ upload \in UploadState /\ post.data = 0
        /\ request' = request /\ post' = post
    BY <1>2, NoneIs DEF Start, TypeOK, PlaceInv
  <2>2. upload'.currentAddress = request.start
    BY <1>2, <2>1 DEF Start, UploadState
  <2>3. request.start \in Starts /\ \A k \in 0 .. 0 - 1 : FALSE
    BY DEF TypeOK
  <2> QED
    BY <2>1, <2>2, <2>3 DEF ImageInv, NoPageStraddles
<1>3. CASE Call
  <2>1. request' = request /\ flash' = flash /\ post'.data = post.data
    BY <1>3 DEF Call, TypeOK
  <2>2. upload' = upload \/ upload'.state = "start"
    BY <1>3 DEF Call, FreshUpload
  <2> QED
    BY <2>1, <2>2 DEF ImageInv, Going
<1>4. CASE Answer \/ Abort
  <2>1. upload'.state = "none"
    BY <1>4, NoneIs DEF Answer, Abort
  <2> QED
    BY <2>1 DEF ImageInv, Going
<1>5. CASE UNCHANGED vars
  BY <1>5 DEF vars, ImageInv, Going
<1> QED
  BY <1>1, <1>2, <1>3, <1>4, <1>5 DEF Next

\* The answer "ok" is given when everything was copied.
LEMMA AnswerStep ==
  ASSUME TypeOK, PageInv, PlaceInv, ImageInv, ImageInFlash, [Next]_vars
  PROVE  ImageInFlash'
<1>1. CASE Answer
  <2>1. /\ request' = request /\ flash' = flash
        /\ answer' = "ok" => upload.state = "done"
    BY <1>1 DEF Answer
  <2>2. ASSUME upload.state = "done"
        PROVE  Going /\ post.data = request.len
    <3>1. upload \in UploadState /\ upload.len = 0 /\ post.data + upload.len = request.len
      BY <2>2, NoneIs DEF TypeOK, PageInv, PlaceInv, Going
    <3>2. post.data \in Nat
      BY DEF TypeOK
    <3> QED
      BY <2>2, <3>1, <3>2 DEF Going
  <2> QED
    BY <2>1, <2>2 DEF ImageInv, ImageInFlash
<1>2. CASE Call \/ Start \/ Abort
  <2>1. answer' # "ok"
    BY <1>2, NoneIs DEF Call, Start, Abort, PlaceInv
  <2> QED
    BY <2>1 DEF ImageInFlash
<1>3. CASE TakeBytes
  <2>1. answer' = answer /\ answer = "no"
    BY <1>3, NoneIs DEF TakeBytes, PlaceInv
  <2> QED
    BY <2>1 DEF ImageInFlash
<1>4. CASE UNCHANGED vars
  BY <1>4 DEF vars, ImageInFlash
<1> QED
  BY <1>1, <1>2, <1>3, <1>4 DEF Next

\* An upload that the server calls right has put the whole image into the flash, but
\* for the excluded sector, and has changed nothing else, for every size of the image
\* and every size of the blocks, when no page crosses the end of the excluded
\* sector. (cgiUploadFirmware, write_buffer)
THEOREM UploadIsRight ==
  ASSUME NoPageStraddles
  PROVE  Spec => []FlashAsAsked
<1>1. Init => PageInv
  BY PageStart
<1>2. TypeOK /\ PageInv /\ [Next]_vars => PageInv'
  BY PageStep
<1>3. Init => PlaceInv
  BY PlaceStart
<1>4. TypeOK /\ PageInv /\ PlaceInv /\ [Next]_vars => PlaceInv'
  BY PlaceStep
<1>5. Init => ErasedInv /\ WrittenInv
  BY BytesStart
<1>6. TypeOK /\ PageInv /\ PlaceInv /\ ErasedInv /\ WrittenInv /\ [Next]_vars
        => ErasedInv' /\ WrittenInv'
  BY BytesStep
<1>7. Init => ImageInv /\ ImageInFlash
  <2> SUFFICES ASSUME Init
               PROVE  ImageInv /\ ImageInFlash
    OBVIOUS
  <2>1. upload.state = "none" /\ answer = "no"
    BY NoneIs DEF Init
  <2> QED
    BY <2>1 DEF ImageInv, ImageInFlash, Going
<1>8. TypeOK /\ PageInv /\ PlaceInv /\ ErasedInv /\ WrittenInv /\ ImageInv /\ [Next]_vars
        => ImageInv'
  BY ImageStep
<1>9. TypeOK /\ PageInv /\ PlaceInv /\ ImageInv /\ ImageInFlash /\ [Next]_vars => ImageInFlash'
  BY AnswerStep
<1>10. ImageInFlash /\ OthersUntouched => FlashAsAsked
  BY DEF FlashAsAsked
<1> QED
  BY <1>1, <1>2, <1>3, <1>4, <1>5, <1>6, <1>7, <1>8, <1>9, <1>10, UploadTypes, OthersAreLeft, PTL
  DEF Spec

\* In particular every upload to the start of a sector. (cgiUploadFirmware)
COROLLARY AlignedUploadIsRight ==
  ASSUME Pages(SectorSize), \A s \in Starts : s % SectorSize = 0
  PROVE  Spec => []FlashAsAsked
BY AlignedNeverStraddle, UploadIsRight
=============================================================================
