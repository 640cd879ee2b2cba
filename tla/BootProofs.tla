----------------------------- MODULE BootProofs -----------------------------
(***************************************************************************)
(* Proofs about Boot: what FlashUploadProofs shows of an upload holds as   *)
(* well on a device that is reset, or loses its power, at any moment of    *)
(* it, and whose boot loader then reads the flash.                         *)
(***************************************************************************)
EXTENDS Boot, FlashUploadProofs

-----------------------------------------------------------------------------
(* The steps of the device.                                                 *)

\* What the boot loader and the pins do is nothing to the upload.
BootLeaves == UNCHANGED vars

LEMMA DeviceSteps ==
  ASSUME [DeviceNext]_deviceVars
  PROVE  \/ Next
         \/ ServerStops /\ flash' = flash
         \/ PowerFails
         \/ BootLeaves
<1>1. CASE Serve
  BY <1>1 DEF Serve
<1>2. CASE Reset \/ WarmEntry \/ InitFails
  BY <1>2 DEF Reset, WarmEntry, InitFails
<1>3. CASE PowerFails
  BY <1>3
<1>4. CASE PowerOn \/ LoadHead \/ Segment \/ EndOfImage \/ Enter
  BY <1>4 DEF PowerOn, LoadHead, Segment, EndOfImage, Enter, BootLeaves
<1>5. CASE UNCHANGED deviceVars
  BY <1>5 DEF deviceVars, BootLeaves
<1> QED
  BY <1>1, <1>2, <1>3, <1>4, <1>5 DEF DeviceNext

-----------------------------------------------------------------------------
(* A torn page.                                                             *)

\* Each byte is as it was, or erased or spoilt if it was to be erased, or written if it
\* was to be written.
Torn(u, addr, m) ==
  \A a \in Addresses :
    \/ flash'[a] = flash[a]
    \/ a \in ToErase(u, addr, m) /\ flash'[a] \in {Erased, Junk}
    \/ a \in addr .. addr + m - 1 /\ flash'[a] = Written(u, addr, m, a)

\* Where the page is that was being written.
TornAt(u, addr, m, cur) ==
  /\ cur \in Nat /\ cur = upload.currentAddress /\ cur = request.start + post.data
  /\ u.currentAddress = cur
  /\ u.erasedAddress = upload.erasedAddress /\ u.autoErase = request.autoErase
  /\ cur <= addr /\ addr + m <= request.start + request.len
  /\ addr >= ExcludeEnd \/ addr + m <= ExcludeStart

LEMMA PageTorn ==
  ASSUME TypeOK, PageInv, PlaceInv, PowerFails
  PROVE  /\ Going /\ answer = "no" /\ ServerStops
         /\ DOMAIN flash' = Addresses
         /\ \E u \in UploadState, addr \in Nat, m \in Nat \ {0}, cur \in Nat :
              TornAt(u, addr, m, cur) /\ Torn(u, addr, m)
<1>1. /\ upload \in UploadState /\ upload.state = "write"
      /\ upload.pagePos = 0 /\ post.data \in Nat
  BY DEF PowerFails, TypeOK, NoUpload, PageInv
<1>2. /\ Going /\ answer = "no" /\ ServerStops
  BY <1>1, NoneIs DEF PowerFails, PlaceInv, Going
<1>3. PICK n \in Nat : n = LenLeft(upload) /\ n <= upload.len
  <2>1. upload.len \in Nat /\ PageLen \in Nat
    BY <1>1, SizesAssumption DEF UploadState
  <2> QED
    BY <1>1, <2>1 DEF LenLeft
<1> DEFINE u == Copied(upload, post.data, LenLeft(upload))
           addr == vAddr(u.currentAddress, u.pagePos)
           m == vLen(u.currentAddress, u.pagePos)
<1>4. /\ m > 0
      /\ \/ \E k \in 0 .. m - 1 :
              flash' = [a \in Addresses |->
                          IF a < addr + k THEN Written(u, addr, m, a)
                          ELSE IF a \in ToErase(u, addr, m) THEN Erased ELSE flash[a]]
         \/ \E s \in {SectorOf(a) : a \in ToErase(u, addr, m)} :
              flash' = [a \in Addresses |->
                          CASE a \in ToErase(u, addr, m) /\ SectorOf(a) < s -> Erased
                            [] a \in ToErase(u, addr, m) /\ SectorOf(a) = s -> Junk
                            [] OTHER -> flash[a]]
  BY Zenon DEF PowerFails
<1>5. u \in UploadState /\ u = Copied(upload, post.data, n)
  <2>1. u = Copied(upload, post.data, n)
    BY <1>3, Zenon
  <2>2. n <= LenLeft(upload)
    BY <1>3
  <2>3. Copied(upload, post.data, n) \in UploadState
    BY <1>1, <2>2, CopiedType
  <2> HIDE DEF u
  <2> QED
    BY <2>1, <2>3
<1>6. addr = vAddr(u.currentAddress, u.pagePos) /\ m = vLen(u.currentAddress, u.pagePos)
  OBVIOUS
<1> HIDE DEF u, addr, m
<1>7. /\ u.currentAddress = upload.currentAddress /\ u.pagePos = n
      /\ u.erasedAddress = upload.erasedAddress /\ u.autoErase = upload.autoErase
  <2>1. PICK pg, pos, l : u = [upload EXCEPT !.page = pg, !.pagePos = pos, !.len = l]
                          /\ pos = upload.pagePos + n
    BY <1>5, Zenon DEF Copied
  <2>2. pos = n
    BY <1>1, <2>1
  <2> QED
    BY <1>1, <2>1, <2>2 DEF UploadState
<1>8. PICK cur \in Nat : cur = upload.currentAddress
  BY <1>1 DEF UploadState
<1>9. /\ addr \in Nat /\ m \in Nat \ {0} /\ cur <= addr /\ addr + m <= cur + n
      /\ addr >= ExcludeEnd \/ addr + m <= ExcludeStart
  <2>1. addr = vAddr(cur, n) /\ m = vLen(cur, n)
    BY <1>7, <1>8, <1>6
  <2>2. m # 0
    BY <1>4
  <2> QED
    BY <2>1, <2>2, PartOutside
<1>10. TornAt(u, addr, m, cur)
  <2>1. /\ cur = request.start + post.data /\ post.data + upload.len = request.len
        /\ u.autoErase = request.autoErase
    BY <1>2, <1>7, <1>8 DEF PlaceInv
  <2>2. request.start \in Nat /\ request.len \in Nat /\ upload.len \in Nat
    BY <1>1, RequestsAssumption DEF TypeOK, UploadState
  <2>3. addr + m <= request.start + request.len
    BY <1>1, <1>3, <1>9, <2>1, <2>2
  <2> QED
    BY <1>7, <1>8, <1>9, <2>1, <2>3 DEF TornAt
<1>11. Torn(u, addr, m) /\ DOMAIN flash' = Addresses
  <2>1. ASSUME NEW a \in Addresses
        PROVE  \/ Written(u, addr, m, a) = flash[a]
               \/ a \in ToErase(u, addr, m) /\ Written(u, addr, m, a) = Erased
               \/ a \in addr .. addr + m - 1
    BY DEF Written
  <2>2. ASSUME NEW k, flash' = [a \in Addresses |->
                                  IF a < addr + k THEN Written(u, addr, m, a)
                                  ELSE IF a \in ToErase(u, addr, m) THEN Erased ELSE flash[a]]
        PROVE  Torn(u, addr, m) /\ DOMAIN flash' = Addresses
    BY <2>1, <2>2 DEF Torn
  <2>3. ASSUME NEW s, flash' = [a \in Addresses |->
                                  CASE a \in ToErase(u, addr, m) /\ SectorOf(a) < s -> Erased
                                    [] a \in ToErase(u, addr, m) /\ SectorOf(a) = s -> Junk
                                    [] OTHER -> flash[a]]
        PROVE  Torn(u, addr, m) /\ DOMAIN flash' = Addresses
    BY <2>3 DEF Torn
  <2> QED
    BY <1>4, <2>2, <2>3
<1> QED
  BY <1>2, <1>5, <1>8, <1>9, <1>10, <1>11

-----------------------------------------------------------------------------
(* The invariants of an upload, on the device.                              *)

DeviceInv == TypeOK /\ PageInv /\ PlaceInv /\ ErasedInv /\ WrittenInv

\* When the server stops there is no upload any more.
LEMMA NothingGoesOn ==
  ASSUME TypeOK, ServerStops, flash' \in [Addresses -> Cells]
  PROVE  /\ DeviceInv' /\ ImageInv'
         /\ upload' = NoUpload /\ request' = request /\ (answer' = "ok" => answer = "ok")
<1>1. /\ upload' = NoUpload /\ upload'.state = "none" /\ request' = request
      /\ answer' # "no" /\ answer' \in {"ok", "error", "none"}
      /\ answer' = "ok" => answer = "ok"
  BY NoneIs DEF ServerStops, TypeOK
<1>2. /\ post'.received = 0 /\ post'.dataLen = 0 /\ post'.data = 0
      /\ post' \in [received : Nat, data : Nat, dataLen : Nat]
  BY DEF ServerStops
<1>3. request.len \in Nat
  BY RequestsAssumption DEF TypeOK
<1>4. TypeOK'
  BY <1>1, <1>2 DEF TypeOK
<1>5. PageInv'
  <2>1. Pages(0)
    <3>1. 0 = PageLen * 0
      BY SizesAssumption
    <3> QED
      BY <3>1 DEF Pages
  <2>2. 0 <= request.len
    BY <1>3
  <2> QED
    BY <1>1, <1>2, <2>1, <2>2 DEF PageInv
<1>6. PlaceInv' /\ ErasedInv' /\ WrittenInv' /\ ImageInv'
  BY <1>1, <1>2 DEF PlaceInv, ErasedInv, WrittenInv, ImageInv, Going
<1> QED
  BY <1>1, <1>4, <1>5, <1>6 DEF DeviceInv

\* After a power failure the flash has bytes, if strange ones.
LEMMA TornType ==
  ASSUME TypeOK, PageInv, PlaceInv, PowerFails
  PROVE  flash' \in [Addresses -> Cells]
<1>1. /\ DOMAIN flash' = Addresses
      /\ \E u \in UploadState, addr \in Nat, m \in Nat \ {0}, cur \in Nat :
           TornAt(u, addr, m, cur) /\ Torn(u, addr, m)
  BY PageTorn
<1>2. PICK u \in UploadState, addr \in Nat, m \in Nat \ {0}, cur \in Nat :
        TornAt(u, addr, m, cur) /\ Torn(u, addr, m)
  BY <1>1
<1>3. ASSUME NEW a \in Addresses
      PROVE  flash'[a] \in Cells
  <2>1. flash[a] \in Cells
    BY DEF TypeOK
  <2>2. Written(u, addr, m, a) \in Cells
    BY <1>2, WrittenType DEF TypeOK, TornAt
  <2> QED
    BY <1>2, <2>1, <2>2 DEF Torn, Cells
<1>4. flash' = [a \in Addresses |-> flash'[a]]
  BY <1>1 DEF PowerFails
<1> QED
  BY <1>3, <1>4

LEMMA DeviceStep ==
  ASSUME DeviceInv, [DeviceNext]_deviceVars
  PROVE  DeviceInv'
<1>1. CASE Next
  BY <1>1, TypeStep, PageStep, PlaceStep, BytesStep DEF DeviceInv
<1>2. CASE ServerStops /\ flash' = flash
  BY <1>2, NothingGoesOn DEF DeviceInv, TypeOK
<1>3. CASE PowerFails
  BY <1>3, PageTorn, TornType, NothingGoesOn DEF DeviceInv
<1>4. CASE BootLeaves
  BY <1>4, TypeStep, PageStep, PlaceStep, BytesStep DEF DeviceInv, BootLeaves
<1> QED
  BY <1>1, <1>2, <1>3, <1>4, DeviceSteps

LEMMA DeviceHolds == DeviceSpec => []DeviceInv
<1>1. DeviceInit => Init
  BY DEF DeviceInit
<1>2. Init => TypeOK
  BY DEF Init, TypeOK, Cells
<1>3. DeviceInit => DeviceInv
  BY <1>1, <1>2, PageStart, PlaceStart, BytesStart DEF DeviceInv
<1> QED
  BY <1>3, DeviceStep, PTL DEF DeviceSpec

\* What a step does to a byte of the flash: a page of the upload may write it, or a page
\* that is torn; nothing else may.
LEMMA FlashSteps ==
  ASSUME DeviceInv, [DeviceNext]_deviceVars
  PROVE  \/ Next
         \/ flash' = flash /\ request' = request
         \/ PowerFails
BY DeviceSteps DEF BootLeaves, vars, ServerStops

\* The variables of an upload keep their types through resets and power failures.
\* (cgiUploadFirmware, rtl_boot_s.c)
THEOREM DeviceTypes == DeviceSpec => []TypeOK
<1>1. DeviceInv => TypeOK
  BY DEF DeviceInv
<1> QED
  BY <1>1, DeviceHolds, PTL

-----------------------------------------------------------------------------
(* What an upload never touches.                                            *)

\* A torn page leaves what a whole one leaves.
LEMMA TornCalibration ==
  ASSUME DeviceInv, CalibrationUntouched, PowerFails
  PROVE  CalibrationUntouched'
<1>1. PICK u \in UploadState, addr \in Nat, m \in Nat \ {0}, cur \in Nat :
        TornAt(u, addr, m, cur) /\ Torn(u, addr, m)
  BY PageTorn DEF DeviceInv
<1>2. ASSUME NEW a \in Excluded \cap Addresses
      PROVE  flash'[a] = flash[a]
  <2>1. a \notin addr .. addr + m - 1 /\ a \notin ToErase(u, addr, m)
    BY <1>1, ExcludedApart, ExcludedIsKept DEF TornAt
  <2> QED
    BY <1>1, <2>1 DEF Torn
<1> QED
  BY <1>2 DEF CalibrationUntouched

\* Whenever the device is reset or loses its power, the calibration data of the radio is
\* as it was. (write_buffer, check_exclude_area)
THEOREM CalibrationSurvives == DeviceSpec => []CalibrationUntouched
<1>1. DeviceInit => CalibrationUntouched
  BY DEF DeviceInit, Init, CalibrationUntouched
<1>2. DeviceInv /\ CalibrationUntouched /\ [DeviceNext]_deviceVars => CalibrationUntouched'
  <2> SUFFICES ASSUME DeviceInv, CalibrationUntouched, [DeviceNext]_deviceVars
               PROVE  CalibrationUntouched'
    OBVIOUS
  <2>1. CASE Next
    BY <2>1, CalibrationStep DEF DeviceInv
  <2>2. CASE flash' = flash
    BY <2>2 DEF CalibrationUntouched
  <2>3. CASE PowerFails
    BY <2>3, TornCalibration
  <2> QED
    BY <2>1, <2>2, <2>3, FlashSteps
<1> QED
  BY <1>1, <1>2, DeviceHolds, PTL DEF DeviceSpec

LEMMA TornOthers ==
  ASSUME DeviceInv, OthersUntouched, PowerFails
  PROVE  OthersUntouched'
<1>1. PICK u \in UploadState, addr \in Nat, m \in Nat \ {0}, cur \in Nat :
        TornAt(u, addr, m, cur) /\ Torn(u, addr, m)
  BY PageTorn DEF DeviceInv
<1>2. /\ request.start \in Nat /\ request.len \in Nat /\ post.data \in Nat
  BY RequestsAssumption DEF DeviceInv, TypeOK
<1>3. request.start <= addr /\ addr + m - 1 < request.start + request.len
  BY <1>1, <1>2 DEF TornAt
<1>4. ASSUME NEW a \in Addresses,
             SectorOf(a) + SectorSize <= request.start \/ SectorOf(a) >= request.start + request.len
      PROVE  flash'[a] = flash[a]
  <2>1. a \notin addr .. addr + m - 1 /\ a \notin ToErase(u, addr, m)
    BY <1>2, <1>3, <1>4, OthersApart
  <2> QED
    BY <1>1, <2>1 DEF Torn
<1>5. request' = request
  BY DEF PowerFails, ServerStops
<1> QED
  BY <1>4, <1>5 DEF OthersUntouched

\* The sectors that the image does not meet are the same after an upload that was cut off
\* anywhere. (write_buffer)
THEOREM OthersSurvive == DeviceSpec => []OthersUntouched
<1>1. DeviceInit => OthersUntouched
  BY DEF DeviceInit, Init, OthersUntouched
<1>2. DeviceInv /\ OthersUntouched /\ [DeviceNext]_deviceVars => OthersUntouched'
  <2> SUFFICES ASSUME DeviceInv, OthersUntouched, [DeviceNext]_deviceVars
               PROVE  OthersUntouched'
    OBVIOUS
  <2>1. CASE Next
    BY <2>1, OthersStep DEF DeviceInv
  <2>2. CASE flash' = flash /\ request' = request
    BY <2>2 DEF OthersUntouched
  <2>3. CASE PowerFails
    BY <2>3, TornOthers
  <2> QED
    BY <2>1, <2>2, <2>3, FlashSteps
<1> QED
  BY <1>1, <1>2, DeviceHolds, PTL DEF DeviceSpec

-----------------------------------------------------------------------------
(* What was written.                                                        *)

\* On a device, too, no page is left begun between two calls. (cgiUploadFirmware)
THEOREM DevicePagesAreWhole == DeviceSpec => []NoPartialPage
<1>1. DeviceInv => NoPartialPage
  BY DEF DeviceInv, PageInv, NoPartialPage, TypeOK, UploadState
<1> QED
  BY <1>1, DeviceHolds, PTL

\* A byte that is written stays through resets and power failures: a page that is torn
\* takes no byte of an earlier one with it. (write_buffer)
THEOREM BytesSurvive == DeviceSpec => WrittenStays
<1>1. DeviceInv /\ [DeviceNext]_deviceVars
        => [\A a \in Addresses : flash[a] \in Nat => flash'[a] = flash[a]]_vars
  <2> SUFFICES ASSUME DeviceInv, [DeviceNext]_deviceVars,
                      NEW a \in Addresses, flash[a] \in Nat
               PROVE  flash'[a] = flash[a]
    OBVIOUS
  <2>1. CASE Next /\ ~TakeBytes
    BY <2>1, OtherSteps
  <2>2. CASE TakeBytes
    <3>1. PICK n \in 1 .. PageLen, u \in UploadState :
            PageTaken(n, u) /\ \E addr, m, cur : PageAt(n, u, addr, m, cur)
      BY <2>2, PageIs DEF DeviceInv
    <3>2. PICK addr, m, cur : PageAt(n, u, addr, m, cur)
      BY <3>1
    <3>3. Going
      BY <2>2 DEF TakeBytes, Going
    <3> QED
      BY <3>2, <3>3, KeepsBytes DEF DeviceInv
  <2>3. CASE PowerFails
    <3>1. PICK u \in UploadState, addr \in Nat, m \in Nat \ {0}, cur \in Nat :
            TornAt(u, addr, m, cur) /\ Torn(u, addr, m)
      BY <2>3, PageTorn DEF DeviceInv
    <3>2. Going
      BY <2>3, PageTorn DEF DeviceInv
    <3>3. a \notin addr .. addr + m - 1 /\ a \notin ToErase(u, addr, m)
      BY <3>1, <3>2, BytesApart DEF DeviceInv, TornAt
    <3> QED
      BY <3>1, <3>3 DEF Torn
  <2>4. CASE flash' = flash
    BY <2>4
  <2> QED
    BY <2>1, <2>2, <2>3, <2>4, FlashSteps
<1> QED
  BY <1>1, DeviceHolds, PTL DEF DeviceSpec, WrittenStays

\* An upload that was answered with success is in the flash, but for the excluded sector,
\* and stays there through resets; and an upload of which only a part arrived has changed
\* nothing else, wherever no page crosses the end of the excluded sector.
\* (cgiUploadFirmware, write_buffer)
THEOREM DeviceFlashIsRight ==
  ASSUME NoPageStraddles
  PROVE  DeviceSpec => []FlashAsAsked
<1>1. DeviceInit => ImageInv /\ ImageInFlash
  <2> SUFFICES ASSUME DeviceInit
               PROVE  ImageInv /\ ImageInFlash
    OBVIOUS
  <2>1. upload.state = "none" /\ answer = "no"
    BY NoneIs DEF DeviceInit, Init
  <2> QED
    BY <2>1 DEF ImageInv, ImageInFlash, Going
<1>2. DeviceInv /\ ImageInv /\ ImageInFlash /\ [DeviceNext]_deviceVars
        => ImageInv' /\ ImageInFlash'
  <2> SUFFICES ASSUME DeviceInv, ImageInv, ImageInFlash, [DeviceNext]_deviceVars
               PROVE  ImageInv' /\ ImageInFlash'
    OBVIOUS
  <2>1. CASE Next
    BY <2>1, ImageStep, AnswerStep DEF DeviceInv
  <2>2. CASE ServerStops /\ flash' = flash
    <3>1. TypeOK /\ flash' \in [Addresses -> Cells]
      BY <2>2 DEF DeviceInv, TypeOK
    <3>2. ImageInv' /\ request' = request /\ (answer' = "ok" => answer = "ok")
      BY <2>2, <3>1, NothingGoesOn
    <3> QED
      BY <2>2, <3>2 DEF ImageInFlash
  <2>3. CASE PowerFails
    <3>1. TypeOK /\ flash' \in [Addresses -> Cells] /\ answer = "no" /\ ServerStops
      BY <2>3, TornType, PageTorn DEF DeviceInv
    <3>2. ImageInv' /\ answer' # "ok"
      BY <3>1, NothingGoesOn
    <3> QED
      BY <3>2 DEF ImageInFlash
  <2>4. CASE BootLeaves
    BY <2>4, ImageStep, AnswerStep DEF DeviceInv, BootLeaves
  <2> QED
    BY <2>1, <2>2, <2>3, <2>4, DeviceSteps
<1>3. ImageInFlash /\ OthersUntouched => FlashAsAsked
  BY DEF FlashAsAsked
<1> QED
  BY <1>1, <1>2, <1>3, DeviceHolds, OthersSurvive, PTL DEF DeviceSpec

-----------------------------------------------------------------------------
(* The image that is not uploaded to.                                       *)

\* Rounding up leads to the start of a sector that is not before the address.
LEMMA RoundedUp ==
  ASSUME NEW a \in Nat
  PROVE  /\ RoundUp(a) \in Nat /\ a <= RoundUp(a)
         /\ \E q \in Int : RoundUp(a) = SectorSize * q
<1>1. PICK d \in Nat \ {0} : d = SectorSize
  BY SizesAssumption
<1>2. PICK r \in 0 .. d - 1, q \in Int : r = a % d /\ a = d * q + r
  <2>1. a % d \in 0 .. d - 1 /\ a \div d \in Int /\ a = d * (a \div d) + (a % d)
    OBVIOUS
  <2> QED
    BY <2>1
<1>3. RoundUp(a) = a + ((d - r) % d)
  BY <1>1, <1>2 DEF RoundUp
<1>4. CASE r = 0
  <2>1. (d - r) % d = 0
    BY <1>4
  <2>2. RoundUp(a) = a
    BY <1>3, <2>1
  <2>3. a = d * q
    BY <1>2, <1>4
  <2> QED
    BY <1>1, <2>2, <2>3
<1>5. CASE r # 0
  <2>1. PICK x \in 1 .. d - 1 : x = d - r
    BY <1>5
  <2>2. x % d = x
    OBVIOUS
  <2>3. RoundUp(a) = a + (d - r)
    BY <1>3, <2>1, <2>2
  <2>4. RoundUp(a) = d * (q + 1)
    BY <1>2, <2>3
  <2> QED
    BY <1>1, <2>3, <2>4
<1> QED
  BY <1>4, <1>5

\* A sector that begins before the end of another begins at or before its start; so the
\* bytes from the start of one sector up to the start of another are whole sectors.
LEMMA WholeSectors ==
  ASSUME NEW first \in Int, NEW end \in Int, NEW p \in Int, NEW q \in Int,
         first = SectorSize * p, end = SectorSize * q, NEW a \in Int, first <= a, a < end
  PROVE  first <= SectorOf(a) /\ SectorOf(a) + SectorSize <= end
<1>1. PICK d \in Nat \ {0} : d = SectorSize
  BY SizesAssumption
<1>2. PICK k \in Int : SectorOf(a) = d * k
  BY <1>1, SectorBounds
<1>3. d * k <= a /\ a < d * k + d
  BY <1>1, <1>2, SectorBounds
<1>4. p <= k
  <2>1. d * p < d * (k + 1)
    BY <1>1, <1>3
  <2> QED
    BY <2>1
<1>5. k + 1 <= q
  <2>1. d * k < d * q
    BY <1>1, <1>3
  <2> QED
    BY <2>1
<1>6. d * p <= d * k /\ d * (k + 1) <= d * q
  BY <1>4, <1>5
<1> QED
  BY <1>1, <1>2, <1>6

\* An upload of no bytes writes none.
NothingAsked == request.len = 0 => \A a \in Addresses : flash[a] = Old

LEMMA NothingAskedStep ==
  ASSUME DeviceInv, NothingAsked, [DeviceNext]_deviceVars
  PROVE  NothingAsked'
<1>1. /\ request.start \in Nat /\ post.data \in Nat
  BY RequestsAssumption DEF DeviceInv, TypeOK
<1>2. CASE Next /\ ~TakeBytes
  BY <1>2, OtherSteps DEF NothingAsked
<1>3. CASE TakeBytes
  <2>1. PICK n \in 1 .. PageLen, u \in UploadState :
          PageTaken(n, u) /\ \E addr, m, cur : PageAt(n, u, addr, m, cur)
    BY <1>3, PageIs DEF DeviceInv
  <2>2. PICK addr, m, cur : PageAt(n, u, addr, m, cur)
    BY <2>1
  <2>3. n \in Nat \ {0} /\ cur = request.start + post.data
        /\ cur + n <= request.start + request.len /\ request' = request
    BY <2>2, SizesAssumption DEF PageAt
  <2>4. request.len # 0
    BY <1>1, <2>3
  <2> QED
    BY <2>3, <2>4 DEF NothingAsked
<1>4. CASE PowerFails
  <2>1. PICK u \in UploadState, addr \in Nat, m \in Nat \ {0}, cur \in Nat :
          TornAt(u, addr, m, cur) /\ Torn(u, addr, m)
    BY <1>4, PageTorn DEF DeviceInv
  <2>2. cur = request.start + post.data /\ cur <= addr
        /\ addr + m <= request.start + request.len
    BY <2>1 DEF TornAt
  <2>3. request.len # 0
    BY <1>1, <2>2
  <2>4. request' = request
    BY <1>4 DEF PowerFails, ServerStops
  <2> QED
    BY <2>3, <2>4 DEF NothingAsked
<1>5. CASE flash' = flash /\ request' = request
  BY <1>5 DEF NothingAsked
<1> QED
  BY <1>2, <1>3, <1>4, <1>5, FlashSteps

\* What DefaultSurvives needs of the flash: an image that begins with a sector, and that
\* an upload does not meet up to the end of its last sector.
ImageKept(image, end) ==
  ~(request.len > 0 /\ request.start < RoundUp(end) /\ request.start + request.len > image)
    => \A a \in Addresses \cap (image .. end - 1) : Mem(a) = Before(a)

\* An image that an upload does not meet is there as it was, wherever the upload was cut
\* off. (cgiflash_rtl.c:68)
THEOREM OtherImageSurvives ==
  ASSUME NEW image \in Nat, NEW end \in Nat, image % SectorSize = 0
  PROVE  DeviceSpec => []ImageKept(image, end)
<1>1. TypeOK /\ OthersUntouched /\ NothingAsked => ImageKept(image, end)
  <2> SUFFICES ASSUME TypeOK, OthersUntouched, NothingAsked,
                      ~(request.len > 0 /\ request.start < RoundUp(end)
                          /\ request.start + request.len > image),
                      NEW a \in Addresses \cap (image .. end - 1)
               PROVE  Mem(a) = Before(a)
    BY DEF ImageKept
  <2>1. /\ a \in Int /\ image <= a /\ a < end /\ a \in Addresses
        /\ request.start \in Nat /\ request.len \in Nat /\ SectorSize \in Nat \ {0}
    <3>1. request.start \in Nat /\ request.len \in Nat
      BY RequestsAssumption DEF TypeOK
    <3> QED
      BY <3>1, SizesAssumption DEF Addresses
  <2>2. PICK last \in Nat, q \in Int : last = RoundUp(end) /\ end <= last /\ last = SectorSize * q
    BY RoundedUp
  <2>3. PICK p \in Int : image = SectorSize * p
    <3>1. SectorOf(image) = image
      BY <2>1 DEF SectorOf
    <3> QED
      BY <3>1, SectorBounds
  <2>4. image <= SectorOf(a) /\ SectorOf(a) + SectorSize <= last /\ SectorOf(a) \in Int
    <3>1. image \in Int /\ last \in Int /\ a \in Int /\ image <= a /\ a < last
      BY <2>1, <2>2
    <3>2. image <= SectorOf(a) /\ SectorOf(a) + SectorSize <= last
      BY <2>2, <2>3, <3>1, WholeSectors
    <3>3. SectorOf(a) \in Int
      BY <2>1, SectorBounds
    <3> QED
      BY <3>2, <3>3
  <2>5. flash[a] = Old
    <3>1. CASE request.len = 0
      BY <2>1, <3>1 DEF NothingAsked
    <3>2. CASE request.len # 0
      <4>1. request.start >= last \/ request.start + request.len <= image
        BY <2>1, <2>2, <3>2
      <4>2. SectorOf(a) + SectorSize <= request.start \/ SectorOf(a) >= request.start + request.len
        BY <2>1, <2>2, <2>4, <4>1
      <4> QED
        BY <2>1, <4>2 DEF OthersUntouched
    <3> QED
      BY <3>1, <3>2
  <2>6. Old # Erased /\ Old # Junk
    BY DEF Old, Erased, Junk
  <2>7. a \in Addresses
    OBVIOUS
  <2> QED
    BY <2>5, <2>6, <2>7, Zenon DEF Mem
<1>2. DeviceInit => NothingAsked
  BY DEF DeviceInit, Init, NothingAsked
<1>3. DeviceInv /\ NothingAsked /\ [DeviceNext]_deviceVars => NothingAsked'
  BY NothingAskedStep
<1> QED
  BY <1>1, <1>2, <1>3, DeviceHolds, DeviceTypes, OthersSurvive, PTL DEF DeviceSpec
=============================================================================
