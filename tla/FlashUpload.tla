---------------------------- MODULE FlashUpload ----------------------------
(***************************************************************************)
(* cgiUploadFirmware: a POST body is cut into pages, and every page is     *)
(* written to the flash behind an erase of the sectors it enters. One      *)
(* sector, with the calibration data of the radio, is left out.            *)
(*                                                                         *)
(* One upload. The byte of the image at offset k is k; the contents of the *)
(* flash before the upload are Old.                                        *)
(***************************************************************************)
EXTENDS Integers

CONSTANTS
  FlashSize,      \* bytes in the flash
  SectorSize,     \* SPI_FLASH_SEC_SIZE
  PageLen,        \* PAGELEN
  ExcludeStart,   \* EXCLUDE_AREA_START; the area is one sector
  MaxPost,        \* HTTPD_MAX_POST_LEN
  Starts,         \* start addresses a client may ask for
  Lengths         \* Content-Lengths

WordSize == 4     \* sizeof(uint32_t), of which pageData is an array

ExcludeEnd == ExcludeStart + SectorSize
Excluded == ExcludeStart .. ExcludeEnd - 1
Addresses == 0 .. FlashSize - 1

ASSUME SizesAssumption ==
  /\ FlashSize \in Nat
  /\ SectorSize \in Nat \ {0} /\ PageLen \in Nat \ {0} /\ MaxPost \in Nat \ {0}
  /\ PageLen <= SectorSize /\ MaxPost % PageLen = 0
  /\ ExcludeStart \in Nat /\ ExcludeStart % SectorSize = 0
ASSUME RequestsAssumption ==
  /\ Starts \subseteq Nat /\ Lengths \subseteq Nat
  /\ \A s \in Starts, n \in Lengths : s + n <= FlashSize

\* What a byte of the flash or of the page buffer may be, besides an offset.
Old == -1
Erased == -2
Junk == -3
Cells == Nat \cup {Old, Erased, Junk}

VARIABLES
  request,   \* [start, len, autoErase]: the headers of the request
  flash,     \* the contents of the flash
  upload,    \* UploadState, while cgiData points to one
  post,      \* [received, data, dataLen]: the block the CGI works on
  answer     \* "no"; "ok" or "error" once answered; "none" without an answer

vars == <<request, flash, upload, post, answer>>

\* page: pageData, as bytes; len: what is still to be copied to it.
UploadState ==
  [state : {"start", "write", "done"}, currentAddress : Nat, len : Nat,
   erasedAddress : Int, autoErase : BOOLEAN, pagePos : 0 .. PageLen,
   page : [0 .. PageLen - 1 -> Cells]]

NoUpload == [state |-> "none"]
FreshUpload ==
  [state |-> "start", currentAddress |-> 0, len |-> 0, erasedAddress |-> 0,
   autoErase |-> FALSE, pagePos |-> 0, page |-> [k \in 0 .. PageLen - 1 |-> Junk]]

TypeOK ==
  /\ request \in [start : Starts, len : Lengths, autoErase : BOOLEAN]
  /\ flash \in [Addresses -> Cells]
  /\ upload \in UploadState \cup {NoUpload}
  /\ post \in [received : Nat, data : Nat, dataLen : Nat]
  /\ answer \in {"no", "ok", "error", "none"}

Init ==
  /\ request \in [start : Starts, len : Lengths, autoErase : BOOLEAN]
  /\ flash = [a \in Addresses |-> Old]
  /\ upload = NoUpload
  /\ post = [received |-> 0, data |-> 0, dataLen |-> 0]
  /\ answer = "no"

-----------------------------------------------------------------------------
(* Writing a page.                                                          *)

SectorOf(a) == a - (a % SectorSize)

\* Positive: so many bytes from the front of the page. Negative: so many from
\* behind the excluded area. 0: nothing.
check_exclude_area_inclusive(addr, n) ==
  IF addr >= ExcludeEnd \/ addr + n <= ExcludeStart + 1 THEN n
  ELSE IF addr < ExcludeStart THEN ExcludeStart - addr
  ELSE IF addr + n < ExcludeEnd THEN 0
  ELSE -(n - (ExcludeEnd - addr))
check_exclude_area(addr, n) ==
  IF addr >= ExcludeEnd \/ addr + n <= ExcludeStart THEN n
  ELSE IF addr < ExcludeStart THEN ExcludeStart - addr
  ELSE IF addr + n < ExcludeEnd THEN 0
  ELSE -(n - (ExcludeEnd - addr))

vAddr(addr, n) == IF check_exclude_area(addr, n) < 0 THEN ExcludeEnd ELSE addr
vLen(addr, n) ==
  LET c == check_exclude_area(addr, n) IN IF c < 0 THEN -c ELSE c

\* The bytes of the sectors that are erased before addr .. addr + n - 1 is
\* written: all it meets, but not the one that was erased last.
ToErase(u, addr, n) ==
  IF u.autoErase
  THEN {a \in SectorOf(addr) .. SectorOf(addr + n - 1) + SectorSize - 1 :
          SectorOf(a) # SectorOf(addr) \/ SectorOf(addr) # u.erasedAddress}
  ELSE {}

RememberedFirst(u, addr, n) ==
  IF u.autoErase THEN SectorOf(addr) ELSE u.erasedAddress
Remembered(u, addr, n) ==
  IF u.autoErase THEN SectorOf(addr + n - 1) ELSE u.erasedAddress

\* flash_stream_write from pageData + (vAddr - currentAddress), a pointer to words.
\* Flash that is not erased cannot take new contents.
Source(u, addr, a) ==
  LET k == WordSize * (addr - u.currentAddress) + (a - addr)
  IN IF k < PageLen THEN u.page[k] ELSE Junk

Written(u, addr, n, a) ==
  LET erased == a \in ToErase(u, addr, n)
  IN IF a \in addr .. addr + n - 1
     THEN IF erased \/ flash[a] = Erased THEN Source(u, addr, a) ELSE Junk
     ELSE IF erased THEN Erased ELSE flash[a]

\* write_buffer
WriteBuffer(u) ==
  LET addr == vAddr(u.currentAddress, u.pagePos)
      n == vLen(u.currentAddress, u.pagePos)
      next == [u EXCEPT !.currentAddress = @ + u.pagePos, !.pagePos = 0]
  IN IF n = 0
     THEN flash' = flash /\ upload' = next
     ELSE /\ flash' = [a \in Addresses |-> Written(u, addr, n, a)]
          /\ upload' = [next EXCEPT !.erasedAddress = Remembered(u, addr, n)]

-----------------------------------------------------------------------------
(* cgiUploadFirmware. The steps of one call follow each other; between calls *)
(* dataLen is 0.                                                             *)

\* httpdRecvCb has filled the buffer of the body, or the body is complete.
BlockSizeShort(left) == IF left >= MaxPost THEN MaxPost - 1 ELSE left
BlockSize(left) == IF left > MaxPost THEN MaxPost ELSE left

\* The call with the next block; the first one allocates the state.
Call ==
  LET n == BlockSize(request.len - post.received)
  IN /\ answer = "no" /\ post.dataLen = 0 /\ n > 0
     /\ \/ /\ upload' = IF upload = NoUpload THEN FreshUpload ELSE upload
           /\ post' = [post EXCEPT !.received = @ + n, !.dataLen = n]
           /\ UNCHANGED answer
        \/ /\ upload = NoUpload
           /\ answer' = "none"
           /\ UNCHANGED <<upload, post>>
     /\ UNCHANGED <<request, flash>>

\* erasedAddress is the sector before that of the first byte.
Start ==
  /\ post.dataLen # 0 /\ upload.state = "start"
  /\ upload' = [upload EXCEPT !.currentAddress = request.start,
                              !.autoErase = request.autoErase,
                              !.len = request.len,
                              !.pagePos = 0,
                              !.erasedAddress = SectorOf(request.start - SectorSize),
                              !.state = "write"]
  /\ UNCHANGED <<request, flash, post, answer>>

\* memcpy to &pageData[pagePos]: pagePos counts bytes, the array has words.
Copied(u, data, n) ==
  LET first == WordSize * u.pagePos
  IN [u EXCEPT !.page = [k \in 0 .. PageLen - 1 |->
                           IF k \in first .. first + n - 1 THEN data + k - first ELSE @[k]],
               !.pagePos = @ + n, !.len = @ - n]

StateAfter(u) == IF u.len = 0 THEN "done" ELSE "write"

LenLeftRoom(u) == PageLen - u.pagePos
LenLeft(u) == IF u.len < PageLen - u.pagePos THEN u.len ELSE PageLen - u.pagePos

\* One round of the loop: to the end of the page, of the image or of the block.
TakeBytes ==
  LET lenLeft == LenLeft(upload)
      n == IF post.dataLen < lenLeft THEN post.dataLen ELSE lenLeft
      copied == Copied(upload, post.data, n)
      u == [copied EXCEPT !.state = StateAfter(copied)]
  IN /\ post.dataLen # 0 /\ upload.state = "write"
     /\ post' = [post EXCEPT !.data = @ + n, !.dataLen = @ - n]
     /\ IF n < lenLeft THEN upload' = u /\ flash' = flash ELSE WriteBuffer(u)
     /\ UNCHANGED <<request, answer>>

\* The block was the last: the response, and the state is freed. A request
\* without a body has its state allocated by this same call.
Answer ==
  /\ answer = "no"
  /\ post.dataLen = 0 /\ post.received = request.len
  /\ answer' = IF upload.state = "done" THEN "ok" ELSE "error"
  /\ upload' = NoUpload
  /\ UNCHANGED <<request, flash, post>>

\* The client goes away between two calls.
Abort ==
  /\ answer = "no" /\ post.dataLen = 0 /\ post.received < request.len
  /\ answer' = "none"
  /\ upload' = NoUpload
  /\ UNCHANGED <<request, flash, post>>

Next == Call \/ Start \/ TakeBytes \/ Answer \/ Abort

Spec == Init /\ [][Next]_vars

-----------------------------------------------------------------------------
\* Whatever is uploaded to wherever, the calibration data of the radio is never
\* erased or written. (check_exclude_area, write_buffer)
CalibrationUntouched == \A a \in Excluded \cap Addresses : flash[a] = Old

\* When the server says that an upload with erasing was right, the flash holds
\* the image, but for the excluded sector. (cgiUploadFirmware)
ImageInFlash ==
  answer = "ok" /\ request.autoErase =>
    \A k \in 0 .. request.len - 1 :
      LET a == request.start + k IN a \notin Excluded => flash[a] = k

\* Sectors that the image does not meet keep what they had. (write_buffer)
OthersUntouched ==
  \A a \in Addresses :
    \/ SectorOf(a) + SectorSize <= request.start
    \/ SectorOf(a) >= request.start + request.len
    => flash[a] = Old

\* An upload changes what it is asked to and nothing else. (cgiUploadFirmware,
\* write_buffer)
FlashAsAsked == ImageInFlash /\ OthersUntouched

\* Between two calls no byte waits in the page buffer: a page is always copied to
\* its front, where the offset in words and in bytes is the same, and one that
\* is started is written. It takes POST blocks of whole pages. (cgiUploadFirmware)
NoPartialPage == upload # NoUpload /\ post.dataLen = 0 => upload.pagePos = 0

\* A byte that is written stays: a sector that two pages meet is erased for the
\* first of them only. (write_buffer)
WrittenStays == [][\A a \in Addresses : flash[a] \in Nat => flash'[a] = flash[a]]_vars
=============================================================================
