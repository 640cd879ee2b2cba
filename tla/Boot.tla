-------------------------------- MODULE Boot --------------------------------
(***************************************************************************)
(* The boot loader (EnterImage15, loadUserImges), composed with an upload: *)
(* the device is reset at any moment of an upload, also in the middle of a *)
(* write, and the boot loader looks for an image in what the flash holds.  *)
(***************************************************************************)
EXTENDS FlashUpload, Sequences, SequencesExt

CONSTANTS
  HeadLen,       \* where the first segment of an image begins, 0x10
  RtkAt,         \* where the signature is, counted from the head
  DefaultImage,  \* 0xb000
  SystemData,    \* FLASH_SYSTEM_DATA_ADDR
  PinsAt,        \* where the numbers of the pins are in it
  SysAddrs,      \* the addresses to consider in it; FlashSize: none in the flash
  Before(_),     \* the cell at an address before the upload
  NewImage       \* the cells of the file that is uploaded

VARIABLES
  phase,      \* "up" while the server runs; "head", "segs", "enter"; "run", "console"
  selection,  \* image_selection: the image, and 16 times the number of pins
  loader,     \* [faddr, current, toLoad, fromSys, hdr] of loadUserImges, and sys, the
              \* sector it read from the system data
  ram         \* what was copied to the RAM, in order

bootVars == <<phase, selection, loader, ram>>
deviceVars == <<vars, bootVars>>

-----------------------------------------------------------------------------
(* Cells: <<"size", n>> and <<"ld", region>> are a segment's header, then in *)
(* the head of an image <<"sign", s>> and <<"sign">>; <<"rtk">> is the signature, *)
(* <<"byte", ...>> anything else.                                            *)

ErasedCell == <<"erased">>
JunkCell == <<"junk">>

Mem(a) ==
  IF a \notin Addresses THEN ErasedCell
  ELSE CASE flash[a] = Old -> Before(a)
         [] flash[a] = Erased -> ErasedCell
         [] flash[a] = Junk -> JunkCell
         [] OTHER -> IF flash[a] < Len(NewImage) THEN NewImage[flash[a] + 1]
                     ELSE <<"byte">>

\* flashcpy reads aligned words only: what is left of the first, whole words, and
\* the front of the last.
Word(p) == [i \in 1 .. 4 |-> Mem(p + i - 1)]

\* Mutant: the rest is taken from the front of a word, whatever the alignment.
FlashCpyTail(faddr, size) ==
  LET words == size \div 4
  IN FlattenSeq([k \in 1 .. words |-> Word(faddr + (4 * (k - 1)))])
       \o SubSeq(Word(faddr - (faddr % 4) + (4 * words)), 1, size % 4)

FlashCpy(faddr, size) ==
  LET x == faddr % 4
      first == IF x = 0 THEN <<>>
               ELSE SubSeq(Word(faddr - x), x + 1, IF x + size < 4 THEN x + size ELSE 4)
      p == IF x = 0 THEN faddr ELSE faddr - x + 4
      words == (size - Len(first)) \div 4
  IN first \o FlattenSeq([k \in 1 .. words |-> Word(p + (4 * (k - 1)))])
       \o SubSeq(Word(p + (4 * words)), 1, (size - Len(first)) % 4)

\* get_seg_id: the region a segment is for. An erased address is the largest there
\* is: with the size added it wraps and passes for the first region of the table.
\* The loop looks at one entry more than the table has.
Ram == {"image2", "sdram", "wild"}
SegIds(h) ==
  IF h[1][1] # "size" THEN {"none"}
  ELSE CASE h[2][1] = "ld" -> {h[2][2]}
         [] h[2] = ErasedCell -> {"wild"}
         [] OTHER -> Ram \cup {"flash", "none", "beyond"}

\* load_img2_head: a head is good if its segment is, or if it is signed twice.
Signed(h) == h[3] \in {<<"sign", "run">>, <<"sign", "swp">>} /\ h[4] = <<"sign">>
               /\ h[RtkAt + 1] = <<"rtk">>
IsImage(h, id) == id # "none" \/ Signed(h)

RoundUp(a) == a + ((SectorSize - (a % SectorSize)) % SectorSize)

-----------------------------------------------------------------------------
DeviceInit ==
  /\ Init
  /\ phase = "up" /\ selection = 0 /\ ram = <<>>
  /\ loader = [faddr |-> 0, current |-> 0, toLoad |-> 0, fromSys |-> FALSE, hdr |-> <<>>,
                sys |-> 0]

Serve == phase = "up" /\ Next /\ UNCHANGED bootVars

\* IsForceLoadDefaultImg2: a pin that is not set, or that does not exist, is passed
\* over; every other one is a bit of the result. What is neither a pin nor erased may
\* be taken for anything.
PinValues(cell) ==
  IF cell = ErasedCell THEN {"unset"} ELSE {"unset", "bad", "high", "low"}
Selection(pins, levels) ==
  LET used == SelectSeq(<<1, 2>>, LAMBDA i : pins[i] \in {"high", "low"})
      Bit(k) == IF k <= Len(used) /\ pins[used[k]] = levels[used[k]] THEN 2 ^ (k - 1) ELSE 0
  IN Bit(1) + Bit(2) + (16 * Len(used))
Selections ==
  {Selection(pins, levels) :
     pins \in PinValues(Mem(SystemData + PinsAt)) \X PinValues(Mem(SystemData + PinsAt + 1)),
     levels \in {"high", "low"} \X {"high", "low"}}

\* The sector of the address in the system data.
SysSectors ==
  IF Mem(SystemData) = ErasedCell THEN {FlashSize} ELSE {SectorOf(a) : a \in SysAddrs}

\* Mutant: one pin that is used is enough.
SelectsUsed(sel) == sel >= 16

\* The start of loadUserImges: the image is taken from the system data if all pins
\* that are used select it.
SelectsSys(sel) == sel \in {35, 17}
LoadFrom(sel, addr) ==
  LET sys == SelectsSys(sel) /\ addr < FlashSize
  IN [faddr |-> IF sys THEN addr ELSE DefaultImage,
      current |-> IF sys THEN sel % 16 ELSE 0,
      toLoad |-> sel % 16, fromSys |-> sys, hdr |-> <<>>,
      sys |-> IF sys THEN addr ELSE FlashSize]

StartBoot ==
  \E sel \in Selections, addr \in SysSectors :
    /\ phase' = "head"
    /\ selection' = sel
    /\ loader' = LoadFrom(sel, addr)
    /\ ram' = <<>>

\* What the server had in its memory is gone.
ServerStops ==
  /\ upload' = NoUpload
  /\ post' = [received |-> 0, data |-> 0, dataLen |-> 0]
  /\ answer' = IF answer = "no" THEN "none" ELSE answer
  /\ UNCHANGED request

\* /reboot, or a watchdog: between two steps of the server.
Reset == phase = "up" /\ StartBoot /\ ServerStops /\ UNCHANGED flash

-----------------------------------------------------------------------------
(* loadUserImges and load_segs *)

\* Mutant: image 0 is not asked for when the one that is asked for is not there.
NoImageRetries ==
  IF loader.current # 0
  THEN /\ loader' = [loader EXCEPT !.faddr = DefaultImage, !.current = 0, !.fromSys = FALSE]
       /\ UNCHANGED phase
  ELSE /\ loader' = [loader EXCEPT !.current = -1]
       /\ phase' = "enter"

\* No image at faddr: the one the pins ask for instead of the one of the system
\* data, then image 0, then none.
NoImage ==
  IF loader.current # 0
  THEN /\ loader' = [loader EXCEPT !.faddr = DefaultImage, !.current = 0, !.fromSys = FALSE,
                                   !.toLoad = IF loader.fromSys THEN @ ELSE 0]
       /\ UNCHANGED phase
  ELSE /\ loader' = [loader EXCEPT !.current = -1]
       /\ phase' = "enter"

LoadHead ==
  LET p == RoundUp(loader.faddr)
      h == FlashCpy(p, RtkAt + 1)
  IN /\ phase = "head"
     /\ \E id \in SegIds(h) :
          IF IsImage(h, id)
          THEN /\ loader' = [loader EXCEPT !.faddr = p + HeadLen, !.hdr = SubSeq(h, 1, 2)]
               /\ phase' = "segs"
          ELSE NoImage
     /\ UNCHANGED <<vars, selection, ram>>

\* Mutant: segments are copied whichever image they are of.
LoadsAny == TRUE
Loads == loader.current = loader.toLoad

Segment ==
  LET n == loader.hdr[1][2]
      next == loader.faddr + n
  IN /\ phase = "segs"
     /\ \E id \in SegIds(loader.hdr) \ {"none"} :
          ram' = IF Loads /\ id \in Ram THEN ram \o FlashCpy(loader.faddr, n) ELSE ram
     /\ loader' = [loader EXCEPT !.faddr = next + 2, !.hdr = FlashCpy(next, 2)]
     /\ UNCHANGED <<vars, phase, selection>>

EndOfImage ==
  /\ phase = "segs" /\ "none" \in SegIds(loader.hdr)
  /\ IF Loads
     THEN phase' = "enter" /\ UNCHANGED loader
     ELSE phase' = "head" /\ loader' = [loader EXCEPT !.current = @ + 1]
  /\ UNCHANGED <<vars, selection, ram>>

\* The signature is looked for in the RAM, where an earlier boot may have left one.
Enter ==
  /\ phase = "enter"
  /\ \E stale \in BOOLEAN :
       phase' = IF (<<"rtk">> \in Range(ram) \/ stale) /\ loader.current >= 0
                THEN "run" ELSE "console"
  /\ UNCHANGED <<vars, selection, loader, ram>>

\* The flash controller or the SDRAM does not start: no image is looked for.
InitFails ==
  /\ phase \in {"up", "off"}
  /\ phase' = "console"
  /\ ram' = <<>> /\ selection' = -1
  /\ ServerStops /\ UNCHANGED <<flash, loader>>

\* Entered from the RAM (EnterImage15(1) to (4)): nothing is loaded, and
\* load_result is not initialised.
WarmEntry ==
  /\ phase = "up"
  /\ phase' \in {"run", "console"}
  /\ ram' = <<>> /\ selection' = -1
  /\ ServerStops /\ UNCHANGED <<flash, loader>>

-----------------------------------------------------------------------------
\* The power fails while a page is written: in one of the sectors that are erased
\* for it, or behind some of its bytes.
PowerFails ==
  LET lenLeft == LenLeft(upload)
      copied == Copied(upload, post.data, lenLeft)
      addr == vAddr(copied.currentAddress, copied.pagePos)
      n == vLen(copied.currentAddress, copied.pagePos)
      erase == ToErase(copied, addr, n)
      Cut(a, k) == IF a < addr + k THEN Written(copied, addr, n, a)
                   ELSE IF a \in erase THEN Erased ELSE flash[a]
      Erasing(a, s) == CASE a \in erase /\ SectorOf(a) < s -> Erased
                         [] a \in erase /\ SectorOf(a) = s -> Junk
                         [] OTHER -> flash[a]
  IN /\ phase = "up"
     /\ post.dataLen # 0 /\ upload.state = "write" /\ post.dataLen >= lenLeft /\ n > 0
     /\ \/ \E k \in 0 .. n - 1 : flash' = [a \in Addresses |-> Cut(a, k)]
        \/ \E s \in {SectorOf(a) : a \in erase} : flash' = [a \in Addresses |-> Erasing(a, s)]
     /\ phase' = "off"
     /\ ServerStops /\ UNCHANGED <<selection, loader, ram>>

PowerOn == phase = "off" /\ StartBoot /\ UNCHANGED vars

DeviceNext ==
  \/ Serve \/ Reset \/ WarmEntry \/ InitFails \/ PowerFails \/ PowerOn
  \/ LoadHead \/ Segment \/ EndOfImage \/ Enter

DeviceSpec == DeviceInit /\ [][DeviceNext]_deviceVars

\* The boot loader runs on: weak fairness of its steps. Those that read the flash are the
\* only ones of their phases, one is always enabled, and each changes the state; for them
\* it is written without ENABLED, of which TLC would have to evaluate all that they read.
Reading == phase \in {"head", "segs"}
FairDevice ==
  /\ DeviceSpec
  /\ []<>~Reading \/ []<><<Reading>>_deviceVars
  /\ WF_deviceVars(Enter)

-----------------------------------------------------------------------------
(* Properties *)

\* The reference: m is the memory, a function.
Known == 0 .. FlashSize + 99
Now == [a \in Known |-> Mem(a)]
Was == [a \in Known |-> IF a \in Addresses THEN Before(a) ELSE ErasedCell]
WithNew == [a \in Known |-> IF a - request.start \in 0 .. Len(NewImage) - 1
                            THEN NewImage[a - request.start + 1] ELSE Was[a]]

Headed(m, h) == m[h][1] = "size" /\ (m[h + 1][1] = "ld" => m[h + 1][2] # "none")
\* The segments of the image at an address; h is where the next header is and p where
\* the next data.
SegmentsOf(m, start) ==
  LET from[h, p \in Known] ==
        IF ~Headed(m, h) THEN <<>>
        ELSE LET n == m[h][2] IN
             <<[first |-> p, last |-> p + n - 1, loaded |-> m[h + 1] # <<"ld", "flash">>]>>
               \o from[p + n, p + n + 2]
  IN from[start, start + HeadLen]

InRam(m, p) ==
  FoldLeft(LAMBDA r, s : IF s.loaded THEN r \o [i \in 1 .. s.last - s.first + 1 |->
                                                  m[s.first + i - 1]] ELSE r,
           <<>>, SegmentsOf(m, p))
EndOf(m, p) == FoldLeft(LAMBDA e, s : s.last + 3, p + HeadLen, SegmentsOf(m, p))
ThereIsImage(m, p) == Headed(m, p) \/ Signed([i \in 1 .. RtkAt + 1 |-> m[p + i - 1]])

\* The images, from one at an address on.
ImagesFrom(m, start) ==
  LET from[p \in Known] ==
        IF ThereIsImage(m, p) THEN <<p>> \o from[RoundUp(EndOf(m, p))] ELSE <<>>
  IN from[start]

\* The image a selection stands for, as a set of at most one.
Chosen ==
  LET images == ImagesFrom(Now, DefaultImage)
      k == (selection % 16) + 1
  IN IF loader.sys < FlashSize /\ ThereIsImage(Now, loader.sys) THEN {loader.sys}
     ELSE IF k <= Len(images) THEN {images[k]}
     ELSE IF images # <<>> THEN {images[1]} ELSE {}

Booted == phase \in {"run", "console"} /\ selection >= 0

\* Nothing is read that was being erased when the power failed, and no length of a
\* segment without its address.
WellDefined ==
  \A a \in Addresses :
    /\ flash[a] # Junk
    /\ Mem(a)[1] = "size" => Mem(a + 1)[1] \in {"ld", "erased"}

\* The boot loader loads the image of the system data if all pins select it and it is
\* there, else the one with the number the pins give, else image 0, and what is in the
\* RAM then is its segments, at whatever alignment, and nothing else; without an image
\* it ends in the console.
\* (rtl_boot_s.c:334, :436, :470)
BootsSelected ==
  Booted /\ WellDefined =>
    IF Chosen = {} THEN phase = "console" ELSE \A p \in Chosen : ram = InRam(Now, p)

\* An upload that does not reach into the sectors of image 0 leaves a device that
\* starts it if no pin is selected, wherever the upload was cut off.
\* (cgiflash_rtl.c:68, rtl_boot_s.c:470)
DefaultSurvives ==
  LET end == RoundUp(EndOf(Was, DefaultImage))
      meets == request.len > 0 /\ request.start < end
                 /\ request.start + request.len > DefaultImage
  IN Booted /\ ~meets /\ selection % 16 = 0
       => phase = "run" /\ ram = InRam(Was, DefaultImage)

\* An upload of a whole image that was answered with success, with erasing, is what
\* the boot loader loads when its place is selected. (cgiflash_rtl.c:229, rtl_boot_s.c:470)
UploadedBoots ==
  Booted /\ answer = "ok" /\ request.autoErase /\ request.start >= ExcludeEnd
    /\ request.len = Len(NewImage) /\ Chosen = {request.start}
    => ram = InRam(WithNew, request.start)

\* The search for an image ends. (rtl_boot_s.c:500)
BootEnds == phase = "head" ~> phase \in {"run", "console"}
=============================================================================
