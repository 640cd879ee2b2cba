------------------------------- MODULE EspFs -------------------------------
(***************************************************************************)
(* The read-only file system: the image that mkespfsimage writes, and how  *)
(* espfs.c finds and reads a file in it. The image has one cell per byte;  *)
(* the first cell of a header or a name stands for the whole of it, so a   *)
(* walk that is off by a byte finds no header.                             *)
(***************************************************************************)
EXTENDS Heatshrink

CONSTANTS
  Files,      \* what is packed: [name, namelen, ext, deflated, data], deflated what zlib
              \* makes of data
  Options,    \* the command lines of mkespfsimage to consider
  FeedLen     \* how much espFsRead hands to the decoder at a time

COMPRESS_NONE == 0
COMPRESS_HEATSHRINK == 1

\* -c, -l, and the text after -g between its commas.
CommandLine(o) ==
  /\ o.compType \in {COMPRESS_NONE, COMPRESS_HEATSHRINK}
  /\ o.compLvl \in {-1} \cup 1 .. 9
NoArguments ==
  [compType |-> COMPRESS_HEATSHRINK, compLvl |-> -1, gzip |-> <<"html", "css", "js", "svg">>]

ASSUME FilesAssumption ==
  /\ \A o \in Options : CommandLine(o)
  /\ FeedLen \in Nat \ {0}
  /\ \A k \in DOMAIN Files : Files[k].namelen \in Nat \ {0}

VARIABLE image   \* the flash from the address given to espFsInit on

HeaderLen == 16
NoFile == <<>>

\* How many bytes are missing to the next 32-bit boundary.
Padding(n) == (4 - (n % 4)) % 4

\* Cells.
Header(h) == <<"header", h>>
Name(n) == <<"name", n>>
Byte(b) == <<"byte", b>>
Inside(n) == [i \in 1 .. n |-> <<"inside">>]
Bytes(s) == [i \in DOMAIN s |-> Byte(s[i])]

-----------------------------------------------------------------------------
(* mkespfsimage *)

Slot(level) == ((IF level = -1 THEN 8 ELSE level) - 1) \div 2 + 1
WindowBits(level) == <<5, 6, 8, 11, 13>>[Slot(level)]
LookaheadBits(level) == <<3, 3, 4, 4, 4>>[Slot(level)]

\* Poll while there is more: the first error, which is an output buffer of no
\* bytes, ends the loop.
RECURSIVE PollAll(_, _, _)
AfterPoll(p, room, out) ==
  IF p[1] = "MORE" THEN PollAll(p[2], room - Len(p[3]), out \o p[3])
  ELSE <<p[2], out \o p[3]>>
PollAll(e, room, out) ==
  IF room = 0 THEN <<e, out>> ELSE AfterPoll(EncoderPoll(e, room), room, out)

RECURSIVE Feed(_, _, _, _)
AfterFeed(p, rest, room, out) ==
  IF rest = <<>> THEN out \o p[2]
  ELSE Feed(p[1], rest, room - Len(p[2]), out \o p[2])
Feed(e, data, room, out) ==
  LET rest == SubSeq(data, SinkSize(e, data) + 1, Len(data))
      sunk == IF data = <<>> THEN e ELSE EncoderSink(e, data)
      full == IF data # <<>> /\ rest = <<>> THEN EncoderFinish(sunk) ELSE sunk
  IN AfterFeed(PollAll(full, room, <<>>), rest, room, out)

\* The settings in the first byte, then the compressed data.
CompressHeatshrink(data, level) ==
  <<16 * WindowBits(level) + LookaheadBits(level)>>
    \o Feed(Encoder(WindowBits(level), LookaheadBits(level)), data, 2 * Len(data) - 1, <<>>)

\* parseGzipExtensions: strtok passes over what is empty.
ParseGzipExtensions(list) == {list[k] : k \in DOMAIN list} \ {""}

\* The part of the name behind its last dot; "" if there is none.
ShouldCompressGzip(f, o) == f.ext \in ParseGzipExtensions(o.gzip)

\* The buffer is always large enough for zlib's stream.
CompressGzip(f) == f.deflated

\* handleFile: what is stored of a file, and how.
StoredAs(f, gzip, heatshrink, packed) ==
  LET plain == Len(packed) > Len(f.data)
  IN [name |-> f.name, last |-> FALSE,
      gzip |-> gzip /\ ~plain,
      heatshrink |-> heatshrink /\ ~plain,
      namelen |-> f.namelen + Padding(f.namelen),
      complen |-> IF plain THEN Len(f.data) ELSE Len(packed),
      decomplen |-> Len(f.data),
      content |-> IF plain THEN f.data ELSE packed]

Stored(f, o) ==
  LET gzip == ShouldCompressGzip(f, o)
      heatshrink == ~gzip /\ o.compType = COMPRESS_HEATSHRINK
  IN StoredAs(f, gzip, heatshrink,
              CASE gzip -> CompressGzip(f)
                [] heatshrink -> CompressHeatshrink(f.data, o.compLvl)
                [] OTHER -> f.data)

Written(s) ==
  <<Header(s)>> \o Inside(HeaderLen - 1) \o <<Name(s.name)>> \o Inside(s.namelen - 1)
    \o Bytes(s.content) \o [i \in 1 .. Padding(s.complen) |-> Byte(0)]

\* finishArchive
LastHeader ==
  <<Header([last |-> TRUE, gzip |-> FALSE, heatshrink |-> FALSE, namelen |-> 0,
            complen |-> 0, decomplen |-> 0])>> \o Inside(HeaderLen - 1)

Image(o) ==
  FlattenSeq([k \in DOMAIN Files |-> Written(Stored(Files[k], o))]) \o LastHeader

\* The flash behind the image is erased.
Cell(p) == IF p < Len(image) THEN image[p + 1] ELSE Byte(255)

-----------------------------------------------------------------------------
(* espfs.c *)

\* espFsInit: the address is aligned; there is an image if there is a header.
Mounted == Cell(0)[1] = "header"

\* The header that espFsOpen finds for a name, walking from p.
RECURSIVE FindFile(_, _)
FindFile(name, p) ==
  LET h == Cell(p)[2]
      next == p + HeaderLen + h.namelen + h.complen
  IN IF Cell(p)[1] # "header" THEN NoFile
     ELSE IF h.last THEN NoFile
     ELSE IF Cell(p + HeaderLen) = Name(name)
          THEN [header |-> h, start |-> p + HeaderLen + h.namelen]
     ELSE FindFile(name, next + Padding(next))

\* espFsOpen, when there is memory: a file handle. The decoder is allocated too, and the result
\* is not checked (heatshrink_decoder_alloc): what a read does with none is left out.
OpenFile(name) ==
  LET f == FindFile(name, 0)
      parm == Cell(f.start)[2]
  IN IF ~Mounted THEN NoFile
     ELSE IF f = NoFile THEN NoFile
     ELSE [header |-> f.header, start |-> f.start, decomp |-> 0,
           pos |-> f.start + (IF f.header.heatshrink THEN 1 ELSE 0),
           dec |-> IF f.header.heatshrink
                   THEN Decoder((parm \div 16) % 16, parm % 16, FeedLen) ELSE <<>>]

Flash(p, n) == [i \in 1 .. n |-> Cell(p + i - 1)[2]]

\* The loop of espFsRead for a compressed file: <<handle, bytes>>.
RECURSIVE ReadCompressed(_, _, _)
Decoded(fh, taken, dec, bytes) ==
  [fh EXCEPT !.dec = dec, !.pos = @ + taken, !.decomp = @ + Len(bytes)]
ReadOn(fh, len, out, atEnd) ==
  IF atEnd \/ Len(out) >= len THEN <<fh, out>> ELSE ReadCompressed(fh, len, out)
AfterDecoding(fh, len, out, left, taken, p) ==
  ReadOn(Decoded(fh, taken, p[1], p[2]), len, out \o p[2], left = 0)
ReadCompressed(fh, len, out) ==
  LET left == fh.header.complen - (fh.pos - fh.start)
      feed == Flash(fh.pos, Least(left, FeedLen))
      taken == IF left > 0 THEN DecoderTakes(fh.dec, feed) ELSE 0
      fed == IF left > 0 THEN DecoderSink(fh.dec, feed) ELSE fh.dec
  IN AfterDecoding(fh, len, out, left, taken, DecoderPoll(fed, len - Len(out)))

\* espFsFlags, of which only this one is asked for.
IsGzip(fh) == fh.header.gzip

\* espFsRead: <<handle, bytes>>.
ReadFile(fh, len) ==
  LET n == Least(len, fh.header.complen - (fh.pos - fh.start))
  IN CASE ~fh.header.heatshrink ->
            <<[fh EXCEPT !.pos = @ + n, !.decomp = @ + n], Flash(fh.pos, n)>>
       [] fh.header.heatshrink /\ fh.decomp = fh.header.decomplen -> <<fh, <<>>>>
       [] OTHER -> ReadCompressed(fh, len, <<>>)
=============================================================================
