----------------------------- MODULE Heatshrink -----------------------------
(***************************************************************************)
(* The compressor and the decompressor of lib/heatshrink as operators: an  *)
(* encoder or a decoder is a record, a call of the library an operator on  *)
(* it. A byte on its way between the two is a sequence of eight bits.      *)
(***************************************************************************)
EXTENDS Integers, Sequences, SequencesExt, FiniteSetsExt

BitsOf(n, k) == [i \in 1 .. k |-> (n \div 2 ^ (k - i)) % 2]
ValueOf(bits) == FoldLeft(LAMBDA v, b : 2 * v + b, 0, bits)
Least(a, b) == IF a <= b THEN a ELSE b

MinWindowBits == 4
MaxWindowBits == 15
MinLookaheadBits == 2

\* What heatshrink_encoder_alloc and heatshrink_decoder_alloc accept.
Settings(w, l) == w \in MinWindowBits .. MaxWindowBits /\ l \in MinLookaheadBits .. w

-----------------------------------------------------------------------------
(* The encoder. buf has the backlog in its first half, the input in its       *)
(* second; bits is the byte under construction; outgoing what is left of a    *)
(* back-reference's index or length; o and room belong to the running poll.   *)

Encoder(w, l) ==
  [w |-> w, l |-> l, state |-> "NOT_FULL", buf |-> [i \in 0 .. 2 ^ (w + 1) - 1 |-> 0],
   size |-> 0, scan |-> 0, mlen |-> 0, mpos |-> 0, finishing |-> FALSE,
   backlog |-> "none", bits |-> <<>>, outgoing |-> <<>>, o |-> <<>>, room |-> 0]

Window(e) == 2 ^ e.w
Lookahead(e) == 2 ^ e.l

MaySink(e) == ~e.finishing /\ e.state = "NOT_FULL"
SinkSize(e, data) == Least(Window(e) - e.size, Len(data))

EncoderSink(e, data) ==
  LET n == SinkSize(e, data)
      at == Window(e) + e.size
  IN [e EXCEPT !.buf = [i \in DOMAIN e.buf |->
                          IF i \in at .. at + n - 1 THEN data[i - at + 1] ELSE e.buf[i]],
               !.size = @ + n,
               !.state = IF n = Window(e) - e.size THEN "FILLED" ELSE @]

EncoderFinish(e) ==
  [e EXCEPT !.finishing = TRUE, !.state = IF @ = "NOT_FULL" THEN "FILLED" ELSE @]

CanTake(e) == Len(e.o) < e.room

\* At most eight bits, so at most one byte is completed.
PushBits(e, more) ==
  LET all == e.bits \o more
  IN IF Len(all) < 8 THEN [e EXCEPT !.bits = all]
     ELSE [e EXCEPT !.o = Append(@, SubSeq(all, 1, 8)),
                    !.bits = SubSeq(all, 9, Len(all))]

BreakEven == 3

\* How far the bytes from pos agree with those from end.
MatchLen(e, pos, end, maxlen) ==
  Max({n \in 0 .. maxlen : \A i \in 0 .. n - 1 : e.buf[pos + i] = e.buf[end + i]})

\* The longest match, the nearest of equals; <<>> if it does not pay.
FindLongestMatch(e, start, end, maxlen) ==
  LET Length(pos) == MatchLen(e, pos, end, maxlen)
      best == Max({0} \cup {Length(pos) : pos \in start .. end - 1})
  IN IF best < BreakEven THEN <<>>
     ELSE <<best, end - Max({pos \in start .. end - 1 : Length(pos) = best})>>

StepSearch(e) ==
  LET end == Window(e) + e.scan
      back == e.scan + 1
      start == CASE e.backlog = "filled"  -> back
                 [] e.backlog = "partial" -> Max({back, Lookahead(e)})
                 [] e.backlog = "none"    -> Window(e)
      match == FindLongestMatch(e, start, end, Least(Lookahead(e), e.size - e.scan))
  IN CASE e.scan >= e.size - (IF e.finishing THEN 0 ELSE Lookahead(e)) ->
            [e EXCEPT !.state = "SAVE_BACKLOG"]
       [] OTHER ->
            IF match = <<>>
            THEN [e EXCEPT !.scan = @ + 1, !.mlen = 0, !.state = "YIELD_TAG_BIT"]
            ELSE [e EXCEPT !.mlen = match[1], !.mpos = match[2],
                           !.state = "YIELD_TAG_BIT"]

YieldTagBit(e) ==
  IF e.mlen = 0
  THEN [PushBits(e, <<1>>) EXCEPT !.state = "YIELD_LITERAL"]
  ELSE [PushBits(e, <<0>>) EXCEPT !.outgoing = BitsOf(e.mpos - 1, e.w),
                                  !.state = "YIELD_BR_INDEX"]

YieldLiteral(e) ==
  [PushBits(e, BitsOf(e.buf[Window(e) + e.scan - 1], 8)) EXCEPT !.state = "SEARCH"]

\* Push up to eight of the outgoing bits; go on with next once there are none.
YieldOutgoing(e, next) ==
  LET n == Least(8, Len(e.outgoing))
  IN IF n = 0 THEN next
     ELSE [PushBits(e, SubSeq(e.outgoing, 1, n))
             EXCEPT !.outgoing = SubSeq(@, n + 1, Len(@))]

AfterIndex(e) ==
  [e EXCEPT !.outgoing = BitsOf(e.mlen - 1, e.l), !.state = "YIELD_BR_LENGTH"]
AfterLength(e) == [e EXCEPT !.scan = @ + e.mlen, !.mlen = 0, !.state = "SEARCH"]

\* Mutant: only the new backlog is moved, the unprocessed bytes are lost.
SaveBacklogShort(e) ==
  [e EXCEPT !.buf = [i \in DOMAIN e.buf |->
                       IF i < Window(e) THEN e.buf[e.scan + i] ELSE e.buf[i]],
            !.backlog = IF @ = "none" THEN "partial" ELSE "filled",
            !.scan = 0, !.size = @ - e.scan, !.state = "NOT_FULL"]

\* What was processed moves to the first half, the rest to the start of the second.
SaveBacklog(e) ==
  LET from == e.scan
      moved == 2 * Window(e) - e.scan
  IN [e EXCEPT !.buf = [i \in DOMAIN e.buf |->
                          IF i < moved THEN e.buf[from + i] ELSE e.buf[i]],
               !.backlog = IF @ = "none" THEN "partial" ELSE "filled",
               !.scan = 0, !.size = @ - e.scan, !.state = "NOT_FULL"]

FlushBits(e) ==
  CASE e.bits = <<>> -> [e EXCEPT !.state = "DONE"]
    [] e.bits # <<>> /\ CanTake(e) ->
         [e EXCEPT !.o = Append(@, e.bits \o [i \in 1 .. 8 - Len(e.bits) |-> 0]),
                   !.state = "DONE"]
    [] OTHER -> e

EncoderStep(e) ==
  CASE e.state = "FILLED" -> [e EXCEPT !.state = "SEARCH"]
    [] e.state = "SEARCH" -> StepSearch(e)
    [] e.state = "SAVE_BACKLOG" ->
         IF e.finishing THEN [e EXCEPT !.state = "FLUSH_BITS"] ELSE SaveBacklog(e)
    [] e.state = "FLUSH_BITS" -> FlushBits(e)
    [] ~CanTake(e) -> e
    [] e.state = "YIELD_TAG_BIT" -> YieldTagBit(e)
    [] e.state = "YIELD_LITERAL" -> YieldLiteral(e)
    [] e.state = "YIELD_BR_INDEX" -> YieldOutgoing(e, AfterIndex(e))
    [] e.state = "YIELD_BR_LENGTH" -> YieldOutgoing(e, AfterLength(e))

\* The loop of heatshrink_encoder_poll: it returns EMPTY after FLUSH_BITS whatever
\* that did, and MORE when a state repeats and the output buffer is full.
RECURSIVE EncoderRun(_)
EncoderAfter(e, f) ==
  CASE e.state = "FLUSH_BITS" -> <<"EMPTY", f>>
    [] e.state # "FLUSH_BITS" /\ e.state = f.state /\ ~CanTake(f) -> <<"MORE", f>>
    [] OTHER -> EncoderRun(f)
EncoderRun(e) ==
  IF e.state \in {"NOT_FULL", "DONE"} THEN <<"EMPTY", e>>
  ELSE EncoderAfter(e, EncoderStep(e))

\* <<result, encoder, bytes>>
EncoderPolled(res, e) == <<res, [e EXCEPT !.o = <<>>, !.room = 0], e.o>>
EncoderPoll(e, n) ==
  LET run == EncoderRun([e EXCEPT !.o = <<>>, !.room = n])
  IN EncoderPolled(run[1], run[2])

-----------------------------------------------------------------------------
(* The decoder. in is what its input buffer holds, used the bytes of it that   *)
(* were taken (their room comes back only when all were); bits is what is left *)
(* of the current byte, win the window of what was put out.                    *)

Decoder(w, l, buflen) ==
  [w |-> w, l |-> l, cap |-> buflen, state |-> "EMPTY", in |-> <<>>, used |-> 0,
   bits |-> <<>>, count |-> 0, index |-> 0, head |-> 0,
   win |-> [i \in 0 .. 2 ^ w - 1 |-> 0], o |-> <<>>, room |-> 0]

\* How many bytes heatshrink_decoder_sink takes.
DecoderTakes(d, data) == Least(d.cap - Len(d.in), Len(data))

DecoderSink(d, data) ==
  IF Len(d.in) = d.cap THEN d
  ELSE [d EXCEPT !.in = @ \o SubSeq(data, 1, DecoderTakes(d, data)),
                 !.state = IF @ = "EMPTY" THEN "INPUT_AVAILABLE" ELSE @]

HasBits(d, n) == d.in # <<>> \/ Len(d.bits) >= n

\* get_bits: the next byte is taken when the bits of the current one run out.
WithBits(d, n) ==
  IF Len(d.bits) >= n THEN d
  ELSE LET last == d.used + 1 = Len(d.in)
       IN [d EXCEPT !.bits = @ \o d.in[d.used + 1],
                    !.used = IF last THEN 0 ELSE @ + 1,
                    !.in = IF last THEN <<>> ELSE @]
Drop(d, n) == [d EXCEPT !.bits = SubSeq(@, n + 1, Len(@))]
GetBits(d, n) == ValueOf(SubSeq(WithBits(d, n).bits, 1, n))
AfterBits(d, n) == Drop(WithBits(d, n), n)

\* A byte for the caller, which also enters the window.
PutByte(d, c) ==
  [d EXCEPT !.o = Append(@, c), !.win[d.head % 2 ^ d.w] = c, !.head = (@ + 1) % 2 ^ 16]

\* NO_BITS is not zero and passes for the tag of a literal.
InputAvailable(d) ==
  CASE ~HasBits(d, 1) -> [d EXCEPT !.state = "YIELD_LITERAL"]
    [] HasBits(d, 1) /\ GetBits(d, 1) = 1 ->
         [AfterBits(d, 1) EXCEPT !.state = "YIELD_LITERAL"]
    [] HasBits(d, 1) /\ GetBits(d, 1) = 0 /\ d.w > 8 ->
         [AfterBits(d, 1) EXCEPT !.state = "BACKREF_INDEX_MSB"]
    [] OTHER -> [AfterBits(d, 1) EXCEPT !.state = "BACKREF_INDEX_LSB", !.index = 0]

YieldDecoded(d) ==
  IF Len(d.o) < d.room /\ HasBits(d, 8)
  THEN [PutByte(AfterBits(d, 8), GetBits(d, 8)) EXCEPT !.state = "CHECK_FOR_MORE_INPUT"]
  ELSE d

\* The four states that read a part of a back-reference.
BackrefPart(d) ==
  LET n == CASE d.state = "BACKREF_INDEX_MSB" -> d.w - 8
             [] d.state = "BACKREF_INDEX_LSB" -> Least(d.w, 8)
             [] d.state = "BACKREF_COUNT_MSB" -> d.l - 8
             [] d.state = "BACKREF_COUNT_LSB" -> Least(d.l, 8)
      v == GetBits(d, n)
      f == AfterBits(d, n)
  IN IF ~HasBits(d, n) THEN d
     ELSE CASE d.state = "BACKREF_INDEX_MSB" ->
                 [f EXCEPT !.index = 256 * v, !.state = "BACKREF_INDEX_LSB"]
            [] d.state = "BACKREF_INDEX_LSB" ->
                 [f EXCEPT !.index = @ + v + 1, !.count = 0,
                           !.state = IF d.l > 8 THEN "BACKREF_COUNT_MSB"
                                     ELSE "BACKREF_COUNT_LSB"]
            [] d.state = "BACKREF_COUNT_MSB" ->
                 [f EXCEPT !.count = 256 * v, !.state = "BACKREF_COUNT_LSB"]
            [] d.state = "BACKREF_COUNT_LSB" ->
                 [f EXCEPT !.count = @ + v + 1, !.state = "YIELD_BACKREF"]

\* As much of the back-reference as there is room for; it may overlap itself.
YieldBackref(d) ==
  LET n == Least(d.room - Len(d.o), d.count)
      Copy(f, i) == PutByte(f, f.win[(f.head - f.index) % 2 ^ f.w])
      f == FoldLeft(Copy, d, [i \in 1 .. n |-> i])
  IN [f EXCEPT !.count = @ - n,
               !.state = IF n > 0 /\ d.count = n THEN "CHECK_FOR_MORE_INPUT" ELSE @]

DecoderStep(d) ==
  CASE d.state = "INPUT_AVAILABLE" -> InputAvailable(d)
    [] d.state = "YIELD_LITERAL" -> YieldDecoded(d)
    [] d.state = "YIELD_BACKREF" -> YieldBackref(d)
    [] d.state = "CHECK_FOR_MORE_INPUT" ->
         [d EXCEPT !.state = IF d.in = <<>> THEN "EMPTY" ELSE "INPUT_AVAILABLE"]
    [] OTHER -> BackrefPart(d)

RECURSIVE DecoderRun(_)
DecoderAfter(d, f) == IF f.state = d.state THEN f ELSE DecoderRun(f)
DecoderRun(d) == IF d.state = "EMPTY" THEN d ELSE DecoderAfter(d, DecoderStep(d))

\* <<decoder, bytes>>
DecoderPolled(d) == <<[d EXCEPT !.o = <<>>, !.room = 0], d.o>>
DecoderPoll(d, n) == DecoderPolled(DecoderRun([d EXCEPT !.o = <<>>, !.room = n]))
=============================================================================
