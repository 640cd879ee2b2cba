---------------------------- MODULE HttpdText ----------------------------
(***************************************************************************)
(* What the server does with text: form data and URL parameters, header    *)
(* lines, base64 and the check of a password.  A text is the sequence of   *)
(* its character codes, without the terminating zero.                      *)
(***************************************************************************)
EXTENDS Integers, Sequences, SequencesExt, FiniteSets

Byte == 0..255

\* A loop over a text: a character c takes the state s to step[c][s].
Loop(step, s0, text) ==
  LET state[n \in 0..Len(text)] == IF n = 0 THEN s0 ELSE step[text[n]][state[n - 1]]
  IN state[Len(text)]

NotFoundText == [len |-> -1, text |-> <<>>]

Least(S) == CHOOSE x \in S : \A y \in S : x <= y
PositionsOf(c, text) == {k \in DOMAIN text : text[k] = c}

\* The part of text before the first of the characters in stops, from position p on.
UpTo(text, p, stops) ==
  LET ends == {k \in p..Len(text) : text[k] \in stops}
  IN SubSeq(text, p, (IF ends = {} THEN Len(text) + 1 ELSE Least(ends)) - 1)

\* Has text this word at position p?
At(text, p, word) == p + Len(word) - 1 <= Len(text) /\ SubSeq(text, p, p + Len(word) - 1) = word

CR == 13  LF == 10  Space == 32  PercentSign == 37  Ampersand == 38
Plus == 43  Colon == 58  EqualsSign == 61

-----------------------------------------------------------------------------
(* Form data *)

HexVal(c) ==
  CASE c \in 48..57  -> c - 48
    [] c \in 65..70  -> c - 65 + 10
    [] c \in 97..102 -> c - 97 + 10
    [] OTHER -> 0

\* One pass of the loop of httpdUrlDecode: esced counts the characters of an escape so far.
DecodeChar(s, c) ==
  IF s.esced = 1 THEN [s EXCEPT !.esced = 2, !.val = HexVal(c) * 16]
  ELSE IF s.esced = 2 THEN [s EXCEPT !.esced = 0, !.ret = Append(@, s.val + HexVal(c))]
  ELSE IF c = PercentSign THEN [s EXCEPT !.esced = 1]
  ELSE [s EXCEPT !.ret = Append(@, IF c = Plus THEN Space ELSE c)]

DecodeState == [esced : 0..2, val : 0..240, ret : Seq(Byte)]

\* The result may fill the buffer, and is not terminated then.
UrlDecode(val, retLen) ==
  LET step == [c \in Byte |-> [s \in DecodeState |->
                 IF Len(s.ret) < retLen THEN DecodeChar(s, c) ELSE s]]
  IN Loop(step, [esced |-> 0, val |-> 0, ret |-> <<>>], val).ret

IsArg(line, p, arg) == At(line, p, Append(arg, EqualsSign))

\* httpdFindArg goes from one & to the next, up to an empty line.
FindArg(line, arg, buffLen) ==
  LET starts == {1} \cup {k + 1 : k \in PositionsOf(Ampersand, line)}
      ends == {p \in starts : p > Len(line) \/ line[p] \in {CR, LF}}
      found == {p \in starts : IsArg(line, p, arg) /\ \A e \in ends : p < e}
      text == LET p == Least(found) + Len(arg) + 1
              IN UrlDecode(UpTo(line, p, {Ampersand}), buffLen)
  IN IF found = {} THEN NotFoundText ELSE [len |-> Len(text), text |-> text]

-----------------------------------------------------------------------------
(* Header lines *)

\* httpdGetHeader: the first line of head that starts with this name and a colon, without
\* the control characters before it.
GetHeader(head, header, retLen) ==
  LET Start(line) ==
        LET text == {k \in DOMAIN line : line[k] > 32}
        IN IF text = {} THEN <<>> ELSE SubSeq(line, Least(text), Len(line))
      found == {n \in DOMAIN head : At(Start(head[n]), 1, Append(header, Colon))}
      line == Start(head[Least(found)])
      value == SubSeq(line, Len(header) + 2, Len(line))
      shown == LET text == {k \in DOMAIN value : value[k] # Space}
               IN IF text = {} THEN <<>> ELSE UpTo(value, Least(text), {CR, LF})
  IN IF found = {} THEN NotFoundText
     ELSE LET text == SubSeq(shown, 1, IF Len(shown) < retLen THEN Len(shown) ELSE retLen - 1)
          IN [len |-> Len(text), text |-> text]

-----------------------------------------------------------------------------
(* base64 *)

\* The character for six bits, and back: 255 if there is none.
EncTab(n) ==
  CASE n < 26 -> 65 + n [] n \in 26..51 -> 97 + n - 26
    [] n \in 52..61 -> 48 + n - 52 [] n = 62 -> 43 [] OTHER -> 47
DecTab(c) ==
  IF \E n \in 0..63 : EncTab(n) = c THEN CHOOSE n \in 0..63 : EncTab(n) = c ELSE 255

\* 2 ^ n, for the shifts that occur.
Power(n) == CASE n = 0 -> 1 [] n = 2 -> 4 [] n = 4 -> 16 [] OTHER -> 64

\* Of the register v only the rem low bits matter, which were taken in and not put out yet.
DecoderState == [v : 0..63, rem : {0, 2, 4, 6}, out : Seq(Byte), stop : BOOLEAN, fail : BOOLEAN]
EncoderState == [v : 0..15, rem : {0, 2, 4}, out : Seq(Byte)]

\* One pass of the loop of base64_decode; stop stands for break, fail for the result -1.
DecodeSextet(s, c, outLen) ==
  LET v == s.v * 64 + DecTab(c)
  IN IF s.stop \/ c \in {9, 10, 11, 12, 13, Space} THEN s
     ELSE IF c = EqualsSign \/ DecTab(c) = 255 THEN [s EXCEPT !.stop = TRUE]
     ELSE IF s.rem = 0 THEN [s EXCEPT !.v = v, !.rem = 6]
     ELSE IF Len(s.out) >= outLen THEN [s EXCEPT !.stop = TRUE, !.fail = TRUE]
     ELSE [s EXCEPT !.v = v % Power(s.rem - 2), !.rem = @ - 2,
                    !.out = Append(@, v \div Power(s.rem - 2))]

Base64Decode(in, outLen) ==
  LET step == [c \in Byte |-> [s \in DecoderState |-> DecodeSextet(s, c, outLen)]]
      s == Loop(step, [v |-> 0, rem |-> 0, out |-> <<>>, stop |-> FALSE, fail |-> FALSE], in)
  IN IF s.fail THEN NotFoundText ELSE [len |-> Len(s.out), text |-> s.out]

\* One pass of the loop of base64_encode: a byte gives one character or two.
EncodeByte(s, b) ==
  LET v == s.v * 256 + b
      out == Append(s.out, EncTab(v \div Power(s.rem + 2)))
      left == v % Power(s.rem + 2)
  IN IF s.rem < 4 THEN [v |-> left, rem |-> s.rem + 2, out |-> out]
     ELSE [v |-> 0, rem |-> 0, out |-> Append(out, EncTab(left))]

\* The callers' buffers are large enough.
Base64Encode(in) ==
  LET step == [b \in Byte |-> [s \in EncoderState |-> EncodeByte(s, b)]]
      s == Loop(step, [v |-> 0, rem |-> 0, out |-> <<>>], in)
      code == IF s.rem = 0 THEN s.out ELSE Append(s.out, EncTab(s.v * Power(6 - s.rem)))
  IN code \o [k \in 1..((4 - (Len(code) % 4)) % 4) |-> EqualsSign]

-----------------------------------------------------------------------------
(* The check of a password *)

Basic == <<66, 97, 115, 105, 99>>
Authorization == <<65, 117, 116, 104, 111, 114, 105, 122, 97, 116, 105, 111, 110>>

\* Mutant.
SamePasswordPrefix(userpass, user, pass) == At(userpass, 1, user \o <<Colon>> \o pass)

SamePassword(userpass, user, pass) ==
  /\ Len(userpass) = Len(user) + Len(pass) + 1
  /\ At(userpass, 1, user)
  /\ userpass[Len(user) + 1] = Colon
  /\ SubSeq(userpass, Len(user) + 2, Len(userpass)) = pass

\* authBasic: the text after "Basic " is decoded into a buffer for one user and password
\* (MaxUser, MaxPass); a text that does not fit counts as empty.
Authenticates(head, users, maxUser, maxPass) ==
  LET hdr == GetHeader(head, Authorization, (maxUser + maxPass + 2) * 10)
      userpass == Base64Decode(SubSeq(hdr.text, 7, Len(hdr.text)), maxUser + maxPass + 2).text
  IN /\ hdr # NotFoundText /\ At(hdr.text, 1, Basic)
     /\ \E u \in users : SamePassword(userpass, u.user, u.pass)

=============================================================================
