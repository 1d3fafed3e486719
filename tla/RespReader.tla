------------------------------ MODULE RespReader ------------------------------
(***************************************************************************)
(* The incremental reader of RESP commands of src/src/resp.py, and the     *)
(* encoder of commands, over bytes.  TryParse takes a buffer and says what *)
(* try_parse_command does with it; a buffer only grows at its end.         *)
(*                                                                         *)
(* Lengths are written with digits and perhaps a minus sign, and none is   *)
(* below -1; other text that int() accepts is left out.                    *)
(***************************************************************************)
EXTENDS Integers, Sequences, SequencesExt

Star == 42
Dollar == 36
Minus == 45
Zero == 48
Space == 32
CrLf == <<13, 10>>

Null == <<-1>>  \* the null bulk string: no text is like it

Digits[n \in Nat] ==
  IF n < 10 THEN <<Zero + n>> ELSE Append(Digits[n \div 10], Zero + (n % 10))
Decimal(n) == IF n < 0 THEN <<Minus>> \o Digits[-n] ELSE Digits[n]

IsDigits(s) == s # <<>> /\ \A i \in DOMAIN s : s[i] \in Zero..(Zero + 9)
IsNumber(s) == IsDigits(s) \/ (s # <<>> /\ Head(s) = Minus /\ IsDigits(Tail(s)))
ValueOf(s) == FoldLeft(LAMBDA v, b : 10 * v + b - Zero, 0, s)
NumberIn(s) == IF Head(s) = Minus THEN -ValueOf(Tail(s)) ELSE ValueOf(s)

-----------------------------------------------------------------------------
(* encode_array of a list of bytes.                                        *)
Encode(words) ==
  <<Star>> \o Decimal(Len(words)) \o CrLf
    \o FlattenSeq([i \in DOMAIN words |->
         <<Dollar>> \o Decimal(Len(words[i])) \o CrLf \o words[i] \o CrLf])

-----------------------------------------------------------------------------
(* What one call returns: no complete command yet, a protocol error, an    *)
(* exception of int() that nothing catches, or the words of a command and  *)
(* the buffer behind it.                                                   *)
More == [kind |-> "more"]
Malformed == [kind |-> "malformed"]
Raised == [kind |-> "raised"]
Parsed(words, rest) == [kind |-> "command", words |-> words, rest |-> rest]

(* Within an array: the words so far, and where the next one begins.       *)
Found(words, pos) == [kind |-> "items", words |-> words, pos |-> pos]

(* The first CRLF at or after i, 0 if there is none.                       *)
LineEnd(buf, i) ==
  LET ends == {j \in i..(Len(buf) - 1) : SubSeq(buf, j, j + 1) = CrLf}
  IN  IF ends = {} THEN 0 ELSE CHOOSE j \in ends : \A h \in ends : j <= h

(* One bulk string of an array, at s.pos, behind the words read so far.    *)
Item(buf, s) ==
  LET end == LineEnd(buf, s.pos + 1)
      text == SubSeq(buf, s.pos + 1, end - 1)
      last == end + 1 + NumberIn(text)
  IN  IF s.kind # "items" THEN s
      ELSE IF s.pos > Len(buf) THEN More
      ELSE IF buf[s.pos] # Dollar THEN Malformed
      ELSE IF end = 0 THEN More
      ELSE IF ~IsNumber(text) THEN Raised
      ELSE IF NumberIn(text) = -1
        THEN Found(Append(s.words, Null), end + 2)
      ELSE IF Len(buf) < last + 2 THEN More
      ELSE Found(Append(s.words, SubSeq(buf, end + 2, last)), last + 3)

ParseArray(buf) ==
  LET end == LineEnd(buf, 1)
      text == SubSeq(buf, 2, end - 1)
      From(i) == SubSeq(buf, i, Len(buf))
      Scan[n \in 0..NumberIn(text)] ==
        IF n = 0 THEN Found(<<>>, end + 2) ELSE Item(buf, Scan[n - 1])
      all == Scan[NumberIn(text)]
  IN  IF end = 0 THEN More
      ELSE IF ~IsNumber(text) THEN Raised
      ELSE IF NumberIn(text) <= 0 THEN Parsed(<<>>, From(end + 2))
      ELSE IF all.kind # "items" THEN all
      ELSE Parsed(all.words, From(all.pos))

(* Plain text up to the end of the line, split at spaces.                  *)
ParseInline(buf) ==
  LET end == LineEnd(buf, 1)
      Split(words, b) ==
        IF b = Space THEN Append(words, <<>>)
                     ELSE Append(Front(words), Append(Last(words), b))
      words == FoldLeft(Split, << <<>> >>, SubSeq(buf, 1, end - 1))
  IN  IF end = 0 THEN More
      ELSE Parsed(SelectSeq(words, LAMBDA w : w # <<>>),
                  SubSeq(buf, end + 2, Len(buf)))

TryParse(buf) ==
  IF buf = <<>> THEN More
  ELSE IF Head(buf) = Star THEN ParseArray(buf) ELSE ParseInline(buf)

=============================================================================
