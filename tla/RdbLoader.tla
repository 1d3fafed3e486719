------------------------------ MODULE RdbLoader ------------------------------
(***************************************************************************)
(* The loader of snapshot files, src/src/rdb.py, over bytes: LoadRdb(data) *)
(* says whether the file could be read, and the pairs of a key and a value *)
(* that were set, in their order.  Every exception ends the start of the   *)
(* process, so they are not told apart: ok is FALSE.                       *)
(***************************************************************************)
EXTENDS RespReader

OpEof == 255
OpSelectDb == 254
OpExpireTime == 253
OpExpireTimeMs == 252
OpResizeDb == 251
TypeString == 0

Unreadable == [ok |-> FALSE, items |-> <<>>]
NoField == [val |-> <<>>, pos |-> 0]
Field(val, pos) == [val |-> val, pos |-> pos]

(* Slices, like Python's, end where the data ends.                         *)
Bytes(data, pos, n) == SubSeq(data, pos, IF pos + n - 1 < Len(data)
                                           THEN pos + n - 1 ELSE Len(data))

BigEndian(s) == FoldLeft(LAMBDA v, b : 256 * v + b, 0, s)

(* int.from_bytes(s, "little", signed=True): the last byte has the sign.   *)
SignedLittle(s) ==
  IF s = <<>> THEN 0
  ELSE LET top == IF Last(s) >= 128 THEN Last(s) - 256 ELSE Last(s)
       IN  FoldLeft(LAMBDA v, b : 256 * v + b, top, Reverse(Front(s)))

(* Variant: the two bytes of a 14-bit length are swapped.                  *)
ReadLengthSwapped(data, pos) ==
  IF pos > Len(data) THEN NoField
  ELSE LET first == data[pos]
       IN  CASE first \div 64 = 0 -> Field(first, pos + 1)
             [] first \div 64 = 1 /\ pos < Len(data) ->
                  Field(256 * data[pos + 1] + (first % 64), pos + 2)
             [] first \div 64 = 2 -> Field(BigEndian(Bytes(data, pos + 1, 4)), pos + 5)
             [] OTHER -> NoField

(* The top two bits say how long the length is; 11 is no length.           *)
ReadLength(data, pos) ==
  IF pos > Len(data) THEN NoField
  ELSE LET first == data[pos]
       IN  CASE first \div 64 = 0 -> Field(first, pos + 1)
             [] first \div 64 = 1 /\ pos < Len(data) ->
                  Field(256 * (first % 64) + data[pos + 1], pos + 2)
             [] first \div 64 = 2 -> Field(BigEndian(Bytes(data, pos + 1, 4)), pos + 5)
             [] OTHER -> NoField

(* A string, or an integer of 8, 16 or 32 bits as its decimal digits.      *)
ReadString(data, pos) ==
  IF pos = 0 \/ pos > Len(data) THEN NoField
  ELSE IF data[pos] \div 64 = 3
    THEN LET n == 2 ^ (data[pos] % 64)
         IN  IF data[pos] % 64 > 2 THEN NoField
             ELSE Field(Decimal(SignedLittle(Bytes(data, pos + 1, n))), pos + n + 1)
    ELSE LET length == ReadLength(data, pos)
         IN  IF length.pos = 0 THEN NoField
             ELSE Field(Bytes(data, length.pos, length.val), length.pos + length.val)

(* An expiry time is read and not used.                                    *)
ParseBody(data, start) ==
  LET Body[p \in Nat] ==
        IF p = 0 \/ p > Len(data) THEN Unreadable
        ELSE CASE data[p] = OpEof -> [ok |-> TRUE, items |-> <<>>]
               [] data[p] = OpSelectDb -> Body[ReadLength(data, p + 1).pos]
               [] data[p] = OpResizeDb ->
                    LET first == ReadLength(data, p + 1)
                    IN  Body[IF first.pos = 0 THEN 0
                             ELSE ReadLength(data, first.pos).pos]
               [] OTHER ->
                    LET type == p + (CASE data[p] = OpExpireTimeMs -> 9
                                       [] data[p] = OpExpireTime -> 5
                                       [] OTHER -> 0)
                        key == ReadString(data, type + 1)
                        value == ReadString(data, key.pos)
                        rest == Body[value.pos]
                    IN  IF type > Len(data) \/ value.pos = 0 THEN Unreadable
                        ELSE IF data[type] # TypeString THEN Unreadable
                        ELSE [rest EXCEPT !.items = << <<key.val, value.val>> >> \o @]
  IN  Body[start]

LoadRdb(data) ==
  IF SubSeq(data, 1, 5) # <<82, 69, 68, 73, 83>> THEN Unreadable
  ELSE ParseBody(data, 10)

=============================================================================
