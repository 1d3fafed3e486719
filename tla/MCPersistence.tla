---------------------------- MODULE MCPersistence ----------------------------
(* Instances of Persistence for TLC: how commands and keys are spelled,    *)
(* and snapshots that are written by the format.                           *)
EXTENDS Persistence

CONSTANTS k1, k2, a, other

(* a is a line end, which a reader must not take for one.                  *)
KeyBytes(k) == IF k = k1 THEN <<107>> ELSE <<108>>
TextBytes(v) == IF v \in Int THEN Decimal(v) ELSE CrLf
TextOf(w) == IF IsNumber(w) THEN NumberIn(w) ELSE IF w = CrLf THEN a ELSE other

(* Names of one letter for the commands beside SET.                        *)
OpBytes == [SET |-> SetWord, DEL |-> <<68>>, INCR |-> <<73>>, RPUSH |-> <<82>>,
            LPOP |-> <<76>>, XADD |-> <<88>>]

Spelled(cmd) ==
  <<OpBytes[cmd.op], KeyBytes(cmd.key)>> \o
    CASE cmd.op = "SET" -> <<TextBytes(cmd.val)>> \o
           (IF cmd.ttl = None THEN <<>> ELSE <<Decimal(cmd.ttl)>>)
      [] cmd.op = "RPUSH" -> [i \in DOMAIN cmd.vals |-> TextBytes(cmd.vals[i])]
      [] cmd.op = "XADD" -> <<IF cmd.ms = None THEN <<Star>> ELSE Decimal(cmd.ms)>>
      [] OTHER -> <<>>

(* The command of any words, those of a garbled record included.           *)
Understood(words) ==
  LET n == Len(words)
      op == {o \in DOMAIN OpBytes : OpBytes[o] = words[1]}
      k == IF words[2] = KeyBytes(k1) THEN k1 ELSE k2
  IN  CASE op = {} -> [op |-> "UNKNOWN"]
        [] n = 1 -> [op |-> "BADARITY", key |-> k1]
        [] words[2] \notin {KeyBytes(k1), KeyBytes(k2)} -> [op |-> "PING"]
        [] op = {"SET"} /\ n \in {3, 4} ->
             [op |-> "SET", key |-> k, val |-> TextOf(words[3]),
              ttl |-> IF n = 3 THEN None ELSE NumberIn(words[4])]
        [] op = {"RPUSH"} /\ n > 2 ->
             [op |-> "RPUSH", key |-> k, vals |-> [i \in 1..(n - 2) |-> TextOf(words[i + 2])]]
        [] op = {"XADD"} /\ n = 3 ->
             [op |-> "XADD", key |-> k, seq |-> None,
              ms |-> IF IsNumber(words[3]) THEN NumberIn(words[3]) ELSE None]
        [] op = {"LPOP"} /\ n = 2 -> [op |-> "LPOP", key |-> k, count |-> None]
        [] op \in {{"DEL"}, {"INCR"}} /\ n = 2 ->
             [op |-> CHOOSE o \in op : TRUE, key |-> k]
        [] OTHER -> [op |-> "BADARITY", key |-> k]

Writes ==
       [op : {"SET"}, key : {k1}, val : {a}, ttl : {None, 1}]
  \cup [op : {"RPUSH"}, key : {k1}, vals : {<<7>>}]
  \cup [op : {"LPOP"}, key : {k1}, count : {None}]
  \cup [op : {"DEL"}, key : {k2}]
  \cup [op : {"XADD"}, key : {k2}, ms : {None, 0}, seq : {None}]

-----------------------------------------------------------------------------
Magic == <<82, 69, 68, 73, 83, 48, 48, 49, 49>>
NoData == [k \in Key |-> None]

(* A text under k1 and a number under k2, in every encoding, some with an  *)
(* expiry time; in one file the last of each is in the shortest form, in   *)
(* the other in the longest.                                               *)
Texts == << <<0, 1, 107, 2>>,
            <<253, 2, 0, 0, 0, 0, 64, 1, 107, 64, 2>>,
            <<252, 0, 0, 0, 0, 0, 0, 0, 9, 0, 128, 0, 0, 0, 1, 107, 128, 0, 0, 0, 2>> >>
Numbers == << <<192, 254>>, <<193, 254, 254>>, <<194, 254, 255, 255, 255>> >>

Pairs(i) == Texts[i] \o CrLf \o <<0, 1, 108>> \o Numbers[i]
Body(i, j, k) == Magic \o <<254, 0, 251, 2, 0>> \o Pairs(i) \o Pairs(j) \o Pairs(k) \o <<255>>

NoExpiry == [k \in Key |-> None]
Expiry(t) == [NoExpiry EXCEPT ![k1] = t]
Holds(n) == (k1 :> StrOf(a) @@ k2 :> StrOf(n))

(* The last of k1's texts expires, in milliseconds or in seconds, or does  *)
(* not; and one file is cut off.                                           *)
Files ==
  { [file |-> None, holds |-> NoData, expires |-> NoExpiry],
    [file |-> Body(1, 2, 3), holds |-> Holds(-2), expires |-> Expiry(9)],
    [file |-> Body(3, 1, 2), holds |-> Holds(-258), expires |-> Expiry(2000)],
    [file |-> Body(2, 3, 1), holds |-> Holds(-2), expires |-> NoExpiry],
    [file |-> Magic \o <<0, 1, 107, 2, 120>>, holds |-> None, expires |-> NoExpiry] }

(* Redis itself begins a file with auxiliary fields: their code, a name    *)
(* and a value.                                                            *)
RedisFiles ==
  { [file |-> Magic \o <<250, 1, 114, 1, 55>> \o Pairs(1) \o <<255>>,
     holds |-> Holds(-2), expires |-> NoExpiry] }

(* A string that expires at time 1.                                        *)
ExpiringFiles ==
  { [file |-> Magic \o <<252, 1, 0, 0, 0, 0, 0, 0, 0, 0, 1, 107, 2>> \o CrLf \o <<255>>,
     holds |-> [NoData EXCEPT ![k1] = StrOf(a)], expires |-> Expiry(1)] }

=============================================================================
