----------------------------- MODULE MCBlocking -----------------------------
(* Instances of Blocking for TLC.                                          *)
EXTENDS Blocking

CONSTANTS k1, k2, a, c1, c2, c3

Symmetry == Permutations(Patient)

(* Pushes of one and two elements and a string that takes a key's place.   *)
PushWorkload ==
       [op : {"RPUSH"}, key : {k1}, vals : {<<>>, <<a>>, <<a, a>>}]
  \cup [op : {"LPUSH"}, key : {k2}, vals : {<<a>>}]
  \cup [op : {"SET"}, key : {k1}, val : {a}, ttl : {1}]

(* One waiter queue, and a reader.                                         *)
SmallWorkload ==
       [op : {"RPUSH"}, key : {k1}, vals : {<<a>>}]
  \cup [op : {"LLEN"}, key : {k1}]

RefusedWorkload ==
       [op : {"RPUSH"}, key : {k1}, vals : {<<a>>}]
  \cup [op : {"SET"}, key : {k1}, val : {a}, ttl : {None}]

OneKey == {<<k1>>}
TwoKeys == {<<k1>>, <<k2, k1>>}
NegativeToo == {-1, 1}

=============================================================================
