---------------------------- MODULE MCTransactions ----------------------------
(* Instances of Transactions for TLC.                                      *)
EXTENDS Transactions

CONSTANTS k1, k2, a, c1, c2

Symmetry == Permutations(Client)

(* A string that comes, goes and expires, a list that is pushed and popped *)
(* without a new version, writes that are refused, a reader MULTI does not *)
(* queue, and what MULTI and EXEC refuse.                                  *)
WatchWorkload ==
       [op : {"SET"}, key : {k1}, val : {a}, ttl : {1}]
  \cup [op : {"DEL", "INCR"}, key : {k1}]
  \cup [op : {"RPUSH"}, key : {k1}, vals : {<<a>>}]
  \cup [op : {"LPOP"}, key : {k1}, count : {None}]
  \cup [op : {"XREAD"}, key : {k1}, start : {<<0, 0>>}, count : {None}]
  \cup [op : {"UNKNOWN"}]

AnyKeys == {{k1}, {k2}, {k1, k2}}

=============================================================================
