---------------------------- MODULE MCReplication ----------------------------
(* Instances of Replication for TLC.                                       *)
EXTENDS Replication

CONSTANTS k1, a, c1, c2, c3, news

(* A key that is now a string, with or without a deadline, now a list.     *)
Writes ==
       [op : {"SET"}, key : {k1}, val : {a}, ttl : {None, 1}]
  \cup [op : {"RPUSH"}, key : {k1}, vals : {<<7>>}]

(* The list is popped as well, by LPOP and by BLPOP.                       *)
WritesAndPops == Writes \cup [op : {"LPOP"}, key : {k1}, count : {None}]

(* A deadline takes two words more: PX and the milliseconds.               *)
Words(cmd) == IF cmd.op = "SET" /\ cmd.ttl # None THEN 5 ELSE 3

Symmetry == Permutations(Links)

=============================================================================
