------------------------------- MODULE MCServer -------------------------------
(* Instances of Server for TLC.                                            *)
EXTENDS Server

CONSTANTS k1, a, c1, c2

Symmetry == Permutations(Client)

OneKey == {<<k1>>}
WatchOneKey == {{k1}}

(* Pushes of a list, a string that takes its place for a while, and what   *)
(* ends the process, also in the middle of an EXEC.                        *)
PushWorkload ==
       [op : {"RPUSH"}, key : {k1}, vals : {<<a>>}]
  \cup [op : {"SET"}, key : {k1}, val : {a}, ttl : {1}]
  \cup [op : {"BADVALUE"}, key : {k1}]

=============================================================================
