--------------------------- MODULE MCStreamWaiters ---------------------------
(* Instances of StreamWaiters for TLC.                                     *)
EXTENDS StreamWaiters

CONSTANTS k1, k2, a, c1, c2

(* One key that is now a stream, now a string or a list, and a stream      *)
(* beside it that is deleted and starts again, also below a sequence of 0. *)
MixedWorkload ==
       [op : {"XADD"}, key : {k1, k2}, ms : {1}, seq : {None}]
  \cup [op : {"XADD"}, key : {k2}, ms : {1}, seq : {-1}]
  \cup [op : {"SET"}, key : {k1}, val : {a}, ttl : {1}]
  \cup [op : {"RPUSH"}, key : {k1}, vals : {<<a>>}]
  \cup [op : {"DEL"}, key : {k2}]

OneKey == {<<k1>>}

(* From now on in one stream and after an ID that is still to come in the  *)
(* other; and from now on beside a start that is not an ID.                *)
ReadMixed ==
  { << <<k1, NewOnly>>, <<k2, <<1, 0>>>> >>,
    << <<k2, NewOnly>>, <<k1, None>> >> }

=============================================================================
