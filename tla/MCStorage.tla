----------------------------- MODULE MCStorage -----------------------------
(* Instances of Storage for TLC: the workloads of its runs.                *)
EXTENDS Storage

CONSTANTS k1, k2, a

(* Lists and strings on one key, with and without a time to live.          *)
ListWorkload ==
       [op : {"GET", "DEL", "INCR", "LLEN", "TYPE"}, key : {k1}]
  \cup [op : {"SET"}, key : {k1}, val : {a, 7}, ttl : {None, 0, 1}]
  \cup [op : {"RPUSH", "LPUSH"}, key : {k1}, vals : {<<>>, <<a>>, <<1, 2>>}]
  \cup [op : {"LPOP", "RPOP"}, key : {k1}, count : {None, 0, 1, 2}]
  \cup [op : {"LRANGE"}, key : {k1}, start : {0, -2}, stop : {-1}]

(* Streams beside strings that expire.                                     *)
StreamWorkload ==
       [op : {"DEL", "TYPE"}, key : {k1}]
  \cup [op : {"SET"}, key : {k1}, val : {a}, ttl : {1}]
  \cup [op : {"XADD"}, key : {k1}, ms : {None, 0, 1}, seq : {None, -1, 0, 1}]
  \cup [op : {"XRANGE"}, key : {k1}, lo : {<<0, 0>>, <<1, 0>>},
        hi : {<<0, None>>, <<1, 1>>, <<None, None>>}, count : {None, 1}]
  \cup [op : {"XREAD"}, key : {k1}, start : {<<0, 0>>, <<1, 0>>}, count : {None, 1}]
  \cup [op : {"RPUSH"}, key : {k1}, vals : {<<a>>}]

(* Sorted sets share key names with strings and lists.                     *)
ZSetWorkload ==
       [op : {"PING", "UNKNOWN"}]
  \cup [op : {"DEL", "TYPE", "ZCARD", "BADARITY", "BADVALUE"}, key : {k1}]
  \cup [op : {"SET"}, key : {k1}, val : {a}, ttl : {None}]
  \cup [op : {"ZADD"}, key : {k1},
        pairs : {<<<<s, m>>>> : s \in {1, 2}, m \in Member}
                \cup {<<<<1, m>>, <<2, m>>>> : m \in Member}]
  \cup [op : {"ZRANGE"}, key : {k1}, start : {0, -2}, stop : {-1, 1}]
  \cup [op : {"ZRANK", "ZSCORE"}, key : {k1}, member : Member]
  \cup [op : {"ZREM"}, key : {k1}, members : {{1}, {1, 2}, Member}]

(* One key of each type in turn, and a sorted set beside it.               *)
ValueWorkload == ListWorkload \cup StreamWorkload \cup ZSetWorkload

(* Two keys of every type that expiry meets.                               *)
ExpiryWorkload ==
       [op : {"GET", "DEL", "INCR", "LLEN", "KEYS"}, key : {k1, k2}]
  \cup [op : {"SET"}, key : {k1, k2}, val : {7}, ttl : {None, 1, 2}]
  \cup [op : {"RPUSH"}, key : {k1}, vals : {<<a>>}]
  \cup [op : {"LPOP"}, key : {k1}, count : {None, 1}]
  \cup [op : {"XADD"}, key : {k2}, ms : {1}, seq : {None}]

(* XADD of well-formed IDs, and nothing else.                              *)
AppendWorkload == [op : {"XADD"}, key : {k1}, ms : {0, 1}, seq : {None, 0, 1}]

(* XADD of an ID with a negative sequence number, and the readers of it.   *)
NegativeWorkload ==
       [op : {"XADD"}, key : {k1}, ms : {1}, seq : {-1}]
  \cup [op : {"XRANGE"}, key : {k1}, lo : {<<0, 0>>}, hi : {<<None, None>>}, count : {None}]
  \cup [op : {"XREAD"}, key : {k1}, start : {<<0, 0>>}, count : {None}]

(* Scores, written and read.                                               *)
ScoreWorkload ==
       [op : {"ZADD"}, key : {k1}, pairs : {<<<<1, 1>>>>}]
  \cup [op : {"ZSCORE"}, key : {k1}, member : {1}]

=============================================================================
