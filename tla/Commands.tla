------------------------------ MODULE Commands ------------------------------
(***************************************************************************)
(* The table of stateless commands of src/src/commands.py and its          *)
(* dispatcher.  A command is a record: the name in field op, the arguments *)
(* after parsing in the others.                                            *)
(*                                                                         *)
(* Four more names stand for requests whose outcome does not depend on the *)
(* keyspace: PING (also PONG and ECHO), UNKNOWN (a name not in the table), *)
(* BADARITY (a request the handler refuses with an error reply) and        *)
(* BADVALUE (one whose argument makes int(), float() or list.index raise   *)
(* outside any handler: SET with a lower-case px, XADD with an ID that is  *)
(* no number, XRANGE or XREAD of a stream with an ID parse_stream_id does  *)
(* not accept, ZADD with a score that is no number).                       *)
(***************************************************************************)
EXTENDS Streams, SortedSets

Keyed == {"GET", "DEL", "INCR", "LLEN", "TYPE", "KEYS", "ZCARD",
          "BADARITY", "BADVALUE"}

Command ==
       [op : {"PING", "UNKNOWN"}]
  \cup [op : Keyed, key : Key]
  \cup [op : {"SET"}, key : Key, val : Str, ttl : Int \cup {None}]
  \cup [op : {"RPUSH", "LPUSH"}, key : Key, vals : Seq(Str)]
  \cup [op : {"LRANGE", "ZRANGE"}, key : Key, start : Int, stop : Int]
  \cup [op : {"LPOP", "RPOP"}, key : Key, count : Nat \cup {None}]
  \cup [op : {"XADD"}, key : Key, ms : Nat \cup {None}, seq : Int \cup {None}]
  \cup [op : {"XRANGE"}, key : Key, lo : StartId, hi : StreamEnd,
        count : Int \cup {None}]
  \cup [op : {"XREAD"}, key : Key, start : StartId, count : Int \cup {None}]
  \cup [op : {"ZADD"}, key : Key, pairs : Seq(Int \X Member) \ {<<>>}]
  \cup [op : {"ZRANK", "ZSCORE"}, key : Key, member : Member]
  \cup [op : {"ZREM"}, key : Key, members : SUBSET Member]

(* Names in the table: MULTI queues these and refuses the others.          *)
Known(c) == c.op # "UNKNOWN"

(* xadd_command turns the ID "*" into the clock and the sequence "*".      *)
XAddCommand(d, t, c) ==
  IF c.ms = None THEN XAdd(d, t, c.key, t, None)
                 ELSE XAdd(d, t, c.key, c.ms, c.seq)

Dispatch(d, t, c) ==
  CASE c.op = "SET"     -> Set(d, t, c.key, c.val, c.ttl)
    [] c.op = "GET"     -> Get(d, t, c.key)
    [] c.op = "DEL"     -> Delete(d, t, c.key)
    [] c.op = "INCR"    -> Incr(d, t, c.key)
    [] c.op = "RPUSH"   -> RPush(d, t, c.key, c.vals)
    [] c.op = "LPUSH"   -> LPush(d, t, c.key, c.vals)
    [] c.op = "LLEN"    -> LLen(d, t, c.key)
    [] c.op = "LRANGE"  -> LRange(d, t, c.key, c.start, c.stop)
    [] c.op = "LPOP"    -> LPop(d, t, c.key, c.count)
    [] c.op = "RPOP"    -> RPop(d, t, c.key, c.count)
    [] c.op = "TYPE"    -> GetType(d, t, c.key)
    [] c.op = "KEYS"    -> Result(d, Names(GetKeys(d)))
    [] c.op = "XADD"    -> XAddCommand(d, t, c)
    [] c.op = "XRANGE"  -> XRange(d, t, c.key, c.lo, c.hi, c.count)
    [] c.op = "XREAD"   -> XRead(d, t, c.key, c.start, c.count)
    [] c.op = "ZADD"    -> ZAdd(d, c.key, c.pairs)
    [] c.op = "ZRANGE"  -> ZRange(d, c.key, c.start, c.stop)
    [] c.op = "ZRANK"   -> ZRank(d, c.key, c.member)
    [] c.op = "ZCARD"   -> ZCard(d, c.key)
    [] c.op = "ZSCORE"  -> ZScore(d, c.key, c.member)
    [] c.op = "ZREM"    -> ZRem(d, c.key, c.members)
    [] c.op = "PING"    -> Result(d, Ok)
    [] c.op = "BADVALUE" -> Result(d, Raise)
    [] OTHER            -> Result(d, Error)

Raises(d, t, c) == Dispatch(d, t, c).reply = Raise
Succeeds(d, t, c) == Dispatch(d, t, c).reply \notin {Raise, Error}

(* The commands server.py logs and propagates when they succeed.           *)
WriteCommands == {"SET", "DEL", "RPUSH", "LPUSH", "LPOP", "RPOP", "INCR", "XADD"}

(* A plain pop: the one write to data that leaves the version alone.       *)
PlainPop(c) == c.op \in {"LPOP", "RPOP"} /\ c.count = None

=============================================================================
