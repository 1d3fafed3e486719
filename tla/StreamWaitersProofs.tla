------------------------- MODULE StreamWaitersProofs -------------------------
(***************************************************************************)
(* No XADD passes a waiting reader by, for every set of keys, clients and  *)
(* commands.                                                               *)
(*                                                                         *)
(* The inductive part is that a reader outside the copy an XADD has still  *)
(* to go through has nothing to read.  Only a successful XADD puts         *)
(* anything new into a stream; its copy holds every reader of that stream, *)
(* since a reader stands in the queue of each of its streams, and a reader *)
(* leaves the copy answered or with nothing to read.                       *)
(***************************************************************************)
EXTENDS StreamWaiters, KeyspaceProofs

ReadingOK ==
  /\ reading = [c \in Client |-> reading[c]]
  /\ \A c \in Client : reading[c] # None => reading[c].keys \in Seq(Key)

IInv ==
  /\ WellFormed(db) /\ now \in Nat
  /\ resolving \in Key \cup {None}
  /\ ReadingOK
  /\ readers \in [Key -> Seq(Client)]
  /\ serving \in Seq(Client)
  /\ ReadersRegistered
  /\ NoMissedEntry

-----------------------------------------------------------------------------
(* What is new in a stream: only an XADD to its key puts anything there.   *)

SameStream(d, e, j) == HasType(e.data[j], "stream") => e.data[j] = d.data[j]

LEMMA PurgeSameStream ==
  ASSUME NEW d, WellFormed(d), NEW t, NEW k \in Key, NEW j \in Key
  PROVE  SameStream(d, Purge(d, t, k), j)
BY PurgeOnlyRemoves DEF SameStream, HasType

(* A stream shows, as it carries no deadline.                              *)
LEMMA StreamsShow ==
  ASSUME NEW d, WellFormed(d), NEW t, NEW k \in Key
  PROVE  /\ HasType(Lookup(d, t, k), "stream") <=> HasType(d.data[k], "stream")
         /\ HasType(d.data[k], "stream") => Lookup(d, t, k) = d.data[k]
<1>1. HasType(d.data[k], "stream") => ~Expired(d, t, k)
  BY ListsDoNotExpire DEF HasType, Expired
<1> QED
  BY <1>1, Purged DEF HasType

LEMMA PurgeKeysSameStream ==
  ASSUME NEW d, WellFormed(d), NEW t \in Nat, NEW S, NEW j \in Key
  PROVE  /\ WellFormed(PurgeKeys(d, t, S))
         /\ SameStream(d, PurgeKeys(d, t, S), j)
<1>1. /\ WellFormed(PurgeKeys(d, t, S))
      /\ Lookup(PurgeKeys(d, t, S), t, j) = Lookup(d, t, j)
  BY PurgeKeysShows
<1> QED
  BY <1>1, StreamsShow DEF SameStream

LEMMA StoredIsNoStream ==
  ASSUME NEW d, NEW e, NEW k, NEW v, Stores(e, k, v), ~HasType(v, "stream")
  PROVE  SameStream(d, e, k)
BY DEF Stores, SameStream

LEMMA SetSameStream ==
  ASSUME NEW d, WellFormed(d), NEW t, NEW k \in Key, NEW v, NEW ttl
  PROVE  SameStream(d, Set(d, t, k, v, ttl).db, k)
<1>1. Stores(Set(d, t, k, v, ttl).db, k, StrOf(v))
  BY WriteStores DEF Set, Result
<1>2. ~HasType(StrOf(v), "stream")
  BY DEF HasType, StrOf
<1> QED
  BY <1>1, <1>2, StoredIsNoStream

LEMMA DeleteSameStream ==
  ASSUME NEW d, WellFormed(d), NEW t, NEW k \in Key
  PROVE  SameStream(d, Delete(d, t, k).db, k)
<1>1. WellFormed(Purge(d, t, k))
  BY PurgeKeeps
<1>2. Stores(Delete(d, t, k).db, k, None)
  BY <1>1, WriteStores DEF Delete, Result
<1> QED
  BY <1>2, StoredIsNoStream DEF HasType

LEMMA IncrSameStream ==
  ASSUME NEW d, WellFormed(d), NEW t \in Nat, NEW k \in Key
  PROVE  SameStream(d, Incr(d, t, k).db, k)
<1> DEFINE p == Purge(d, t, k)
           n == IF p.data[k] = None THEN 1 ELSE p.data[k].str + 1
<1>1. WellFormed(p)
  BY PurgeKeeps
<1>2. \/ Incr(d, t, k).db = p
      \/ Incr(d, t, k).db = Bump([p EXCEPT !.data[k] = StrOf(n)], k)
  BY DEF Incr, Result
<1>3. CASE Incr(d, t, k).db = p
  BY <1>3, PurgeSameStream
<1>4. CASE Incr(d, t, k).db = Bump([p EXCEPT !.data[k] = StrOf(n)], k)
  <2> HIDE DEF p, n
  <2>1. Stores(Incr(d, t, k).db, k, StrOf(n))
    BY <1>1, <1>4, WriteStores
  <2>2. ~HasType(StrOf(n), "stream")
    BY DEF HasType, StrOf
  <2> QED
    BY <2>1, <2>2, StoredIsNoStream
<1> QED
  BY <1>2, <1>3, <1>4

LEMMA PushSameStream ==
  ASSUME NEW d, WellFormed(d), NEW t \in Nat, NEW k \in Key, NEW vals
  PROVE  /\ SameStream(d, RPush(d, t, k, vals).db, k)
         /\ SameStream(d, LPush(d, t, k, vals).db, k)
<1> DEFINE p == Purge(d, t, k)
<1>1. WellFormed(p)
  BY PurgeKeeps
<1>2. SameStream(d, d, k) /\ SameStream(d, p, k)
  BY PurgeSameStream DEF SameStream
<1>3. ASSUME NEW s
      PROVE  SameStream(d, Bump([p EXCEPT !.data[k] = ListOf(s)], k), k)
  <2> HIDE DEF p
  <2>1. Stores(Bump([p EXCEPT !.data[k] = ListOf(s)], k), k, ListOf(s))
    BY <1>1, WriteStores
  <2>2. ~HasType(ListOf(s), "stream")
    BY DEF HasType, ListOf
  <2> QED
    BY <2>1, <2>2, StoredIsNoStream
<1> QED
  BY <1>2, <1>3 DEF RPush, LPush, Result

LEMMA PopSameStream ==
  ASSUME NEW d, WellFormed(d), NEW t \in Nat, NEW k \in Key, NEW count
  PROVE  /\ SameStream(d, LPop(d, t, k, count).db, k)
         /\ SameStream(d, RPop(d, t, k, count).db, k)
<1> DEFINE p == Purge(d, t, k)
<1>1. WellFormed(p)
  BY PurgeKeeps
<1>2. SameStream(d, p, k)
  BY PurgeSameStream
<1>3. ASSUME NEW s
      PROVE  /\ SameStream(d, Replace(p, k, s), k)
             /\ SameStream(d, Bump(Replace(p, k, s), k), k)
  <2> DEFINE v == IF s = <<>> THEN None ELSE ListOf(s)
  <2> HIDE DEF p
  <2>1. /\ Stores(Replace(p, k, s), k, v)
        /\ Stores(Bump(Replace(p, k, s), k), k, v)
    BY <1>1, WriteStores DEF Replace
  <2>2. ~HasType(v, "stream")
    BY DEF HasType, ListOf
  <2> HIDE DEF v
  <2> QED
    BY <2>1, <2>2, StoredIsNoStream
<1> QED
  BY <1>2, <1>3 DEF LPop, RPop, Result

LEMMA ZSetsSameStream ==
  ASSUME NEW d, WellFormed(d), NEW k \in Key, NEW pairs, NEW ms
  PROVE  /\ SameStream(d, ZAdd(d, k, pairs).db, k)
         /\ SameStream(d, ZRem(d, k, ms).db, k)
<1>1. \A z : [d EXCEPT !.zsets[k] = z].data = d.data
  BY DEF WellFormed, DB
<1> QED
  BY <1>1 DEF ZAdd, ZRem, Result, SameStream

LEMMA OnlyXAddWritesStreams ==
  ASSUME NEW d, WellFormed(d), NEW t \in Nat, NEW c \in Command, NEW j \in Key,
         Dispatch(d, t, c).reply # Raise,
         ~(c.op = "XADD" /\ c.key = j)
  PROVE  SameStream(d, Dispatch(d, t, c).db, j)
<1> DEFINE e == Dispatch(d, t, c).db
<1>1. CASE c.op \in Readers
  BY <1>1, ArgumentTypes, ReadersOnlyPurge, PurgeSameStream
<1>2. CASE c.op \in Writers /\ c.key # j
  <2>1. SameBut(d, e, c.key)
    BY <1>2, WritersTrack DEF Tracks, PopsQuietly
  <2> QED
    BY <1>2, <2>1 DEF SameBut, Same, SameStream
<1>3. CASE c.op \in Writers /\ c.key = j
  <2>1. CASE c.op = "SET"
    BY <1>3, <2>1, SetSameStream DEF Dispatch
  <2>2. CASE c.op = "DEL"
    BY <1>3, <2>2, DeleteSameStream DEF Dispatch
  <2>3. CASE c.op = "INCR"
    BY <1>3, <2>3, IncrSameStream DEF Dispatch
  <2>4. CASE c.op = "RPUSH" \/ c.op = "LPUSH"
    BY <1>3, <2>4, PushSameStream DEF Dispatch
  <2>5. CASE c.op = "LPOP" \/ c.op = "RPOP"
    BY <1>3, <2>5, PopSameStream DEF Dispatch
  <2>6. CASE c.op = "ZADD" \/ c.op = "ZREM"
    BY <1>3, <2>6, ZSetsSameStream DEF Dispatch
  <2>7. \/ c.op = "SET" \/ c.op = "DEL" \/ c.op = "INCR"
        \/ c.op = "RPUSH" \/ c.op = "LPUSH"
        \/ c.op = "LPOP" \/ c.op = "RPOP"
        \/ c.op = "ZADD" \/ c.op = "ZREM"
    BY <1>3 DEF Writers
  <2> QED
    BY <2>1, <2>2, <2>3, <2>4, <2>5, <2>6, <2>7
<1>4. CASE c.op \notin Readers /\ c.op \notin Writers
  BY <1>4, OthersKeepTheKeyspace DEF SameStream
<1> QED
  BY <1>1, <1>2, <1>3, <1>4

-----------------------------------------------------------------------------
(* The instances of Blocking have their own copies of every operator.      *)

LEMMA SameOperators ==
  /\ \A q : Reads!ToSet(q) = ToSet(q)
  /\ \A q, e : Reads!RemoveFirst(q, e) = RemoveFirst(q, e)
BY DEF Reads!ToSet, ToSet, Reads!RemoveFirst, RemoveFirst, Reads!RemoveAt, RemoveAt,
       Reads!SelectInSeq, SelectInSeq, Reads!Min, Min

LEMMA SameStorage ==
  /\ Lists!EmptyDB = EmptyDB
  /\ \A d, t, k : Lists!Purge(d, t, k) = Purge(d, t, k)
  /\ \A d, t, S : Lists!PurgeKeys(d, t, S) = PurgeKeys(d, t, S)
  /\ \A d, t, k, n : Lists!LPop(d, t, k, n) = LPop(d, t, k, n)
<1> USE DEF Lists!Purge, Purge, Lists!Expired, Expired, Lists!Bump, Bump
<1>1. Lists!EmptyDB = EmptyDB
  BY DEF Lists!EmptyDB, EmptyDB
<1>2. \A d, t, k : Lists!Purge(d, t, k) = Purge(d, t, k)
  OBVIOUS
<1>3. \A d, t, S : Lists!PurgeKeys(d, t, S) = PurgeKeys(d, t, S)
  BY DEF Lists!PurgeKeys, PurgeKeys
<1>4. ASSUME NEW d, NEW t, NEW k, NEW n
      PROVE  Lists!LPop(d, t, k, n) = LPop(d, t, k, n)
  <2> DEFINE Outcome(p, q, m) ==
               IF WrongType(p.data[k], "list") THEN Result(p, Error)
               ELSE IF q = <<>> THEN Result(p, IF n = None THEN Nil ELSE Array(<<>>))
               ELSE IF n = None THEN Result(Replace(p, k, Tail(q)), Bulk(Head(q)))
               ELSE Result(Bump(Replace(p, k, SubSeq(q, m + 1, Len(q))), k),
                           Array(SubSeq(q, 1, m)))
             p == Purge(d, t, k)
             q == Items(p, k)
             r == Lists!Purge(d, t, k)
             s == Lists!Items(r, k)
  <2>1. LPop(d, t, k, n) = Outcome(p, q, Lesser(n, Len(q)))
    BY DEF LPop
  <2>2. Lists!LPop(d, t, k, n) = Outcome(r, s, Lists!Lesser(n, Len(s)))
    <3>1. /\ \A x, v : Lists!Replace(x, k, v) = Replace(x, k, v)
          /\ \A x : Lists!Bump(x, k) = Bump(x, k)
      BY DEF Lists!Replace, Replace, Lists!ListOf, ListOf
    <3>2. \A v : Lists!WrongType(v, "list") <=> WrongType(v, "list")
      BY DEF Lists!WrongType, WrongType
    <3>3. /\ Lists!Error = Error /\ Lists!Nil = Nil
          /\ \A x, y : Lists!Result(x, y) = Result(x, y)
          /\ \A x : Lists!Array(x) = Array(x) /\ Lists!Bulk(x) = Bulk(x)
      BY DEF Lists!Error, Error, Lists!Nil, Nil, Lists!Result, Result,
             Lists!Array, Array, Lists!Bulk, Bulk
    <3> HIDE DEF r, s
    <3>4. Lists!LPop(d, t, k, n) =
            LET m == Lists!Lesser(n, Len(s))
            IN  IF Lists!WrongType(r.data[k], "list") THEN Lists!Result(r, Lists!Error)
                ELSE IF s = <<>>
                  THEN Lists!Result(r, IF n = None THEN Lists!Nil ELSE Lists!Array(<<>>))
                ELSE IF n = None
                  THEN Lists!Result(Lists!Replace(r, k, Tail(s)), Lists!Bulk(Head(s)))
                  ELSE Lists!Result(Lists!Bump(Lists!Replace(r, k,
                           SubSeq(s, m + 1, Len(s))), k), Lists!Array(SubSeq(s, 1, m)))
      BY DEF Lists!LPop, r, s
    <3> QED
      BY <3>1, <3>2, <3>3, <3>4
  <2> HIDE DEF Outcome
  <2>3. r = p
    BY <1>2
  <2>4. s = q
    BY <2>3 DEF Lists!Items, Items
  <2> HIDE DEF p, q, r, s
  <2>5. Lists!Lesser(n, Len(s)) = Lesser(n, Len(q))
    BY <2>4 DEF Lists!Lesser, Lesser
  <2> QED
    BY <2>1, <2>2, <2>3, <2>4, <2>5
<1> QED
  BY <1>1, <1>2, <1>3, <1>4

-----------------------------------------------------------------------------
(* Steps.                                                                  *)

LEMMA InitIInv == Init => IInv
<1> SUFFICES ASSUME Init
             PROVE  IInv
  OBVIOUS
<1>1. WellFormed(db) /\ now = 0 /\ resolving = None
  BY EmptyIsWellFormed, SameStorage DEF Init, Lists!Init, Lists!LoopInit
<1>2. /\ reading = [c \in Client |-> None]
      /\ readers = [k \in Key |-> <<>>]
      /\ serving = <<>>
  BY DEF Init
<1>3. ReadersRegistered /\ NoMissedEntry
  BY <1>2 DEF ReadersRegistered, Reads!Registered, Reads!KeysOf, NoMissedEntry
<1> QED
  BY <1>1, <1>2, <1>3 DEF IInv, ReadingOK

LEMMA KeysOfType ==
  ASSUME IInv, NEW c \in Client
  PROVE  /\ Reads!KeysOf(c) \subseteq Key
         /\ reading[c] # None =>
              /\ reading[c].keys \in Seq(Key)
              /\ Reads!KeysOf(c) = {reading[c].keys[i] : i \in DOMAIN reading[c].keys}
<1>1. reading[c] # None => reading[c].keys \in Seq(Key)
  BY DEF IInv, ReadingOK
<1>2. reading[c] # None =>
        Reads!KeysOf(c) = {reading[c].keys[i] : i \in DOMAIN reading[c].keys}
  BY <1>1 DEF Reads!KeysOf, Reads!ToSet
<1>3. reading[c] = None => Reads!KeysOf(c) = {}
  BY DEF Reads!KeysOf
<1> QED
  BY <1>1, <1>2, <1>3, ElementOfSeq

(* Where a stream is as before, nothing is new in it.                      *)
LEMMA NothingNew ==
  ASSUME IInv, WellFormed(db'), now' \in Nat, NEW k \in Key, NEW start,
         SameStream(db, db', k), Unread(k, start) = <<>>
  PROVE  IF HasType(Lookup(db', now', k), "stream") /\ start # None
           THEN After(Lookup(db', now', k).entries, start, None) = <<>>
           ELSE TRUE
<1> SUFFICES ASSUME HasType(Lookup(db', now', k), "stream")
             PROVE  Lookup(db', now', k) = Lookup(db, now, k)
  BY DEF Unread
<1>1. Lookup(db', now', k) = db'.data[k] /\ HasType(db'.data[k], "stream")
  BY StreamsShow
<1>2. db'.data[k] = db.data[k]
  BY <1>1 DEF SameStream
<1>3. Lookup(db, now, k) = db.data[k]
  BY <1>1, <1>2, StreamsShow DEF IInv
<1> QED
  BY <1>1, <1>2, <1>3

LEMMA StillNoNews ==
  ASSUME IInv, NEW c \in Client, reading'[c] = reading[c],
         WellFormed(db'), now' \in Nat, reading[c] # None, ~NewsFor(c),
         \A k \in Reads!KeysOf(c) : SameStream(db, db', k)
  PROVE  ~NewsFor(c)'
<1> SUFFICES ASSUME NEW i \in DOMAIN reading[c].keys
             PROVE  Unread(reading[c].keys[i], reading[c].from[i])' = <<>>
  BY DEF NewsFor
<1> DEFINE k == reading[c].keys[i]
           from == reading[c].from[i]
<1>1. k \in Key /\ k \in Reads!KeysOf(c)
  BY KeysOfType
<1>2. Unread(k, from) = <<>>
  BY DEF NewsFor
<1> QED
  BY <1>1, <1>2, NothingNew DEF Unread

(* Steps that leave the readers alone.  A stream is written only where its *)
(* queue is then gone through, and a reader leaves the copy caught up.     *)
LEMMA ReadersAlone ==
  ASSUME IInv, UNCHANGED <<reading, readers>>,
         WellFormed(db'), now' \in Nat, resolving' \in Key \cup {None},
         serving' \in Seq(Client), up' => up,
         up' => \A k \in Key : SameStream(db, db', k) \/ serving' = readers[k],
         \A c \in Client :
           c \in ToSet(serving) /\ c \notin ToSet(serving') /\ reading[c] # None
             => ~NewsFor(c)
  PROVE  IInv'
<1>1. ReadersRegistered'
  BY DEF IInv, ReadersRegistered, Reads!Registered, Reads!KeysOf
<1>2. ASSUME up', NEW c \in Client, reading[c] # None, c \notin ToSet(serving')
      PROVE  ~NewsFor(c)'
  <2>1. ~NewsFor(c)
    BY <1>2 DEF IInv, NoMissedEntry
  <2>2. ASSUME NEW k \in Reads!KeysOf(c)
        PROVE  SameStream(db, db', k)
    BY <1>2, KeysOfType, SameOperators DEF IInv, ReadersRegistered, Reads!Registered
  <2> QED
    BY <1>2, <2>1, <2>2, StillNoNews
<1>3. NoMissedEntry'
  BY <1>2 DEF NoMissedEntry
<1> QED
  BY <1>1, <1>3 DEF IInv, ReadingOK

(* Steps that only look at the keyspace or at the clock.                   *)
LEMMA AllAlone ==
  ASSUME IInv, UNCHANGED <<db, reading, readers, serving>>,
         now' \in Nat, resolving' \in Key \cup {None}, up' => up
  PROVE  IInv'
BY ReadersAlone DEF IInv, SameStream

(* A reader leaves its dict and its queues.                                *)
LEMMA ReaderLeaves ==
  ASSUME IInv, NEW c \in Client, Reads!Unblock(c, readers),
         WellFormed(db'), now' \in Nat, UNCHANGED <<up, resolving>>,
         serving' \in Seq(Client),
         \A d \in Client : d # c /\ d \in ToSet(serving) => d \in ToSet(serving'),
         \A k \in Key : SameStream(db, db', k)
  PROVE  IInv'
<1>1. /\ reading' = [reading EXCEPT ![c] = None]
      /\ readers' = [k \in Key |-> IF k \in Reads!KeysOf(c) THEN RemoveFirst(readers[k], c)
                                                           ELSE readers[k]]
  BY SameOperators DEF Reads!Unblock, Reads!Unqueued
<1>2. ReadingOK' /\ readers' \in [Key -> Seq(Client)]
  BY <1>1, RemoveFirstKeepsOthers DEF IInv, ReadingOK
<1>3. /\ Reads!KeysOf(c)' = {}
      /\ \A d \in Client : d # c => Reads!KeysOf(d)' = Reads!KeysOf(d)
  BY <1>1 DEF IInv, ReadingOK, Reads!KeysOf
<1>4. ASSUME NEW d \in Client, NEW k \in Reads!KeysOf(d)'
      PROVE  d \in ToSet(readers'[k])
  <2>1. d # c /\ k \in Reads!KeysOf(d) /\ k \in Key
    BY <1>3, <1>4, KeysOfType
  <2>2. d \in ToSet(readers[k]) /\ readers[k] \in Seq(Client)
    BY <2>1, SameOperators DEF IInv, ReadersRegistered, Reads!Registered
  <2> QED
    BY <1>1, <2>1, <2>2, RemoveFirstKeepsOthers
<1>5. ASSUME up, NEW d \in Client, reading'[d] # None, d \notin ToSet(serving')
      PROVE  ~NewsFor(d)'
  <2>1. d # c /\ reading'[d] = reading[d]
    BY <1>1, <1>5 DEF IInv, ReadingOK
  <2>2. ~NewsFor(d)
    BY <1>5, <2>1 DEF IInv, NoMissedEntry
  <2>3. \A k \in Reads!KeysOf(d) : SameStream(db, db', k)
    BY KeysOfType
  <2> QED
    BY <1>5, <2>1, <2>2, <2>3, StillNoNews
<1> QED
  BY <1>2, <1>4, <1>5, SameOperators
     DEF IInv, ReadersRegistered, Reads!Registered, NoMissedEntry

-----------------------------------------------------------------------------
(* Commands.                                                               *)

LEMMA StatelessKeeps ==
  ASSUME IInv, NEW c \in Client, NEW cmd \in Command, Stateless(c, cmd)
  PROVE  IInv'
<1> USE DEF Stateless, Direct, MaySend, Sends, Idle
<1>1. WellFormed(db')
  BY DispatchKeeps DEF IInv
<1>2. resolving' \in Key \cup {None}
  BY ArgumentTypes DEF Writers
<1>3. serving' \in Seq(Client) /\ serving = <<>> /\ now' = now /\ (up' => up)
  <2>1. cmd.op = "XADD" => cmd.key \in Key
    BY ArgumentTypes DEF Writers
  <2>2. \A q \in Key : readers[q] \in Seq(Client)
    BY DEF IInv
  <2>3. up
    BY DEF Lists!MaySend, Lists!Sends
  <2> QED
    BY <2>1, <2>2, <2>3
<1>4. ASSUME up', NEW k \in Key
      PROVE  SameStream(db, db', k) \/ serving' = readers[k]
  <2>1. CASE cmd.op = "XADD" /\ cmd.key = k
    BY <1>4, <2>1
  <2>2. CASE ~(cmd.op = "XADD" /\ cmd.key = k)
    BY <1>4, <2>2, OnlyXAddWritesStreams DEF IInv
  <2> QED
    BY <2>1, <2>2
<1>5. ToSet(serving) = {}
  BY <1>3 DEF ToSet
<1>6. UNCHANGED <<reading, readers>>
  OBVIOUS
<1> HIDE DEF Stateless, Direct, MaySend, Sends, Idle
<1> QED
  BY <1>1, <1>2, <1>3, <1>4, <1>5, <1>6, ReadersAlone DEF IInv

LEMMA PlainPopSameStream ==
  ASSUME NEW d, WellFormed(d), NEW t \in Nat, NEW k \in Key, NEW j \in Key
  PROVE  /\ WellFormed(LPop(d, t, k, None).db)
         /\ SameStream(d, LPop(d, t, k, None).db, j)
<1>1. WellFormed(LPop(d, t, k, None).db)
  BY LPopKeeps
<1>2. CASE j # k
  <2>1. SameBut(d, LPop(d, t, k, None).db, k)
    BY PlainPopTracks DEF Tracks, PopsQuietly
  <2> QED
    BY <1>1, <1>2, <2>1 DEF SameBut, Same, SameStream
<1>3. CASE j = k
  BY <1>1, <1>3, PopSameStream
<1> QED
  BY <1>2, <1>3

(* The key that ends BLPOP's loop is one of its keys.                      *)
LEMMA FirstStopExists ==
  ASSUME NEW keys \in KeyLists, \E i \in DOMAIN keys : Lists!Stops(i, keys)
  PROVE  keys[Lists!FirstStop(keys)] \in Key
<1>1. keys \in Seq(Key)
  BY ReadInputs
<1> DEFINE I == {i \in 1..Len(keys) : Lists!Stops(i, keys)}
<1>2. I \subseteq Nat /\ I # {}
  BY <1>1
<1> HIDE DEF I
<1>3. \E i \in I : \A j \in I : i <= j
  BY <1>2, LeastNatural
<1>4. \E i \in DOMAIN keys :
        Lists!Stops(i, keys) /\ \A j \in DOMAIN keys : Lists!Stops(j, keys) => i <= j
  BY <1>1, <1>3 DEF I
<1>5. Lists!FirstStop(keys) \in DOMAIN keys
  BY <1>4 DEF Lists!FirstStop
<1> QED
  BY <1>1, <1>5, ElementOfSeq

(* BLPOP, when it blocks or pops.                                          *)
LEMMA BlpopKeeps ==
  ASSUME IInv, NEW c \in Client, NEW keys \in KeyLists, NEW t, Blpop(c, keys, t)
  PROVE  IInv'
<1>1. UNCHANGED <<reading, readers, serving>>
  BY DEF Blpop, readVars
<1>2. now' = now /\ UNCHANGED resolving /\ (up' => up)
  BY DEF Blpop, Lists!Blpop, Lists!BlpopNotFloat, Lists!BlpopAnswered,
         Lists!BlpopWaits, Lists!blockVars
<1>3. /\ WellFormed(db')
      /\ \A k \in Key : SameStream(db, db', k)
  <2>1. CASE Lists!BlpopNotFloat(c, keys)
    BY <2>1 DEF Lists!BlpopNotFloat, IInv, SameStream
  <2>2. CASE Lists!BlpopWaits(c, keys, t)
    <3>1. PICK S : db' = PurgeKeys(db, now, S)
      BY <2>2, SameStorage DEF Lists!BlpopWaits
    <3> QED
      BY <3>1, PurgeKeysSameStream, PurgeKeysShows DEF IInv
  <2>3. CASE Lists!BlpopAnswered(c, keys, t)
    <3> DEFINE k == keys[Lists!FirstStop(keys)]
    <3>1. k \in Key
      BY <2>3, FirstStopExists DEF Lists!BlpopAnswered
    <3>2. PICK S : db' = LPop(PurgeKeys(db, now, S), now, k, None).db
      BY <2>3, SameStorage DEF Lists!BlpopAnswered
    <3> HIDE DEF k
    <3> DEFINE p == PurgeKeys(db, now, S)
    <3>3. WellFormed(p) /\ \A j \in Key : SameStream(db, p, j)
      BY PurgeKeysSameStream, PurgeKeysShows DEF IInv
    <3> HIDE DEF p
    <3>4. WellFormed(db') /\ \A j \in Key : SameStream(p, db', j)
      BY <3>1, <3>2, <3>3, PlainPopSameStream DEF IInv, p
    <3> QED
      BY <3>3, <3>4 DEF SameStream
  <2> QED
    BY <2>1, <2>2, <2>3 DEF Blpop, Lists!Blpop
<1> QED
  BY <1>1, <1>2, <1>3, ReadersAlone DEF IInv

-----------------------------------------------------------------------------
(* XREAD BLOCK.                                                            *)

LEMMA XreadWaitsKeeps ==
  ASSUME IInv, NEW c \in Client, NEW s \in ReadLists, NEW t \in Int,
         XreadWaits(c, s, t)
  PROVE  IInv'
<1> DEFINE keys == [i \in DOMAIN s |-> s[i][1]]
           from == [i \in DOMAIN s |-> From(s[i][1], s[i][2])]
           info == [keys |-> keys, from |-> from,
                    deadline |-> IF t = 0 THEN None ELSE now + t]
<1>1. /\ up /\ up' = up /\ now' = now /\ resolving' = resolving /\ serving' = serving
      /\ db' = PurgeKeys(db, now, KeysIn(s))
      /\ reading' = [reading EXCEPT ![c] = info]
      /\ readers' = [k \in Key |-> IF k \in KeysIn(s) THEN Append(readers[k], c)
                                                     ELSE readers[k]]
  BY DEF XreadWaits, MaySend, Lists!MaySend, Lists!Sends, Enqueue, blockVars
<1>2. s \in Seq(Key \X (StartId \cup {NewOnly, None})) /\ now \in Nat /\ WellFormed(db)
  BY ReadInputs DEF IInv
<1>3. WellFormed(db') /\ \A k \in Key : SameStream(db, db', k)
  BY <1>1, <1>2, PurgeKeysSameStream, PurgeKeysShows
<1>4. /\ keys \in Seq(Key) /\ DOMAIN keys = DOMAIN s
      /\ KeysIn(s) = ToSet(keys)
      /\ \A i \in DOMAIN s : s[i][1] \in Key /\ keys[i] = s[i][1]
  <2>1. \A i \in DOMAIN s : s[i][1] \in Key
    BY <1>2, ElementOfSeq
  <2>2. keys \in Seq(Key)
    BY <1>2, <2>1
  <2> QED
    BY <2>1, <2>2 DEF KeysIn, ToSet
<1>5. \A i \in DOMAIN s : from[i] = From(s[i][1], s[i][2])
  OBVIOUS
<1> HIDE DEF keys, from
<1>6. /\ ReadingOK'
      /\ reading'[c] = info
      /\ \A d \in Client : d # c => reading'[d] = reading[d]
  BY <1>1, <1>4 DEF IInv, ReadingOK
<1>7. /\ readers' \in [Key -> Seq(Client)]
      /\ \A k \in Key : ToSet(readers[k]) \subseteq ToSet(readers'[k])
      /\ \A k \in KeysIn(s) : k \in Key => c \in ToSet(readers'[k])
  BY <1>1, AppendKeepsMembers DEF IInv
<1>8. ASSUME NEW d \in Client, NEW k \in Reads!KeysOf(d)'
      PROVE  d \in ToSet(readers'[k])
  <2>1. CASE d = c
    <3>1. k \in KeysIn(s)
      BY <1>4, <1>6, <1>8, <2>1, SameOperators DEF Reads!KeysOf
    <3> QED
      BY <1>4, <1>7, <2>1, <3>1 DEF KeysIn
  <2>2. CASE d # c
    <3>1. k \in Reads!KeysOf(d)
      BY <1>6, <1>8, <2>2 DEF Reads!KeysOf
    <3> QED
      BY <1>7, <3>1, KeysOfType, SameOperators
         DEF IInv, ReadersRegistered, Reads!Registered
  <2> QED
    BY <2>1, <2>2
<1>9. ASSUME NEW d \in Client, reading'[d] # None, d \notin ToSet(serving)
      PROVE  ~NewsFor(d)'
  <2>1. CASE d = c
    <3>1. reading'[c].keys = keys /\ reading'[c].from = from
      BY <1>6
    <3>2. ASSUME NEW i \in DOMAIN keys
          PROVE  Unread(reading[c].keys[i], reading[c].from[i])' = <<>>
      <4>1. i \in DOMAIN s /\ keys[i] \in Key
        BY <1>4, <3>2
      <4>2. Unread(keys[i], from[i]) = <<>>
        BY <1>4, <1>5, <4>1 DEF XreadWaits, HasNews
      <4> QED
        BY <1>1, <1>2, <1>3, <3>1, <4>1, <4>2, NothingNew DEF Unread
    <3> QED
      BY <2>1, <3>1, <3>2 DEF NewsFor
  <2>2. CASE d # c
    <3>1. ~NewsFor(d)
      BY <1>1, <1>6, <1>9, <2>2 DEF IInv, NoMissedEntry
    <3>2. \A k \in Reads!KeysOf(d) : SameStream(db, db', k)
      BY <1>3, KeysOfType
    <3> QED
      BY <1>1, <1>2, <1>3, <1>6, <1>9, <2>2, <3>1, <3>2, StillNoNews
  <2> QED
    BY <2>1, <2>2
<1> QED
  BY <1>1, <1>2, <1>3, <1>6, <1>7, <1>8, <1>9, SameOperators
     DEF IInv, ReadersRegistered, Reads!Registered, NoMissedEntry

(* The other outcomes of XREAD only look at keys.                          *)
LEMMA XreadKeeps ==
  ASSUME IInv, NEW c \in Client, NEW s \in ReadLists, NEW t \in Timeouts,
         Xread(c, s, t)
  PROVE  IInv'
<1> USE DEF blockVars, readVars
<1>1. CASE XreadWaits(c, s, t) /\ t # None
  BY <1>1, XreadWaitsKeeps, ReadInputs
<1>2. ASSUME NEW S, db' = PurgeKeys(db, now, S),
             UNCHANGED <<now, up, resolving, reading, readers, serving>>
      PROVE  IInv'
  <2>1. WellFormed(db') /\ \A k \in Key : SameStream(db, db', k)
    BY <1>2, PurgeKeysSameStream, PurgeKeysShows DEF IInv
  <2> QED
    BY <1>2, <2>1, ReadersAlone DEF IInv
<1>3. CASE XreadRefused(c, s) \/ XreadAnswered(c, s)
  BY <1>2, <1>3 DEF XreadRefused, XreadAnswered
<1>4. CASE XreadRaises(c, s) \/ XreadMalformed(c)
  BY <1>4, AllAlone DEF XreadRaises, XreadMalformed, IInv
<1> QED
  BY <1>1, <1>3, <1>4 DEF Xread

-----------------------------------------------------------------------------
(* The loops over a queue.                                                 *)

LEMMA ResolvingListKeeps ==
  ASSUME IInv, ResolvingList
  PROVE  IInv'
<1> USE DEF ResolvingList, readVars, Lists!SkipWaiter, Lists!ServeWaiter, Lists!Resolved,
            Lists!ResolveRaises, Lists!loopVars, Lists!blockVars
<1>1. /\ UNCHANGED <<now, reading, readers, serving>>
      /\ up' => up
      /\ resolving' \in {resolving, None}
  OBVIOUS
<1>2. db' = db \/ (resolving \in Key /\ db' = LPop(db, now, resolving, None).db)
  BY SameStorage DEF IInv
<1>3. WellFormed(db') /\ \A k \in Key : SameStream(db, db', k)
  <2>1. WellFormed(db) /\ now \in Nat
    BY DEF IInv
  <2>2. CASE db' = db
    BY <2>1, <2>2 DEF SameStream
  <2>3. CASE resolving \in Key /\ db' = LPop(db, now, resolving, None).db
    BY <2>1, <2>3, PlainPopSameStream
  <2> QED
    BY <1>2, <2>2, <2>3
<1> QED
  BY <1>1, <1>3, ReadersAlone DEF IInv

(* The head of the copy leaves it.                                         *)
LEMMA CopyType ==
  ASSUME serving \in Seq(Client), serving # <<>>
  PROVE  /\ Head(serving) \in Client
         /\ Tail(serving) \in Seq(Client)
         /\ \A x \in ToSet(serving) : x # Head(serving) => x \in ToSet(Tail(serving))
<1>1. Head(serving) \in Client
  OBVIOUS
<1> QED
  BY <1>1, TailKeepsOthers

LEMMA ResolvingReadKeeps ==
  ASSUME IInv, ResolvingRead
  PROVE  IInv'
<1> DEFINE c == Head(serving)
<1> USE DEF blockVars, loopVars
<1>1. /\ serving \in Seq(Client) /\ now \in Nat /\ WellFormed(db)
      /\ serving # <<>>
  BY DEF ResolvingRead, SkipReader, PassReader, ServeReader, ServeRaises, IInv
<1>2. /\ c \in Client
      /\ Tail(serving) \in Seq(Client)
      /\ \A x \in ToSet(serving) : x # c => x \in ToSet(Tail(serving))
  BY <1>1, CopyType
<1> HIDE DEF c
<1>3. ASSUME NEW S, db' = PurgeKeys(db, now, S)
      PROVE  WellFormed(db') /\ \A k \in Key : SameStream(db, db', k)
  BY <1>1, <1>3, PurgeKeysSameStream, PurgeKeysShows
<1>4. CASE SkipReader
  <2>1. /\ UNCHANGED <<db, now, up, resolving, reading, readers>>
        /\ serving' = Tail(serving) /\ reading[c] = None
    BY <1>4 DEF SkipReader, c
  <2> QED
    BY <1>1, <1>2, <2>1, ReadersAlone DEF IInv, SameStream
<1>5. CASE PassReader
  <2>1. /\ db' = PurgeKeys(db, now, Reads!KeysOf(c))
        /\ UNCHANGED <<now, up, resolving, reading, readers>>
        /\ serving' = Tail(serving) /\ ~NewsFor(c)
    BY <1>5 DEF PassReader, c
  <2>2. WellFormed(db') /\ \A k \in Key : SameStream(db, db', k)
    BY <1>3, <2>1
  <2> QED
    BY <1>1, <1>2, <2>1, <2>2, ReadersAlone DEF IInv
<1>6. CASE ServeReader
  <2>1. /\ db' = PurgeKeys(db, now, Reads!KeysOf(c))
        /\ UNCHANGED <<now, up, resolving>>
        /\ serving' = Tail(serving)
        /\ Reads!Unblock(c, readers)
    BY <1>6 DEF ServeReader, c
  <2>2. WellFormed(db') /\ \A k \in Key : SameStream(db, db', k)
    BY <1>3, <2>1
  <2> QED
    BY <1>1, <1>2, <2>1, <2>2, ReaderLeaves
<1>7. CASE ServeRaises
  BY <1>7, AllAlone DEF ServeRaises, readVars, IInv
<1> QED
  BY <1>4, <1>5, <1>6, <1>7 DEF ResolvingRead

-----------------------------------------------------------------------------
LEMMA NextIInv == IInv /\ [Next]_vars => IInv'
<1> SUFFICES ASSUME IInv, [Next]_vars
             PROVE  IInv'
  OBVIOUS
<1> USE DEF readVars, blockVars
<1>1. ASSUME NEW c \in Client, Loop(c)
      PROVE  IInv'
  BY <1>1, AllAlone
     DEF Loop, Lists!Loop, Lists!Accept, Lists!Receive, Lists!HangUp,
         Lists!ProtocolError, Lists!ReaderRaises,
         Lists!EndOfBatch, Lists!blockVars, IInv
<1>2. ASSUME NEW c \in Client, TimeOutPop(c)
      PROVE  IInv'
  BY <1>2, AllAlone DEF TimeOutPop, Lists!TimeOut, IInv
<1>3. ASSUME NEW c \in Client, TimeOutRead(c)
      PROVE  IInv'
  <2>1. /\ UNCHANGED <<db, now, up, resolving, serving>>
        /\ Reads!Unblock(c, readers)
    BY <1>3 DEF TimeOutRead, Reads!TimeOut
  <2> QED
    BY <1>3, <2>1, ReaderLeaves DEF IInv, SameStream
<1>4. ASSUME NEW c \in Client, NEW cmd \in Workload, Stateless(c, cmd)
      PROVE  IInv'
  BY <1>4, StatelessKeeps, WorkloadIsCommands
<1>5. ASSUME NEW c \in Client, NEW keys \in KeyLists, NEW t \in Timeouts, Blpop(c, keys, t)
      PROVE  IInv'
  BY <1>5, BlpopKeeps
<1>6. ASSUME NEW c \in Client, NEW s \in ReadLists, NEW t \in Timeouts, Xread(c, s, t)
      PROVE  IInv'
  BY <1>6, XreadKeeps
<1>7. CASE ResolvingList
  BY <1>7, ResolvingListKeeps
<1>8. CASE ResolvingRead
  BY <1>8, ResolvingReadKeeps
<1>9. CASE Sweep
  BY <1>9, AllAlone DEF Sweep, loopVars, IInv
<1>10. CASE Clock
  BY <1>10, AllAlone DEF Clock, Tick, IInv
<1>11. CASE UNCHANGED vars
  BY <1>11, AllAlone DEF vars, loopVars, IInv
<1> QED
  BY <1>1, <1>2, <1>3, <1>4, <1>5, <1>6, <1>7, <1>8, <1>9, <1>10, <1>11 DEF Next, Ended

THEOREM Invariance == Spec => []IInv
BY InitIInv, NextIInv, PTL DEF Spec

(* A reader stands in the queue of each of its streams, whatever is added, *)
(* read, timed out and hung up meanwhile                                   *)
(* (connection_state.py:352-355, 418-449).                                 *)
THEOREM ReadersAreRegistered == Spec => []ReadersRegistered
<1>1. IInv => ReadersRegistered
  BY DEF IInv
<1> QED
  BY <1>1, Invariance, PTL

(* No reader waits while one of its streams holds an entry after its       *)
(* start, once the XADD has gone through its copy of the queue             *)
(* (connection_state.py:318-355, 418-433).                                 *)
THEOREM NoEntryIsMissed == Spec => []NoMissedEntry
<1>1. IInv => NoMissedEntry
  BY DEF IInv
<1> QED
  BY <1>1, Invariance, PTL

-----------------------------------------------------------------------------
(* Replies, for both kinds of waiting.                                     *)

NoNegativeTimeout == \A t \in Timeouts : t # None => t >= 0

(* A handler that has begun is alone; the sweeps tell only clients that    *)
(* still wait; and no patient client waits in two ways.                    *)
OwedInv ==
  /\ owed \in [Client -> Int]
  /\ blocked = [c \in Client |-> blocked[c]]
  /\ expiring # {} \/ lapsing # {} => resolving = None /\ serving = <<>>
  /\ expiring \subseteq Client /\ lapsing \subseteq Client
  /\ \A c \in expiring : blocked[c] # None
  /\ \A c \in lapsing : reading[c] # None
  /\ up => \A c \in Patient : blocked[c] = None \/ reading[c] = None
  /\ OneReplyPerCommand

LEMMA FromType ==
  ASSUME IInv, NEW k \in Key, NEW start \in StreamId \cup {NewOnly, None},
         start = NewOnly => ~Alien(k)
  PROVE  From(k, start) \in StreamId \cup {None}
<1>1. CASE start # NewOnly
  BY <1>1 DEF From
<1>2. CASE start = NewOnly
  <2> DEFINE p == PurgeKeys(db, now, {k})
  <2>1. WellFormed(p)
    BY PurgeKeysShows DEF IInv
  <2>2. p.data[k] = Lookup(db, now, k)
    <3>1. db \in DB
      BY DEF IInv, WellFormed
    <3> QED
      BY <3>1 DEF PurgeKeys, Lookup, DB
  <2> HIDE DEF p
  <2>3. ~WrongType(p.data[k], "stream")
    BY <1>2, <2>2 DEF Alien
  <2>4. p.data[k] \in Value \cup {None}
    BY <2>1 DEF WellFormed, DB
  <2>5. Entries(p, k) \in Seq(StreamId)
    BY <2>3, <2>4 DEF Entries, WrongType, Value, StrValue, ListValue, StreamValue
  <2>6. LastStreamId(p, k) \in StreamId
    <3>1. Entries(p, k) # <<>> => Last(Entries(p, k)) \in StreamId
      <4> SUFFICES ASSUME Entries(p, k) # <<>>
                   PROVE  Last(Entries(p, k)) \in StreamId
        OBVIOUS
      <4>1. Len(Entries(p, k)) \in 1..Len(Entries(p, k))
        BY <2>5, EmptySeq, LenProperties
      <4> QED
        BY <2>5, <4>1, ElementOfSeq DEF Last
    <3> QED
      BY <3>1 DEF LastStreamId, StreamId
  <2> QED
    BY <1>2, <2>6 DEF From, p
<1> QED
  BY <1>1, <1>2

(* What is kept of a client that begins to wait for its streams.           *)
LEMMA WaitInfoType ==
  ASSUME IInv, NEW c \in Client, NEW s \in ReadLists, NEW t \in Timeouts, t # None,
         XreadWaits(c, s, t)
  PROVE  \E info \in ReadInfo : reading' = [reading EXCEPT ![c] = info]
<1> DEFINE keys == [i \in DOMAIN s |-> s[i][1]]
           from == [i \in DOMAIN s |-> From(s[i][1], s[i][2])]
           info == [keys |-> keys, from |-> from,
                    deadline |-> IF t = 0 THEN None ELSE now + t]
<1>1. /\ s \in Seq(Key \X (StartId \cup {NewOnly, None}))
      /\ t \in Int /\ now \in Int
  BY ReadInputs DEF IInv
<1>2. ASSUME NEW i \in DOMAIN s
      PROVE  s[i][1] \in Key /\ From(s[i][1], s[i][2]) \in StreamId \cup {None}
  <2>1. s[i][1] \in Key /\ s[i][2] \in StreamId \cup {NewOnly, None}
    <3>1. s[i] \in Key \X (StartId \cup {NewOnly, None})
      BY <1>1, ElementOfSeq
    <3> QED
      BY <3>1 DEF StartId, StreamId
  <2>2. s[i][2] = NewOnly => ~Alien(s[i][1])
    BY DEF XreadWaits, Raising
  <2> QED
    BY <2>1, <2>2, FromType
<1>3. keys \in Seq(Key) /\ from \in Seq(StreamId \cup {None})
  <2> DEFINE n == Len(s)
  <2>1. DOMAIN s = 1..n /\ n \in Nat
    BY <1>1, LenProperties
  <2>2. keys \in [1..n -> Key] /\ from \in [1..n -> StreamId \cup {None}]
    BY <1>2, <2>1
  <2> HIDE DEF keys, from, n
  <2>3. \A A : \A f \in [1..n -> A] : f \in Seq(A)
    BY <2>1, SeqDef
  <2> QED
    BY <2>2, <2>3
<1>4. reading' = [reading EXCEPT ![c] = info]
  BY DEF XreadWaits
<1> HIDE DEF keys, from
<1>5. info \in ReadInfo
  BY <1>1, <1>3 DEF ReadInfo
<1> QED
  BY <1>4, <1>5

(* The steps that change neither replies nor who waits.                    *)
LEMMA OwedStill ==
  ASSUME OwedInv, UNCHANGED <<blocked, reading, expiring, lapsing>>, up' => up,
         up' => owed' = owed, owed' \in [Client -> Int],
         expiring # {} \/ lapsing # {} => resolving' = None /\ serving' = <<>>
  PROVE  OwedInv'
BY DEF OwedInv, OneReplyPerCommand

LEMMA AnsweredOnce ==
  ASSUME owed \in [Client -> Int], NEW c \in Client, NEW n \in Int, Answer(c, n)
  PROVE  /\ owed' = [owed EXCEPT ![c] = @ + 1 - n]
         /\ owed' \in [Client -> Int]
         /\ n = 1 => owed' = owed
BY DEF Answer

(* One entry of a dict, or of a count, is replaced.                        *)
LEMMA OneReplaced ==
  ASSUME NEW f, f = [c \in Client |-> f[c]], NEW b, NEW v, NEW g, g = [f EXCEPT ![b] = v]
  PROVE  /\ g = [c \in Client |-> g[c]]
         /\ \A c \in Client : g[c] = IF c = b THEN v ELSE f[c]
<1>1. DOMAIN f = Client /\ DOMAIN g = Client
  OBVIOUS
<1> QED
  BY <1>1

LEMMA OneLess ==
  ASSUME owed \in [Client -> Int], NEW c, owed' = [owed EXCEPT ![c] = @ - 1]
  PROVE  /\ owed' \in [Client -> Int]
         /\ \A e \in Client : owed'[e] = IF e = c THEN owed[e] - 1 ELSE owed[e]
<1>1. CASE c \in Client
  BY <1>1
<1>2. CASE c \notin Client
  <2>1. owed' = owed
    BY <1>2
  <2> QED
    BY <1>2, <2>1
<1> QED
  BY <1>1, <1>2

(* A client is given what it waited for.                                   *)
LEMMA PopAnswered ==
  ASSUME OwedInv, up, up' = up, NEW c, blocked[c] # None, Patient \subseteq Client,
         blocked' = [blocked EXCEPT ![c] = None],
         owed' = [owed EXCEPT ![c] = @ - 1],
         UNCHANGED <<reading, lapsing, resolving, serving>>,
         expiring' \subseteq expiring \ {c}
  PROVE  OwedInv'
<1>1. /\ owed' \in [Client -> Int]
      /\ \A e \in Client : owed'[e] = IF e = c THEN owed[e] - 1 ELSE owed[e]
  BY OneLess DEF OwedInv
<1>2. /\ blocked' = [e \in Client |-> blocked'[e]]
      /\ \A e \in Client : blocked'[e] = IF e = c THEN None ELSE blocked[e]
  BY OneReplaced DEF OwedInv
<1>3. ASSUME NEW e \in Patient
      PROVE  /\ blocked'[e] = None \/ reading'[e] = None
             /\ owed'[e] = IF blocked'[e] = None /\ reading'[e] = None THEN 0 ELSE 1
  <2>1. /\ e \in Client /\ owed[e] \in Int
        /\ blocked[e] = None \/ reading[e] = None
        /\ owed[e] = IF blocked[e] = None /\ reading[e] = None THEN 0 ELSE 1
    BY DEF OwedInv, OneReplyPerCommand
  <2>2. CASE e = c
    BY <1>1, <1>2, <2>1, <2>2
  <2>3. CASE e # c
    BY <1>1, <1>2, <2>1, <2>3
  <2> QED
    BY <2>2, <2>3
<1>4. /\ expiring' # {} \/ lapsing' # {} => resolving' = None /\ serving' = <<>>
      /\ expiring' \subseteq Client /\ lapsing' \subseteq Client
      /\ \A e \in expiring' : blocked'[e] # None
      /\ \A e \in lapsing' : reading'[e] # None
  BY <1>2 DEF OwedInv
<1> QED
  BY <1>1, <1>2, <1>3, <1>4 DEF OwedInv, OneReplyPerCommand

LEMMA ReadAnswered ==
  ASSUME OwedInv, ReadingOK, up, up' = up, NEW c, reading[c] # None,
         Patient \subseteq Client,
         reading' = [reading EXCEPT ![c] = None],
         owed' = [owed EXCEPT ![c] = @ - 1],
         UNCHANGED <<blocked, expiring, resolving>>,
         lapsing' \subseteq lapsing \ {c},
         expiring # {} \/ lapsing # {} => serving' = <<>>
  PROVE  OwedInv'
<1>1. /\ owed' \in [Client -> Int]
      /\ \A e \in Client : owed'[e] = IF e = c THEN owed[e] - 1 ELSE owed[e]
  BY OneLess DEF OwedInv
<1>2. \A e \in Client : reading'[e] = IF e = c THEN None ELSE reading[e]
  BY OneReplaced DEF ReadingOK
<1>3. ASSUME NEW e \in Patient
      PROVE  /\ blocked'[e] = None \/ reading'[e] = None
             /\ owed'[e] = IF blocked'[e] = None /\ reading'[e] = None THEN 0 ELSE 1
  <2>1. /\ e \in Client /\ owed[e] \in Int
        /\ blocked[e] = None \/ reading[e] = None
        /\ owed[e] = IF blocked[e] = None /\ reading[e] = None THEN 0 ELSE 1
    BY DEF OwedInv, OneReplyPerCommand
  <2>2. CASE e = c
    BY <1>1, <1>2, <2>1, <2>2
  <2>3. CASE e # c
    BY <1>1, <1>2, <2>1, <2>3
  <2> QED
    BY <2>2, <2>3
<1>4. /\ expiring' # {} \/ lapsing' # {} => resolving' = None /\ serving' = <<>>
      /\ expiring' \subseteq Client /\ lapsing' \subseteq Client
      /\ \A e \in expiring' : blocked'[e] # None
      /\ \A e \in lapsing' : reading'[e] # None
  BY <1>2 DEF OwedInv
<1> QED
  BY <1>1, <1>3, <1>4 DEF OwedInv, OneReplyPerCommand

(* A client begins to wait.                                                *)
LEMMA WaitOwed ==
  ASSUME OwedInv, ReadingOK, up, up' = up, NEW c \in Client, Patient \subseteq Client,
         c \in Patient => blocked[c] = None /\ reading[c] = None,
         NEW v, v # None,
         \/ blocked' = [blocked EXCEPT ![c] = v] /\ reading' = reading
         \/ reading' = [reading EXCEPT ![c] = v] /\ blocked' = blocked,
         owed' = [owed EXCEPT ![c] = @ + 1],
         expiring = {}, lapsing = {}, expiring' = {}, lapsing' = {}
  PROVE  OwedInv'
<1>1. /\ owed' \in [Client -> Int]
      /\ \A e \in Client : owed'[e] = IF e = c THEN owed[e] + 1 ELSE owed[e]
  BY DEF OwedInv
<1>2. /\ blocked' = [e \in Client |-> blocked'[e]]
      /\ \A e \in Client :
           \/ e = c /\ \/ blocked'[e] = v /\ reading'[e] = reading[e]
                       \/ reading'[e] = v /\ blocked'[e] = blocked[e]
           \/ e # c /\ blocked'[e] = blocked[e] /\ reading'[e] = reading[e]
  <2>1. CASE blocked' = [blocked EXCEPT ![c] = v] /\ reading' = reading
    BY <2>1, OneReplaced DEF OwedInv
  <2>2. CASE reading' = [reading EXCEPT ![c] = v] /\ blocked' = blocked
    BY <2>2, OneReplaced DEF OwedInv, ReadingOK
  <2> QED
    BY <2>1, <2>2
<1>3. ASSUME NEW e \in Patient
      PROVE  /\ blocked'[e] = None \/ reading'[e] = None
             /\ owed'[e] = IF blocked'[e] = None /\ reading'[e] = None THEN 0 ELSE 1
  <2>1. /\ e \in Client /\ owed[e] \in Int
        /\ blocked[e] = None \/ reading[e] = None
        /\ owed[e] = IF blocked[e] = None /\ reading[e] = None THEN 0 ELSE 1
    BY DEF OwedInv, OneReplyPerCommand
  <2>2. CASE e = c
    BY <1>1, <1>2, <2>1, <2>2
  <2>3. CASE e # c
    BY <1>1, <1>2, <2>1, <2>3
  <2> QED
    BY <2>2, <2>3
<1> QED
  BY <1>1, <1>2, <1>3 DEF OwedInv, OneReplyPerCommand

LEMMA BlpopOwed ==
  ASSUME IInv, OwedInv, NoNegativeTimeout, Patient \subseteq Client,
         NEW c \in Client, NEW keys \in KeyLists, NEW t \in Timeouts, Blpop(c, keys, t)
  PROVE  OwedInv'
<1> USE DEF MaySend, Lists!MaySend, Lists!Sends, Idle, Lists!Idle, readVars, Lists!blockVars
<1>1. up /\ expiring = {} /\ lapsing = {}
  BY DEF Blpop
<1>2. CASE Lists!BlpopNotFloat(c, keys)
  <2>1. owed' \in [Client -> Int]
    BY <1>2 DEF Lists!BlpopNotFloat, Lists!Answer, OwedInv
  <2> QED
    BY <1>1, <1>2, <2>1, OwedStill DEF Blpop, Lists!BlpopNotFloat
<1>3. CASE t # None
  <2>1. Lists!Complaints(t) = 0 /\ t \in Int /\ now \in Int
    BY <1>3, ReadInputs DEF NoNegativeTimeout, Lists!Complaints, IInv
  <2>2. CASE Lists!BlpopAnswered(c, keys, t)
    <3>1. owed' = owed
      BY <2>1, <2>2 DEF Lists!BlpopAnswered, Lists!Answer, OwedInv
    <3> QED
      BY <1>1, <2>2, <3>1, OwedStill DEF Blpop, Lists!BlpopAnswered, OwedInv
  <2>3. CASE Lists!BlpopWaits(c, keys, t)
    <3> DEFINE info == [keys |-> keys, deadline |-> IF t = 0 THEN None ELSE now + t]
    <3>1. info # None
      <4>1. info \in Lists!BlockInfo
        BY <2>1 DEF Lists!BlockInfo
      <4> QED
        BY <4>1, NoneIsNoWaiter
    <3>2. /\ blocked' = [blocked EXCEPT ![c] = info] /\ reading' = reading
          /\ owed' = [owed EXCEPT ![c] = @ + 1]
          /\ up' = up /\ expiring' = {} /\ lapsing' = {}
          /\ c \in Patient => blocked[c] = None /\ reading[c] = None
      BY <1>1, <2>1, <2>3
         DEF Blpop, Lists!BlpopWaits, Lists!Block, Lists!Answer, OwedInv
    <3> HIDE DEF info
    <3> QED
      BY <1>1, <3>1, <3>2, WaitOwed DEF IInv
  <2> QED
    BY <1>3, <2>2, <2>3 DEF Blpop, Lists!Blpop
<1> QED
  BY <1>2, <1>3 DEF Blpop, Lists!Blpop

LEMMA XreadOwed ==
  ASSUME IInv, OwedInv, Patient \subseteq Client,
         NEW c \in Client, NEW s \in ReadLists, NEW t \in Timeouts, Xread(c, s, t)
  PROVE  OwedInv'
<1> USE DEF MaySend, Lists!MaySend, Lists!Sends, Idle, Lists!Idle, readVars, blockVars
<1>1. CASE XreadWaits(c, s, t) /\ t # None
  <2>1. PICK info \in ReadInfo : reading' = [reading EXCEPT ![c] = info]
    BY <1>1, WaitInfoType
  <2>2. /\ blocked' = blocked
        /\ owed' = [owed EXCEPT ![c] = @ + 1]
        /\ up /\ up' = up /\ UNCHANGED <<expiring, lapsing>>
        /\ expiring = {} /\ lapsing = {}
        /\ c \in Patient => blocked[c] = None /\ reading[c] = None
    BY <1>1 DEF XreadWaits, Answer, OwedInv
  <2>3. info # None
    BY NoneIsNoWaiter
  <2> QED
    BY <2>1, <2>2, <2>3, WaitOwed DEF IInv
<1>2. CASE XreadRaises(c, s)
  <2>1. owed' \in [Client -> Int]
    BY <1>2, AnsweredOnce DEF XreadRaises, OwedInv
  <2> QED
    BY <1>2, <2>1, OwedStill DEF XreadRaises
<1>3. CASE XreadRefused(c, s) \/ XreadAnswered(c, s) \/ XreadMalformed(c)
  <2>1. owed' = owed
    BY <1>3, AnsweredOnce DEF XreadRefused, XreadAnswered, XreadMalformed, OwedInv
  <2> QED
    BY <1>3, <2>1, OwedStill DEF XreadRefused, XreadAnswered, XreadMalformed, OwedInv
<1> QED
  BY <1>1, <1>2, <1>3 DEF Xread

LEMMA StatelessOwed ==
  ASSUME OwedInv, NEW c \in Client, NEW cmd \in Workload, Stateless(c, cmd)
  PROVE  OwedInv'
<1> DEFINE n == IF Dispatch(db, now, cmd).reply = Raise THEN 0 ELSE 1
<1>1. /\ Answer(c, n)
      /\ up' => n = 1
      /\ UNCHANGED <<blocked, reading, expiring, lapsing>>
      /\ up /\ expiring = {} /\ lapsing = {}
  BY DEF Stateless, Direct, MaySend, Lists!MaySend, Lists!Sends, Idle, Lists!Idle
<1>2. n \in Int
  OBVIOUS
<1> HIDE DEF n
<1>3. owed' \in [Client -> Int] /\ (up' => owed' = owed)
  BY <1>1, <1>2, AnsweredOnce DEF OwedInv
<1> QED
  BY <1>1, <1>3, OwedStill

LEMMA NextOwed ==
  NoNegativeTimeout =>
    (IInv /\ OwedInv /\ [Next]_vars => OwedInv')
<1> SUFFICES ASSUME NoNegativeTimeout, IInv, OwedInv, [Next]_vars
             PROVE  OwedInv'
  OBVIOUS
<1> Patient \subseteq Client
  BY ReadInputs
<1> USE DEF readVars, blockVars, Lists!blockVars, loopVars, Lists!loopVars
<1>1. ASSUME UNCHANGED <<owed, blocked, reading, expiring, lapsing>>, up' => up,
             expiring # {} \/ lapsing # {} => resolving' = None /\ serving' = <<>>
      PROVE  OwedInv'
  BY <1>1, OwedStill DEF OwedInv
<1>2. ASSUME NEW c \in Client, Loop(c)
      PROVE  OwedInv'
  BY <1>1, <1>2
     DEF Loop, Lists!Loop, Lists!Accept, Lists!Receive, Lists!HangUp,
         Lists!ProtocolError, Lists!ReaderRaises,
         Lists!EndOfBatch, OwedInv
<1>3. ASSUME NEW c \in Client, TimeOutPop(c)
      PROVE  OwedInv'
  <2>1. blocked[c] # None
    BY <1>3 DEF TimeOutPop, Lists!TimeOut, OwedInv
  <2>2. up /\ up' = up /\ expiring' \subseteq expiring \ {c}
    BY <1>3 DEF TimeOutPop, Lists!TimeOut
  <2> QED
    BY <1>3, <2>1, <2>2, PopAnswered DEF TimeOutPop, Lists!TimeOut, Lists!Unblock
<1>4. ASSUME NEW c \in Client, TimeOutRead(c)
      PROVE  OwedInv'
  <2>1. reading[c] # None
    BY <1>4 DEF TimeOutRead, Reads!TimeOut, OwedInv
  <2>2. /\ up /\ up' = up /\ lapsing' \subseteq lapsing \ {c}
        /\ expiring # {} \/ lapsing # {} => serving' = <<>>
    BY <1>4 DEF TimeOutRead, Reads!TimeOut, OwedInv
  <2> QED
    BY <1>4, <2>1, <2>2, ReadAnswered
       DEF TimeOutRead, Reads!TimeOut, Reads!Unblock, IInv
<1>5. ASSUME NEW c \in Client, NEW cmd \in Workload, Stateless(c, cmd)
      PROVE  OwedInv'
  BY <1>5, StatelessOwed
<1>6. ASSUME NEW c \in Client, NEW keys \in KeyLists, NEW t \in Timeouts, Blpop(c, keys, t)
      PROVE  OwedInv'
  BY <1>6, BlpopOwed
<1>7. ASSUME NEW c \in Client, NEW s \in ReadLists, NEW t \in Timeouts, Xread(c, s, t)
      PROVE  OwedInv'
  BY <1>7, XreadOwed
<1>8. CASE ResolvingList
  <2>1. CASE Lists!SkipWaiter \/ Lists!Resolved \/ Lists!ResolveRaises
    BY <1>1, <1>8, <2>1
       DEF ResolvingList, Lists!SkipWaiter, Lists!Resolved, Lists!ResolveRaises, OwedInv
  <2>2. CASE Lists!ServeWaiter
    <3> DEFINE c == Head(waiters[resolving])
    <3>1. /\ up /\ up' = up /\ blocked[c] # None
          /\ blocked' = [blocked EXCEPT ![c] = None]
          /\ owed' = [owed EXCEPT ![c] = @ - 1]
          /\ UNCHANGED <<reading, lapsing, resolving, serving, expiring>>
          /\ resolving # None
      BY <1>8, <2>2 DEF ResolvingList, Lists!ServeWaiter, Lists!Unblock
    <3>2. expiring' \subseteq expiring \ {c}
      BY <3>1 DEF OwedInv
    <3> HIDE DEF c
    <3> QED
      BY <3>1, <3>2, PopAnswered
  <2> QED
    BY <1>8, <2>1, <2>2 DEF ResolvingList
<1>9. CASE ResolvingRead
  <2>1. CASE SkipReader \/ PassReader \/ ServeRaises
    BY <1>1, <2>1 DEF SkipReader, PassReader, ServeRaises, OwedInv
  <2>2. CASE ServeReader
    <3> DEFINE c == Head(serving)
    <3>1. /\ up /\ up' = up /\ reading[c] # None
          /\ reading' = [reading EXCEPT ![c] = None]
          /\ owed' = [owed EXCEPT ![c] = @ - 1]
          /\ UNCHANGED <<blocked, expiring, resolving, lapsing>>
          /\ serving # <<>>
      BY <2>2 DEF ServeReader, Reads!Unblock
    <3>2. expiring = {} /\ lapsing = {}
      BY <3>1 DEF OwedInv
    <3> HIDE DEF c
    <3> QED
      BY <3>1, <3>2, ReadAnswered DEF IInv
  <2> QED
    BY <1>9, <2>1, <2>2 DEF ResolvingRead
<1>10. CASE Sweep
  BY <1>10 DEF Sweep, Idle, Lists!Idle, Lists!TimedOut, Reads!TimedOut, OwedInv,
               OneReplyPerCommand
<1>11. CASE Clock \/ Ended \/ UNCHANGED vars
  BY <1>1, <1>11 DEF Clock, Tick, Ended, vars, OwedInv
<1> QED
  BY <1>2, <1>3, <1>4, <1>5, <1>6, <1>7, <1>8, <1>9, <1>10, <1>11 DEF Next

(* A client that waits for an element or an entry is owed one reply, and   *)
(* any other none, if no BLPOP has a negative timeout                      *)
(* (connection_state.py:318-473).                                          *)
THEOREM CommandsAreAnsweredOnce ==
  ASSUME NoNegativeTimeout
  PROVE  Spec => []OneReplyPerCommand
<1>1. Init => OwedInv
  BY ReadInputs DEF Init, Lists!Init, Lists!LoopInit, OwedInv, OneReplyPerCommand
<1>2. IInv /\ OwedInv /\ [Next]_vars => OwedInv'
  BY NextOwed
<1>3. OwedInv => OneReplyPerCommand
  BY DEF OwedInv
<1> QED
  BY <1>1, <1>2, <1>3, Invariance, PTL DEF Spec

-----------------------------------------------------------------------------
(* Types.  IInv holds those of the keyspace, of the readers' queues and of *)
(* the copy; these are the others.                                         *)

OthersTyped ==
  /\ up \in BOOLEAN
  /\ conn \in [Client -> {"new", "open", "closed"}]
  /\ turn \in Client \cup {None}
  /\ owed \in [Client -> Int]
  /\ blocked \in [Client -> Lists!BlockInfo \cup {None}]
  /\ order \in Seq(Client)
  /\ waiters \in [Key -> Seq(Client)]
  /\ expiring \subseteq Client
  /\ reading \in [Client -> ReadInfo \cup {None}]
  /\ readOrder \in Seq(Client)
  /\ lapsing \subseteq Client

LEMMA TypesTogether == IInv /\ OthersTyped => TypeOK
BY DEF IInv, WellFormed, OthersTyped, TypeOK, Lists!TypeOK, Lists!LoopTypeOK,
       Lists!DB, DB, Lists!Value, Value, Lists!StrValue, StrValue,
       Lists!ListValue, ListValue, Lists!StreamValue, StreamValue,
       Lists!StreamId, StreamId, Lists!Str, Str, Lists!ZSet, ZSet

LEMMA SameAnswers ==
  ASSUME conn \in [Client -> {"new", "open", "closed"}], owed \in [Client -> Int],
         NEW c, NEW n \in Int
  PROVE  /\ Lists!Write({c}) \/ Reads!Write({c}) \/ Write({c})
              => conn' \in [Client -> {"new", "open", "closed"}]
         /\ Lists!Answer(c, n) \/ Answer(c, n)
              => /\ conn' \in [Client -> {"new", "open", "closed"}]
                 /\ c \in Client => owed' \in [Client -> Int]
<1>1. Lists!Write({c}) \/ Reads!Write({c}) \/ Write({c})
        => conn' \in [Client -> {"new", "open", "closed"}]
  BY DEF Lists!Write, Reads!Write, Write
<1>2. Lists!Answer(c, n) \/ Answer(c, n)
        => /\ owed' = [owed EXCEPT ![c] = @ + 1 - n]
           /\ conn' = conn \/ Lists!Write({c}) \/ Write({c})
  BY DEF Lists!Answer, Answer
<1> QED
  BY <1>1, <1>2

(* One entry less in a dict, in its order and in the queues.               *)
LEMMA UnblockTypes ==
  ASSUME NEW c, NEW queues \in [Key -> Seq(Client)], OthersTyped
  PROVE  /\ Lists!Unblock(c, queues) =>
              /\ blocked' \in [Client -> Lists!BlockInfo \cup {None}]
              /\ order' \in Seq(Client)
              /\ waiters' \in [Key -> Seq(Client)]
         /\ Reads!Unblock(c, queues) =>
              /\ reading' \in [Client -> ReadInfo \cup {None}]
              /\ readOrder' \in Seq(Client)
<1>1. \A q \in Seq(Client) : RemoveFirst(q, c) \in Seq(Client)
  BY RemoveFirstKeepsOthers
<1>2. \A q : Lists!RemoveFirst(q, c) = RemoveFirst(q, c)
  BY DEF Lists!RemoveFirst, RemoveFirst, Lists!RemoveAt, RemoveAt,
         Lists!SelectInSeq, SelectInSeq, Lists!Min, Min
<1>3. /\ Lists!Unblock(c, queues) => order' \in Seq(Client)
      /\ Reads!Unblock(c, queues) => readOrder' \in Seq(Client)
  BY <1>1, <1>2, SameOperators DEF OthersTyped, Lists!Unblock, Reads!Unblock
<1>4. Lists!Unblock(c, queues) => waiters' \in [Key -> Seq(Client)]
  <2>1. \A k \in Key : queues[k] \in Seq(Client)
    OBVIOUS
  <2>2. Lists!Unqueued(queues, c) \in [Key -> Seq(Client)]
    BY <1>1, <1>2, <2>1 DEF Lists!Unqueued
  <2> QED
    BY <2>2 DEF Lists!Unblock
<1>5. Lists!Unblock(c, queues) => blocked' \in [Client -> Lists!BlockInfo \cup {None}]
  BY DEF OthersTyped, Lists!Unblock
<1>6. Reads!Unblock(c, queues) => reading' \in [Client -> ReadInfo \cup {None}]
  BY DEF OthersTyped, Reads!Unblock
<1> QED
  BY <1>3, <1>4, <1>5, <1>6

LEMMA BlpopTypes ==
  ASSUME IInv, OthersTyped, NEW c \in Client, NEW keys \in KeyLists,
         NEW t \in Timeouts, Blpop(c, keys, t)
  PROVE  OthersTyped'
<1> USE DEF Blpop, readVars, Lists!blockVars
<1>1. ASSUME NEW n \in Int, Lists!Answer(c, n)
      PROVE  /\ conn' \in [Client -> {"new", "open", "closed"}]
             /\ owed' \in [Client -> Int]
  BY <1>1, SameAnswers DEF OthersTyped
<1>2. CASE Lists!BlpopNotFloat(c, keys)
  <2>1. /\ Lists!Answer(c, 1) /\ up' = FALSE
        /\ UNCHANGED <<turn, blocked, order, waiters, expiring,
                       reading, readOrder, lapsing>>
    BY <1>2 DEF Lists!BlpopNotFloat
  <2>2. up' \in BOOLEAN
    BY <2>1
  <2> QED
    BY <1>1, <2>1, <2>2 DEF OthersTyped
<1>3. CASE t # None
  <2>1. t \in Int /\ now \in Int /\ Lists!Complaints(t) \in Int
    BY <1>3, ReadInputs DEF Lists!Complaints, IInv
  <2>2. CASE Lists!BlpopAnswered(c, keys, t)
    <3>1. Lists!Answer(c, Lists!Complaints(t) + 1) /\ Lists!Complaints(t) + 1 \in Int
      BY <2>1, <2>2 DEF Lists!BlpopAnswered
    <3> QED
      BY <1>1, <2>2, <3>1 DEF Lists!BlpopAnswered, OthersTyped
  <2>3. CASE Lists!BlpopWaits(c, keys, t)
    <3> DEFINE deadline == IF t = 0 THEN None ELSE now + t
    <3>1. [keys |-> keys, deadline |-> deadline] \in Lists!BlockInfo
      BY <2>1 DEF Lists!BlockInfo
    <3>2. Lists!Answer(c, Lists!Complaints(t))
      BY <2>3 DEF Lists!BlpopWaits
    <3> HIDE DEF deadline
    <3>3. Lists!Block(c, keys, deadline)
      BY <2>3 DEF Lists!BlpopWaits, deadline
    <3>4. /\ blocked' \in [Client -> Lists!BlockInfo \cup {None}]
          /\ order' \in Seq(Client)
          /\ waiters' \in [Key -> Seq(Client)]
      BY <3>1, <3>3 DEF Lists!Block, OthersTyped
    <3> QED
      BY <1>1, <2>1, <2>3, <3>2, <3>4 DEF Lists!BlpopWaits, OthersTyped
  <2> QED
    BY <1>3, <2>2, <2>3 DEF Lists!Blpop
<1> QED
  BY <1>2, <1>3 DEF Lists!Blpop

LEMMA XreadTypes ==
  ASSUME IInv, OthersTyped, NEW c \in Client, NEW s \in ReadLists,
         NEW t \in Timeouts, Xread(c, s, t)
  PROVE  OthersTyped'
<1> USE DEF readVars, blockVars
<1>1. ASSUME NEW n \in Int, Answer(c, n)
      PROVE  /\ conn' \in [Client -> {"new", "open", "closed"}]
             /\ owed' \in [Client -> Int]
  BY <1>1, SameAnswers DEF OthersTyped
<1>2. CASE XreadWaits(c, s, t) /\ t # None
  <2>1. PICK info \in ReadInfo : reading' = [reading EXCEPT ![c] = info]
    BY <1>2, WaitInfoType
  <2>2. /\ Answer(c, 0)
        /\ UNCHANGED <<up, turn, blocked, order, waiters, expiring, lapsing>>
        /\ readOrder' = readOrder \/ readOrder' = Append(readOrder, c)
    BY <1>2 DEF XreadWaits
  <2>3. reading' \in [Client -> ReadInfo \cup {None}]
    BY <2>1 DEF OthersTyped
  <2>4. readOrder' \in Seq(Client)
    <3>1. readOrder \in Seq(Client)
      BY DEF OthersTyped
    <3>2. Append(readOrder, c) \in Seq(Client)
      BY <3>1, AppendKeepsMembers
    <3> QED
      BY <2>2, <3>1, <3>2
  <2> QED
    BY <1>1, <2>2, <2>3, <2>4 DEF OthersTyped
<1>3. CASE XreadRaises(c, s)
  <2>1. /\ Answer(c, 0) /\ up' = FALSE
        /\ UNCHANGED <<turn, blocked, order, waiters, expiring,
                       reading, readOrder, lapsing>>
    BY <1>3 DEF XreadRaises
  <2>2. up' \in BOOLEAN
    BY <2>1
  <2> QED
    BY <1>1, <2>1, <2>2 DEF OthersTyped
<1>4. CASE XreadRefused(c, s) \/ XreadAnswered(c, s) \/ XreadMalformed(c)
  BY <1>1, <1>4 DEF XreadRefused, XreadAnswered, XreadMalformed, OthersTyped
<1> QED
  BY <1>2, <1>3, <1>4 DEF Xread

LEMMA NextTypes == IInv /\ OthersTyped /\ [Next]_vars => OthersTyped'
<1> SUFFICES ASSUME IInv, OthersTyped, [Next]_vars
             PROVE  OthersTyped'
  OBVIOUS
<1> USE DEF readVars, blockVars, Lists!blockVars, loopVars, Lists!loopVars
<1>1. ASSUME NEW c \in Client, Loop(c)
      PROVE  OthersTyped'
  BY <1>1 DEF Loop, Lists!Loop, Lists!Accept, Lists!Receive, Lists!HangUp,
              Lists!ProtocolError, Lists!ReaderRaises, Lists!EndOfBatch, OthersTyped
<1>2. ASSUME NEW c \in Client, TimeOutPop(c)
      PROVE  OthersTyped'
  <2>1. /\ Lists!Unblock(c, waiters) /\ Lists!Write({c})
        /\ waiters \in [Key -> Seq(Client)]
    BY <1>2 DEF TimeOutPop, Lists!TimeOut, OthersTyped
  <2>2. /\ blocked' \in [Client -> Lists!BlockInfo \cup {None}]
        /\ order' \in Seq(Client)
        /\ waiters' \in [Key -> Seq(Client)]
        /\ conn' \in [Client -> {"new", "open", "closed"}]
    BY <2>1, UnblockTypes, SameAnswers DEF OthersTyped
  <2>3. owed' \in [Client -> Int]
    BY <1>2, OneLess DEF TimeOutPop, Lists!TimeOut, OthersTyped
  <2> QED
    BY <1>2, <2>2, <2>3 DEF TimeOutPop, Lists!TimeOut, OthersTyped
<1>3. ASSUME NEW c \in Client, TimeOutRead(c)
      PROVE  OthersTyped'
  <2>1. /\ Reads!Unblock(c, readers) /\ Reads!Write({c})
        /\ readers \in [Key -> Seq(Client)]
    BY <1>3 DEF TimeOutRead, Reads!TimeOut, IInv
  <2>2. /\ reading' \in [Client -> ReadInfo \cup {None}]
        /\ readOrder' \in Seq(Client)
        /\ conn' \in [Client -> {"new", "open", "closed"}]
    BY <2>1, UnblockTypes, SameAnswers DEF OthersTyped
  <2>3. owed' \in [Client -> Int]
    BY <1>3, OneLess DEF TimeOutRead, Reads!TimeOut, OthersTyped
  <2> QED
    BY <1>3, <2>2, <2>3 DEF TimeOutRead, Reads!TimeOut, OthersTyped
<1>4. ASSUME NEW c \in Client, NEW cmd \in Workload, Stateless(c, cmd)
      PROVE  OthersTyped'
  <2> DEFINE n == IF Dispatch(db, now, cmd).reply = Raise THEN 0 ELSE 1
  <2>1. Answer(c, n) /\ n \in Int /\ up' \in BOOLEAN
    BY <1>4 DEF Stateless, Direct
  <2> HIDE DEF n
  <2>2. conn' \in [Client -> {"new", "open", "closed"}] /\ owed' \in [Client -> Int]
    BY <2>1, SameAnswers DEF OthersTyped
  <2> QED
    BY <1>4, <2>1, <2>2 DEF Stateless, Direct, OthersTyped
<1>5. ASSUME NEW c \in Client, NEW keys \in KeyLists, NEW t \in Timeouts, Blpop(c, keys, t)
      PROVE  OthersTyped'
  BY <1>5, BlpopTypes
<1>6. ASSUME NEW c \in Client, NEW s \in ReadLists, NEW t \in Timeouts, Xread(c, s, t)
      PROVE  OthersTyped'
  BY <1>6, XreadTypes
<1>7. CASE ResolvingList
  <2>1. \/ resolving \in Key /\ waiters[resolving] \in Seq(Client)
        \/ resolving = None
    BY DEF OthersTyped, IInv
  <2>2. CASE Lists!SkipWaiter
    BY <1>7, <2>1, <2>2 DEF ResolvingList, Lists!SkipWaiter, OthersTyped
  <2>3. CASE Lists!ServeWaiter
    <3> DEFINE c == Head(waiters[resolving])
               queues == [waiters EXCEPT ![resolving] = Tail(@)]
    <3>1. /\ Lists!Unblock(c, queues) /\ Lists!Write({c})
          /\ owed' = [owed EXCEPT ![c] = @ - 1]
          /\ UNCHANGED <<up, turn, expiring, reading, readOrder, lapsing>>
          /\ waiters[resolving] # <<>> /\ resolving # None
      BY <1>7, <2>3 DEF ResolvingList, Lists!ServeWaiter
    <3>2. c \in Client /\ queues \in [Key -> Seq(Client)]
      BY <2>1, <3>1 DEF OthersTyped
    <3> HIDE DEF c, queues
    <3>3. /\ blocked' \in [Client -> Lists!BlockInfo \cup {None}]
          /\ order' \in Seq(Client)
          /\ waiters' \in [Key -> Seq(Client)]
          /\ conn' \in [Client -> {"new", "open", "closed"}]
      BY <3>1, <3>2, UnblockTypes, SameAnswers DEF OthersTyped
    <3>4. owed' \in [Client -> Int]
      BY <3>1, <3>2, OneLess DEF OthersTyped
    <3> QED
      BY <3>1, <3>3, <3>4 DEF OthersTyped
  <2>4. CASE Lists!Resolved \/ Lists!ResolveRaises
    BY <1>7, <2>4 DEF ResolvingList, Lists!Resolved, Lists!ResolveRaises, OthersTyped
  <2> QED
    BY <1>7, <2>2, <2>3, <2>4 DEF ResolvingList
<1>8. CASE ResolvingRead
  <2>1. CASE ServeReader
    <3> DEFINE c == Head(serving)
    <3>1. /\ Reads!Unblock(c, readers) /\ Write({c})
          /\ owed' = [owed EXCEPT ![c] = @ - 1]
          /\ UNCHANGED <<up, turn, blocked, order, waiters, expiring, lapsing>>
          /\ serving # <<>>
      BY <2>1 DEF ServeReader
    <3>2. c \in Client /\ readers \in [Key -> Seq(Client)]
      BY <3>1 DEF IInv
    <3> HIDE DEF c
    <3>3. /\ reading' \in [Client -> ReadInfo \cup {None}]
          /\ readOrder' \in Seq(Client)
          /\ conn' \in [Client -> {"new", "open", "closed"}]
      BY <3>1, <3>2, UnblockTypes, SameAnswers DEF OthersTyped
    <3>4. owed' \in [Client -> Int]
      BY <3>1, <3>2, OneLess DEF OthersTyped
    <3> QED
      BY <3>1, <3>3, <3>4 DEF OthersTyped
  <2>2. CASE SkipReader \/ PassReader \/ ServeRaises
    BY <2>2 DEF SkipReader, PassReader, ServeRaises, OthersTyped
  <2> QED
    BY <1>8, <2>1, <2>2 DEF ResolvingRead
<1>9. CASE Sweep
  BY <1>9 DEF Sweep, Lists!TimedOut, Reads!TimedOut, OthersTyped
<1>10. CASE Clock \/ Ended \/ UNCHANGED vars
  BY <1>10 DEF Clock, Tick, Ended, vars, OthersTyped
<1> QED
  BY <1>1, <1>2, <1>3, <1>4, <1>5, <1>6, <1>7, <1>8, <1>9, <1>10 DEF Next

(* Both dicts of waiting clients, their queues and the copy keep their     *)
(* types (connection_state.py:22-29, 318-473).                             *)
THEOREM TypeCorrect == Spec => []TypeOK
<1>1. Init => OthersTyped
  BY DEF Init, Lists!Init, Lists!LoopInit, OthersTyped
<1>2. IInv /\ OthersTyped /\ [Next]_vars => OthersTyped'
  BY NextTypes
<1>3. IInv /\ OthersTyped => TypeOK
  BY TypesTogether
<1> QED
  BY <1>1, <1>2, <1>3, Invariance, PTL DEF Spec

=============================================================================
