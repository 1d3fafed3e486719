---------------------------- MODULE BlockingProofs ----------------------------
(***************************************************************************)
(* No push passes a waiting client by, for every set of keys, clients and  *)
(* commands.                                                               *)
(*                                                                         *)
(* The inductive part is that a client waits only for keys that hold no    *)
(* list, but for the key whose push is being resolved.  When the loop over *)
(* that key ends, either its list is used up or its queue is empty, and in *)
(* the second case nobody waits for the key, because every blocked client  *)
(* is in the queue of each of its keys (Registered).                       *)
(***************************************************************************)
EXTENDS Blocking, KeyspaceProofs

(* A write closes some connections.                                        *)
LEMMA WriteType ==
  ASSUME conn \in [Client -> {"new", "open", "closed"}], NEW S, Write(S)
  PROVE  conn' \in [Client -> {"new", "open", "closed"}]
BY DEF Write

(* A handler that answers closes its own at most, and counts.              *)
LEMMA AnswerType ==
  ASSUME LoopTypeOK, NEW c \in Client, NEW n \in Int, Answer(c, n)
  PROVE  /\ conn' \in [Client -> {"new", "open", "closed"}]
         /\ owed' \in [Client -> Int]
BY WriteType DEF Answer, LoopTypeOK

WaitsForNoList ==
  up => \A c \in Client : \A k \in KeysOf(c) :
          k # resolving => ~HasType(db.data[k], "list")

IInv ==
  /\ TypeOK
  /\ WellFormed(db)
  /\ Registered
  /\ WaitsForNoList

-----------------------------------------------------------------------------
(* Where lists come from: only from pushes to their key.                   *)

NoNewList(d, e, j) == HasType(e.data[j], "list") => HasType(d.data[j], "list")

LEMMA PurgeMakesNoList ==
  ASSUME NEW d, WellFormed(d), NEW t \in Nat, NEW k \in Key, NEW j \in Key
  PROVE  /\ NoNewList(d, Purge(d, t, k), j)
         /\ Purge(d, t, k).data[j] = d.data[j] \/ Purge(d, t, k).data[j] = None
BY PurgeOnlyRemoves DEF NoNewList, HasType

(* A list shows, as it carries no deadline.                                *)
LEMMA ListsShow ==
  ASSUME NEW d, WellFormed(d), NEW t \in Nat, NEW k \in Key
  PROVE  HasType(Lookup(d, t, k), "list") <=> HasType(d.data[k], "list")
<1>1. HasType(d.data[k], "list") => ~Expired(d, t, k)
  BY ListsDoNotExpire DEF HasType, Expired
<1> QED
  BY <1>1, Purged DEF HasType

LEMMA PurgeKeysMakesNoList ==
  ASSUME NEW d, WellFormed(d), NEW t \in Nat, NEW S, NEW j \in Key
  PROVE  /\ WellFormed(PurgeKeys(d, t, S))
         /\ NoNewList(d, PurgeKeys(d, t, S), j)
<1>1. /\ WellFormed(PurgeKeys(d, t, S))
      /\ Lookup(PurgeKeys(d, t, S), t, j) = Lookup(d, t, j)
  BY PurgeKeysShows
<1> QED
  BY <1>1, ListsShow DEF NoNewList

LEMMA PopMakesNoList ==
  ASSUME NEW d, WellFormed(d), NEW t \in Nat, NEW k \in Key, NEW j \in Key,
         NEW count \in Nat \cup {None}
  PROVE  /\ NoNewList(d, LPop(d, t, k, count).db, j)
         /\ NoNewList(d, RPop(d, t, k, count).db, j)
<1> DEFINE p == Purge(d, t, k)
<1>1. CASE j # k
  <2>1. ASSUME NEW e, e = LPop(d, t, k, count).db \/ e = RPop(d, t, k, count).db
        PROVE  SameBut(d, e, k)
    <3>1. CASE count = None
      BY <2>1, <3>1, PlainPopTracks DEF Tracks, PopsQuietly
    <3>2. CASE count # None
      BY <2>1, <3>2, CountedPopTracks DEF Tracks
    <3> QED
      BY <3>1, <3>2
  <2> QED
    BY <1>1, <2>1 DEF SameBut, Same, NoNewList
<1>2. CASE j = k
  <2>1. CASE WrongType(p.data[k], "list") \/ Items(p, k) = <<>>
    <3>1. LPop(d, t, k, count).db = p /\ RPop(d, t, k, count).db = p
      BY <2>1 DEF LPop, RPop, Result
    <3> QED
      BY <3>1, PurgeMakesNoList
  <2>2. CASE ~(WrongType(p.data[k], "list") \/ Items(p, k) = <<>>)
    <3>1. HasType(p.data[k], "list")
      BY <2>2 DEF WrongType, HasType, Items
    <3> QED
      BY <1>2, <3>1, PurgeMakesNoList DEF NoNewList
  <2> QED
    BY <2>1, <2>2
<1> QED
  BY <1>1, <1>2

LEMMA SetMakesNoList ==
  ASSUME NEW d, WellFormed(d), NEW t, NEW k \in Key, NEW v, NEW ttl
  PROVE  NoNewList(d, Set(d, t, k, v, ttl).db, k)
<1>1. Stores(Set(d, t, k, v, ttl).db, k, StrOf(v))
  BY WriteStores DEF Set, Result
<1> QED
  BY <1>1 DEF Stores, NoNewList, HasType, StrOf

LEMMA DeleteMakesNoList ==
  ASSUME NEW d, WellFormed(d), NEW t, NEW k \in Key
  PROVE  NoNewList(d, Delete(d, t, k).db, k)
<1>1. WellFormed(Purge(d, t, k))
  BY PurgeKeeps
<1>2. Stores(Delete(d, t, k).db, k, None)
  BY <1>1, WriteStores DEF Delete, Result
<1> QED
  BY <1>2 DEF Stores, NoNewList, HasType

LEMMA IncrMakesNoList ==
  ASSUME NEW d, WellFormed(d), NEW t \in Nat, NEW k \in Key
  PROVE  NoNewList(d, Incr(d, t, k).db, k)
<1> DEFINE p == Purge(d, t, k)
           n == IF p.data[k] = None THEN 1 ELSE p.data[k].str + 1
<1>1. WellFormed(p)
  BY PurgeKeeps
<1>2. \/ Incr(d, t, k).db = p
      \/ Incr(d, t, k).db = Bump([p EXCEPT !.data[k] = StrOf(n)], k)
  BY DEF Incr, Result
<1>3. CASE Incr(d, t, k).db = p
  BY <1>3, PurgeMakesNoList
<1>4. CASE Incr(d, t, k).db = Bump([p EXCEPT !.data[k] = StrOf(n)], k)
  <2> HIDE DEF p, n
  <2>1. Stores(Incr(d, t, k).db, k, StrOf(n))
    BY <1>1, <1>4, WriteStores
  <2> QED
    BY <2>1 DEF Stores, NoNewList, HasType, StrOf
<1> QED
  BY <1>2, <1>3, <1>4

LEMMA XAddMakesNoList ==
  ASSUME NEW d, WellFormed(d), NEW t \in Nat, NEW k \in Key, NEW ms, NEW seq
  PROVE  NoNewList(d, XAdd(d, t, k, ms, seq).db, k)
<1> DEFINE p == Purge(d, t, k)
           e == XAdd(d, t, k, ms, seq).db
           v == IF p.data[k] = None THEN NewStream ELSE p.data[k]
           id == RequestedId(v.last, ms, seq)
           w == [v EXCEPT !.entries = Append(@, id), !.last = id]
<1>1. WellFormed(p)
  BY PurgeKeeps
<1>2. CASE WrongType(p.data[k], "stream")
  <2>1. e = p
    BY <1>2 DEF XAdd, Result
  <2> QED
    BY <2>1, PurgeMakesNoList
<1>3. CASE ~WrongType(p.data[k], "stream")
  <2>1. v \in StreamValue
    BY <1>1, <1>3 DEF WellFormed, DB, WrongType, NewStream, Value, StrValue, ListValue,
                      StreamValue, StreamId
  <2>2. v.type = "stream" /\ w.type = "stream"
    <3> HIDE DEF v, id
    <3> QED
      BY <2>1 DEF StreamValue
  <2>3. e = [p EXCEPT !.data[k] = v] \/ e = Bump([p EXCEPT !.data[k] = w], k)
    BY <1>3 DEF XAdd, Result
  <2>4. /\ Stores([p EXCEPT !.data[k] = v], k, v)
        /\ Stores(Bump([p EXCEPT !.data[k] = w], k), k, w)
    <3> HIDE DEF p, v, w
    <3> QED
      BY <1>1, WriteStores
  <2>5. Stores(e, k, v) \/ Stores(e, k, w)
    BY <2>3, <2>4
  <2> HIDE DEF v, w
  <2> QED
    BY <2>2, <2>5 DEF Stores, NoNewList, HasType
<1> QED
  BY <1>2, <1>3

LEMMA ZSetsMakeNoList ==
  ASSUME NEW d, WellFormed(d), NEW k \in Key, NEW pairs, NEW ms
  PROVE  /\ NoNewList(d, ZAdd(d, k, pairs).db, k)
         /\ NoNewList(d, ZRem(d, k, ms).db, k)
<1>1. \A z : [d EXCEPT !.zsets[k] = z].data = d.data
  BY DEF WellFormed, DB
<1> QED
  BY <1>1 DEF ZAdd, ZRem, Result, NoNewList

LEMMA OnlyPushesMakeLists ==
  ASSUME NEW d, WellFormed(d), NEW t \in Nat, NEW c \in Command, NEW j \in Key,
         Dispatch(d, t, c).reply # Raise,
         ~(c.op \in {"RPUSH", "LPUSH"} /\ c.key = j)
  PROVE  NoNewList(d, Dispatch(d, t, c).db, j)
<1> DEFINE e == Dispatch(d, t, c).db
<1>1. CASE c.op \in Readers
  BY <1>1, ArgumentTypes, ReadersOnlyPurge, PurgeMakesNoList
<1>2. CASE c.op \in Writers /\ c.key # j
  <2>1. SameBut(d, e, c.key)
    BY <1>2, WritersTrack DEF Tracks, PopsQuietly
  <2> QED
    BY <1>2, <2>1 DEF SameBut, Same, NoNewList
<1>3. CASE c.op \in Writers /\ c.key = j
  <2>1. CASE c.op = "SET"
    BY <1>3, <2>1, SetMakesNoList DEF Dispatch
  <2>2. CASE c.op = "DEL"
    BY <1>3, <2>2, DeleteMakesNoList DEF Dispatch
  <2>3. CASE c.op = "INCR"
    BY <1>3, <2>3, IncrMakesNoList DEF Dispatch
  <2>4. CASE c.op = "LPOP" \/ c.op = "RPOP"
    <3>1. c.count \in Nat \cup {None}
      BY <2>4, ArgumentTypes
    <3> QED
      BY <1>3, <2>4, <3>1, PopMakesNoList DEF Dispatch
  <2>5. CASE c.op = "XADD"
    BY <1>3, <2>5, XAddMakesNoList DEF Dispatch, XAddCommand
  <2>6. CASE c.op = "ZADD"
    BY <1>3, <2>6, ZSetsMakeNoList DEF Dispatch
  <2>7. CASE c.op = "ZREM"
    BY <1>3, <2>7, ZSetsMakeNoList DEF Dispatch
  <2>8. \/ c.op = "SET" \/ c.op = "DEL" \/ c.op = "INCR"
        \/ c.op = "LPOP" \/ c.op = "RPOP"
        \/ c.op = "XADD" \/ c.op = "ZADD" \/ c.op = "ZREM"
    BY <1>3 DEF Writers
  <2> QED
    BY <2>1, <2>2, <2>3, <2>4, <2>5, <2>6, <2>7, <2>8
<1>4. CASE c.op \notin Readers /\ c.op \notin Writers
  BY <1>4, OthersKeepTheKeyspace DEF NoNewList
<1> QED
  BY <1>1, <1>2, <1>3, <1>4

-----------------------------------------------------------------------------
LEMMA InitIInv == Init => IInv
<1> SUFFICES ASSUME Init
             PROVE  IInv
  OBVIOUS
<1>1. WellFormed(db)
  BY EmptyIsWellFormed DEF Init, LoopInit
<1>2. <<>> \in Seq(Client)
  OBVIOUS
<1>3. TypeOK
  BY <1>1, <1>2 DEF Init, LoopInit, TypeOK, LoopTypeOK, WellFormed
<1>4. Registered /\ WaitsForNoList
  BY DEF Init, Registered, WaitsForNoList, KeysOf
<1> QED
  BY <1>1, <1>3, <1>4 DEF IInv

LEMMA KeysOfType ==
  ASSUME TypeOK, NEW c \in Client
  PROVE  KeysOf(c) \subseteq Key
<1>1. CASE blocked[c] = None
  BY <1>1 DEF KeysOf
<1>2. CASE blocked[c] # None
  <2>1. blocked[c].keys \in Seq(Key)
    BY <1>2, BlockingInputs DEF TypeOK, BlockInfo
  <2> QED
    BY <1>2, <2>1, ElementOfSeq DEF KeysOf, ToSet
<1> QED
  BY <1>1, <1>2

(* Steps that leave the waiters alone, and make no list outside quiet.     *)
LEMMA WaitersAlone ==
  ASSUME IInv, UNCHANGED <<blocked, order, waiters>>, WellFormed(db'),
         up' => up,
         up' => \A k \in Key : k # resolving' => NoNewList(db, db', k) /\ k # resolving
  PROVE  Registered' /\ WaitsForNoList'
<1>1. \A c \in Client : KeysOf(c)' = KeysOf(c) /\ KeysOf(c) \subseteq Key
  BY KeysOfType DEF KeysOf, IInv
<1>2. Registered'
  BY <1>1 DEF Registered, IInv
<1>3. WaitsForNoList'
  BY <1>1 DEF WaitsForNoList, NoNewList, IInv
<1> QED
  BY <1>2, <1>3

(* Steps of the loop and the clock.                                        *)
LEMMA AllAlone ==
  ASSUME IInv, UNCHANGED <<db, blocked, order, waiters, resolving>>,
         up' \in BOOLEAN, up' => up, now' \in Nat,
         conn' \in [Client -> {"new", "open", "closed"}],
         turn' \in Client \cup {None},
         owed' \in [Client -> Int],
         expiring' \subseteq Client
  PROVE  IInv'
BY DEF IInv, TypeOK, LoopTypeOK, Registered, WaitsForNoList, KeysOf

(* A client leaves blocked_clients, after its place in one queue.          *)
LEMMA UnblockKeeps ==
  ASSUME IInv, NEW c \in Client, NEW queues \in [Key -> Seq(Client)], Unblock(c, queues),
         \A k \in Key : \A x \in ToSet(waiters[k]) : x # c => x \in ToSet(queues[k])
  PROVE  /\ blocked' \in [Client -> BlockInfo \cup {None}]
         /\ order' \in Seq(Client)
         /\ waiters' \in [Key -> Seq(Client)]
         /\ Registered'
         /\ \A e \in Client : KeysOf(e)' \subseteq KeysOf(e)
<1>1. blocked' \in [Client -> BlockInfo \cup {None}]
  BY DEF Unblock, IInv, TypeOK
<1>2. order' \in Seq(Client)
  BY RemoveFirstKeepsOthers DEF Unblock, IInv, TypeOK
<1>3. waiters' \in [Key -> Seq(Client)]
  BY RemoveFirstKeepsOthers DEF Unblock, Unqueued
<1>4. /\ KeysOf(c)' = {}
      /\ \A e \in Client : e # c => KeysOf(e)' = KeysOf(e)
  BY DEF Unblock, KeysOf, IInv, TypeOK
<1>5. ASSUME NEW e \in Client, NEW k \in KeysOf(e)'
      PROVE  e \in ToSet(waiters'[k])
  <2>1. e # c /\ k \in KeysOf(e) /\ k \in Key
    BY <1>4, <1>5, KeysOfType DEF IInv
  <2>2. e \in ToSet(waiters[k])
    BY <2>1 DEF IInv, Registered
  <2>3. e \in ToSet(queues[k]) /\ queues[k] \in Seq(Client)
    BY <2>1, <2>2
  <2>4. e \in ToSet(RemoveFirst(queues[k], c))
    BY <2>1, <2>3, RemoveFirstKeepsOthers
  <2>5. waiters'[k] = IF k \in KeysOf(c) THEN RemoveFirst(queues[k], c) ELSE queues[k]
    BY <2>1 DEF Unblock, Unqueued
  <2> QED
    BY <2>3, <2>4, <2>5
<1> QED
  BY <1>1, <1>2, <1>3, <1>4, <1>5 DEF Registered

-----------------------------------------------------------------------------
LEMMA StatelessKeeps ==
  ASSUME IInv, NEW c \in Client, NEW cmd \in Workload, Stateless(c, cmd)
  PROVE  IInv'
<1> USE DEF Stateless, Direct, MaySend, Sends, Idle
<1>1. cmd \in Command
  BY WorkloadIsCommands
<1>2. /\ conn' \in [Client -> {"new", "open", "closed"}]
      /\ owed' \in [Client -> Int]
  BY AnswerType DEF IInv, TypeOK
<1>3. WellFormed(db')
  BY <1>1, DispatchKeeps DEF IInv, TypeOK, LoopTypeOK
<1>4. resolving' \in Key \cup {None}
  BY <1>1, ArgumentTypes DEF Writers
<1>5. ASSUME up', NEW k \in Key, k # resolving'
      PROVE  NoNewList(db, db', k) /\ k # resolving
  <2>1. ~(cmd.op \in {"RPUSH", "LPUSH"} /\ cmd.key = k)
    BY <1>5
  <2>2. Dispatch(db, now, cmd).reply # Raise
    BY <1>5
  <2>3. NoNewList(db, db', k)
    BY <1>1, <2>1, <2>2, OnlyPushesMakeLists DEF IInv, TypeOK, LoopTypeOK
  <2> QED
    BY <2>3, NoneIsNoClient
<1>6. Registered' /\ WaitsForNoList'
  BY <1>3, <1>5, WaitersAlone
<1> QED
  BY <1>2, <1>3, <1>4, <1>6 DEF IInv, TypeOK, LoopTypeOK, WellFormed

LEMMA BlpopAnsweredKeeps ==
  ASSUME IInv, NEW c \in Client, NEW keys \in KeyLists, NEW t \in Int,
         BlpopAnswered(c, keys, t)
  PROVE  IInv'
<1> USE DEF BlpopAnswered, MaySend, Sends, Idle
<1>1. Complaints(t) + 1 \in Int
  BY DEF Complaints
<1>2. /\ conn' \in [Client -> {"new", "open", "closed"}]
      /\ owed' \in [Client -> Int]
  BY <1>1, AnswerType DEF IInv, TypeOK
<1>3. keys \in Seq(Key) /\ FirstStop(keys) \in DOMAIN keys
  <2>1. keys \in Seq(Key)
    BY BlockingInputs
  <2>2. LET I == {i \in 1..Len(keys) : Stops(i, keys)}
        IN  \E i \in I : \A j \in I : i <= j
    <3> DEFINE I == {i \in 1..Len(keys) : Stops(i, keys)}
    <3>1. I \subseteq Nat /\ I # {}
      BY <2>1
    <3> HIDE DEF I
    <3>2. \E i \in I : \A j \in I : i <= j
      BY <3>1, LeastNatural
    <3> QED
      BY <3>2 DEF I
  <2>3. \E i \in DOMAIN keys :
          Stops(i, keys) /\ \A j \in DOMAIN keys : Stops(j, keys) => i <= j
    <3>1. DOMAIN keys = 1..Len(keys)
      BY <2>1, LenProperties
    <3> QED
      BY <2>2, <3>1, ZenonT(40)
  <2> QED
    BY <2>1, <2>3 DEF FirstStop
<1> DEFINE i == FirstStop(keys)
           S == {keys[j] : j \in 1..i}
           p == PurgeKeys(db, now, S)
<1>4. keys[i] \in Key
  BY <1>3, ElementOfSeq
<1>5. now \in Nat /\ WellFormed(db) /\ db' = LPop(p, now, keys[i], None).db
  BY DEF IInv, TypeOK, LoopTypeOK
<1> HIDE DEF S
<1>6. WellFormed(p) /\ \A k \in Key : NoNewList(db, p, k)
  BY <1>5, PurgeKeysMakesNoList, PurgeKeysShows
<1> HIDE DEF p, i
<1>7. WellFormed(db') /\ \A k \in Key : NoNewList(p, db', k)
  BY <1>4, <1>5, <1>6, LPopKeeps, PopMakesNoList
<1>8. Registered' /\ WaitsForNoList'
  BY <1>6, <1>7, WaitersAlone, NoneIsNoClient DEF NoNewList, blockVars
<1> QED
  BY <1>2, <1>7, <1>8 DEF IInv, TypeOK, LoopTypeOK, WellFormed, blockVars

LEMMA BlpopWaitsKeeps ==
  ASSUME IInv, NEW c \in Client, NEW keys \in KeyLists, NEW t \in Int,
         BlpopWaits(c, keys, t)
  PROVE  IInv'
<1> DEFINE deadline == IF t = 0 THEN None ELSE now + t
           info == [keys |-> keys, deadline |-> deadline]
<1> USE DEF BlpopWaits, MaySend, Sends, Idle
<1>1. Complaints(t) \in Int
  BY DEF Complaints
<1>2. /\ conn' \in [Client -> {"new", "open", "closed"}]
      /\ owed' \in [Client -> Int]
  BY <1>1, AnswerType DEF IInv, TypeOK
<1>3. now \in Nat /\ WellFormed(db) /\ keys \in Seq(Key) /\ info \in BlockInfo
  BY BlockingInputs DEF IInv, TypeOK, LoopTypeOK, BlockInfo
<1>4. /\ blocked' = [blocked EXCEPT ![c] = info]
      /\ order' = IF c \in ToSet(order) THEN order ELSE Append(order, c)
      /\ waiters' = [k \in Key |-> IF k \in ToSet(keys) THEN Append(waiters[k], c)
                                                       ELSE waiters[k]]
  BY DEF Block
<1>5. /\ blocked' \in [Client -> BlockInfo \cup {None}]
      /\ order' \in Seq(Client)
      /\ waiters' \in [Key -> Seq(Client)]
  BY <1>3, <1>4, AppendKeepsMembers DEF IInv, TypeOK
<1>6. /\ WellFormed(db')
      /\ \A k \in Key : NoNewList(db, db', k)
  BY <1>3, PurgeKeysMakesNoList, PurgeKeysShows
<1>7. /\ ToSet(keys) \subseteq Key
      /\ \A k \in ToSet(keys) : ~HasType(db.data[k], "list")
  <2>1. \A k \in ToSet(keys) : k \in Key /\ Lookup(db, now, k) = None
    BY <1>3, ElementOfSeq DEF ToSet, Stops
  <2> QED
    BY <1>3, <2>1, ListsShow DEF HasType
<1>8. /\ KeysOf(c)' = ToSet(keys)
      /\ \A e \in Client : e # c => KeysOf(e)' = KeysOf(e)
  <2>1. info # None
    BY <1>3, NoneIsNoInfo
  <2>2. blocked'[c] = info /\ \A e \in Client : e # c => blocked'[e] = blocked[e]
    BY <1>4 DEF IInv, TypeOK
  <2> QED
    BY <2>1, <2>2 DEF KeysOf
<1>9. ASSUME NEW e \in Client, NEW k \in KeysOf(e)'
      PROVE  e \in ToSet(waiters'[k]) /\ (up' => ~HasType(db'.data[k], "list"))
  <2>1. CASE k \in ToSet(keys)
    <3>1. /\ waiters[k] \in Seq(Client)
          /\ waiters'[k] = Append(waiters[k], c)
      BY <1>4, <1>7, <2>1 DEF IInv, TypeOK
    <3>2. e = c \/ e \in ToSet(waiters[k])
      BY <1>8, <1>9 DEF IInv, Registered
    <3>3. e \in ToSet(waiters'[k])
      BY <3>1, <3>2, AppendKeepsMembers
    <3> QED
      BY <1>6, <1>7, <2>1, <3>3 DEF NoNewList
  <2>2. CASE k \notin ToSet(keys)
    <3>1. k \in KeysOf(e)
      BY <1>8, <1>9, <2>2
    <3>2. k \in Key
      BY <3>1, KeysOfType DEF IInv
    <3>3. waiters'[k] = waiters[k]
      BY <1>4, <2>2, <3>2
    <3>4. up' => ~HasType(db.data[k], "list")
      BY <3>1, <3>2, NoneIsNoClient DEF IInv, WaitsForNoList
    <3> QED
      BY <1>6, <3>1, <3>2, <3>3, <3>4 DEF NoNewList, IInv, Registered
  <2> QED
    BY <2>1, <2>2
<1>10. Registered' /\ WaitsForNoList'
  BY <1>9 DEF Registered, WaitsForNoList
<1> QED
  BY <1>2, <1>5, <1>6, <1>10 DEF IInv, TypeOK, LoopTypeOK, WellFormed

(* The queue of the resolved key loses its head.                           *)
LEMMA HeadLeaves ==
  ASSUME TypeOK, resolving # None, waiters[resolving] # <<>>
  PROVE  LET c == Head(waiters[resolving])
             queues == [waiters EXCEPT ![resolving] = Tail(@)]
         IN  /\ c \in Client
             /\ queues \in [Key -> Seq(Client)]
             /\ \A k \in Key : \A x \in ToSet(waiters[k]) : x # c => x \in ToSet(queues[k])
<1> DEFINE c == Head(waiters[resolving])
           queues == [waiters EXCEPT ![resolving] = Tail(@)]
<1>1. resolving \in Key /\ waiters[resolving] \in Seq(Client)
  BY DEF TypeOK
<1>2. c \in Client /\ Tail(waiters[resolving]) \in Seq(Client)
  BY <1>1
<1>3. queues \in [Key -> Seq(Client)]
  BY <1>1, <1>2 DEF TypeOK
<1>4. /\ queues[resolving] = Tail(waiters[resolving])
      /\ \A k \in Key : k # resolving => queues[k] = waiters[k]
  BY <1>1 DEF TypeOK
<1>5. \A x \in ToSet(waiters[resolving]) : x # c => x \in ToSet(Tail(waiters[resolving]))
  BY <1>1, TailKeepsOthers
<1> HIDE DEF c, queues
<1>6. \A k \in Key : \A x \in ToSet(waiters[k]) : x # c => x \in ToSet(queues[k])
  BY <1>4, <1>5
<1> QED
  BY <1>2, <1>3, <1>6 DEF c, queues

LEMMA SkipWaiterKeeps ==
  ASSUME IInv, SkipWaiter
  PROVE  IInv'
<1> DEFINE head == Head(waiters[resolving])
<1> USE DEF SkipWaiter
<1>1. /\ waiters' \in [Key -> Seq(Client)]
      /\ \A k \in Key : \A x \in ToSet(waiters[k]) : x # head => x \in ToSet(waiters'[k])
  BY HeadLeaves DEF IInv
<1>2. \A e \in Client : KeysOf(e)' = KeysOf(e) /\ KeysOf(e) \subseteq Key
  BY KeysOfType DEF KeysOf, IInv
<1>3. KeysOf(head) = {}
  BY DEF KeysOf
<1>4. Registered'
  BY <1>1, <1>2, <1>3 DEF Registered, IInv
<1>5. WaitsForNoList'
  BY <1>2 DEF WaitsForNoList, IInv, loopVars
<1> QED
  BY <1>1, <1>4, <1>5 DEF IInv, TypeOK, LoopTypeOK, loopVars

LEMMA ServeWaiterKeeps ==
  ASSUME IInv, ServeWaiter
  PROVE  IInv'
<1> DEFINE c == Head(waiters[resolving])
           queues == [waiters EXCEPT ![resolving] = Tail(@)]
<1> USE DEF ServeWaiter
<1>1. /\ c \in Client
      /\ queues \in [Key -> Seq(Client)]
      /\ \A k \in Key : \A x \in ToSet(waiters[k]) : x # c => x \in ToSet(queues[k])
  BY HeadLeaves DEF IInv
<1>2. /\ Unblock(c, queues)
      /\ db' = LPop(db, now, resolving, None).db
      /\ owed' = [owed EXCEPT ![c] = @ - 1]
      /\ Write({c})
      /\ UNCHANGED <<now, up, turn, resolving, expiring>>
  OBVIOUS
<1> HIDE DEF c, queues, ServeWaiter
<1>3. resolving \in Key /\ now \in Nat /\ WellFormed(db)
  BY DEF ServeWaiter, IInv, TypeOK, LoopTypeOK
<1>4. WellFormed(db') /\ \A k \in Key : NoNewList(db, db', k)
  BY <1>2, <1>3, LPopKeeps, PopMakesNoList
<1>5. /\ blocked' \in [Client -> BlockInfo \cup {None}]
      /\ order' \in Seq(Client)
      /\ waiters' \in [Key -> Seq(Client)]
      /\ Registered'
      /\ \A e \in Client : KeysOf(e)' \subseteq KeysOf(e)
  BY <1>1, <1>2, UnblockKeeps
<1>6. /\ conn' \in [Client -> {"new", "open", "closed"}]
      /\ owed' \in [Client -> Int]
  BY <1>1, <1>2, WriteType DEF IInv, TypeOK, LoopTypeOK
<1>7. WaitsForNoList'
  BY <1>2, <1>4, <1>5, KeysOfType DEF WaitsForNoList, NoNewList, IInv
<1> QED
  BY <1>2, <1>4, <1>5, <1>6, <1>7 DEF IInv, TypeOK, LoopTypeOK, WellFormed

(* What a plain LPOP that finds nothing says of the key.                   *)
LEMMA NothingLeft ==
  ASSUME NEW d, WellFormed(d), NEW t \in Nat, NEW k \in Key,
         LPop(d, t, k, None).reply = Nil
  PROVE  ~HasType(LPop(d, t, k, None).db.data[k], "list")
<1> DEFINE p == Purge(d, t, k)
<1>1. WellFormed(p)
  BY PurgeKeeps
<1>2. /\ ~WrongType(p.data[k], "list")
      /\ Items(p, k) = <<>>
      /\ LPop(d, t, k, None).db = p
  BY DEF LPop, Result, Nil, Error, Bulk
<1>3. ~HasType(p.data[k], "list")
  BY <1>1, <1>2 DEF WellFormed, ListsNotEmpty, Items, HasType
<1> QED
  BY <1>2, <1>3

LEMMA ResolvedKeeps ==
  ASSUME IInv, Resolved
  PROVE  IInv'
<1> DEFINE r == LPop(db, now, resolving, None)
<1>1. /\ up /\ resolving \in Key /\ resolving' = None
      /\ UNCHANGED <<now, up, conn, turn, owed, blocked, order, waiters, expiring>>
      /\ \/ waiters[resolving] = <<>> /\ db' = db
         \/ r.reply = Nil /\ db' = r.db
  BY DEF Resolved, IInv, TypeOK
<1>2. now \in Nat /\ WellFormed(db)
  BY DEF IInv, TypeOK, LoopTypeOK
<1>3. WellFormed(db') /\ \A k \in Key : NoNewList(db, db', k)
  <2>1. None \in Nat \cup {None}
    OBVIOUS
  <2>2. WellFormed(r.db)
    BY <1>1, <1>2, <2>1, LPopKeeps
  <2>3. \A k \in Key : NoNewList(db, r.db, k)
    BY <1>1, <1>2, <2>1, PopMakesNoList
  <2>4. \A k \in Key : NoNewList(db, db, k)
    BY DEF NoNewList
  <2> HIDE DEF r
  <2> QED
    BY <1>1, <1>2, <2>2, <2>3, <2>4
<1>4. \A e \in Client : KeysOf(e)' = KeysOf(e) /\ KeysOf(e) \subseteq Key
  BY <1>1, KeysOfType DEF KeysOf, IInv
<1>5. ASSUME NEW e \in Client, NEW k \in KeysOf(e)
      PROVE  ~HasType(db'.data[k], "list")
  <2>1. k \in Key /\ e \in ToSet(waiters[k])
    BY <1>4, <1>5 DEF IInv, Registered
  <2>2. CASE k # resolving
    BY <1>1, <1>3, <1>5, <2>1, <2>2 DEF IInv, WaitsForNoList, NoNewList
  <2>3. CASE k = resolving
    <3>1. waiters[k] # <<>>
      BY <2>1 DEF ToSet
    <3>2. r.reply = Nil /\ db' = r.db
      BY <1>1, <2>3, <3>1
    <3> QED
      BY <1>1, <1>2, <2>3, <3>2, NothingLeft
  <2> QED
    BY <2>2, <2>3
<1>6. Registered' /\ WaitsForNoList'
  BY <1>1, <1>4, <1>5 DEF Registered, WaitsForNoList, IInv
<1> QED
  BY <1>1, <1>3, <1>6 DEF IInv, TypeOK, LoopTypeOK, WellFormed

LEMMA TimeOutKeeps ==
  ASSUME IInv, NEW c \in Client, TimeOut(c)
  PROVE  IInv'
<1> USE DEF TimeOut
<1>1. /\ blocked' \in [Client -> BlockInfo \cup {None}]
      /\ order' \in Seq(Client)
      /\ waiters' \in [Key -> Seq(Client)]
      /\ Registered'
      /\ \A e \in Client : KeysOf(e)' \subseteq KeysOf(e)
  <2>1. waiters \in [Key -> Seq(Client)]
    BY DEF IInv, TypeOK
  <2> QED
    BY <2>1, UnblockKeeps
<1>2. /\ conn' \in [Client -> {"new", "open", "closed"}]
      /\ owed' \in [Client -> Int]
  BY WriteType DEF IInv, TypeOK, LoopTypeOK
<1>3. WaitsForNoList'
  BY <1>1 DEF WaitsForNoList, IInv
<1> QED
  BY <1>1, <1>2, <1>3 DEF IInv, TypeOK, LoopTypeOK

-----------------------------------------------------------------------------
LEMMA NextIInv == IInv /\ [Next]_vars => IInv'
<1> SUFFICES ASSUME IInv, [Next]_vars
             PROVE  IInv'
  OBVIOUS
<1>1. ASSUME NEW c \in Client, Loop(c)
      PROVE  IInv'
  BY <1>1, AllAlone
     DEF Loop, Accept, Receive, HangUp, ProtocolError, ReaderRaises, EndOfBatch, blockVars,
         IInv, TypeOK, LoopTypeOK
<1>2. ASSUME NEW c \in Client, TimeOut(c)
      PROVE  IInv'
  BY <1>2, TimeOutKeeps
<1>3. ASSUME NEW c \in Client, NEW cmd \in Workload, Stateless(c, cmd)
      PROVE  IInv'
  BY <1>3, StatelessKeeps
<1>4. ASSUME NEW c \in Client, NEW keys \in KeyLists, NEW t \in Timeouts, Blpop(c, keys, t)
      PROVE  IInv'
  <2>1. CASE t = None
    <3>1. BlpopNotFloat(c, keys)
      BY <1>4, <2>1 DEF Blpop
    <3>2. /\ conn' \in [Client -> {"new", "open", "closed"}]
          /\ owed' \in [Client -> Int]
      BY <3>1, AnswerType DEF BlpopNotFloat, IInv, TypeOK
    <3> QED
      BY <3>1, <3>2, AllAlone
         DEF BlpopNotFloat, MaySend, Sends, blockVars, IInv, TypeOK, LoopTypeOK
  <2>2. CASE t # None
    <3>1. t \in Int
      BY <2>2, BlockingInputs
    <3> QED
      BY <1>4, <2>2, <3>1, BlpopAnsweredKeeps, BlpopWaitsKeeps DEF Blpop
  <2> QED
    BY <2>1, <2>2
<1>5. CASE SkipWaiter
  BY <1>5, SkipWaiterKeeps
<1>6. CASE ServeWaiter
  BY <1>6, ServeWaiterKeeps
<1>7. CASE Resolved
  BY <1>7, ResolvedKeeps
<1>8. CASE ResolveRaises
  BY <1>8, AllAlone DEF ResolveRaises, blockVars, IInv, TypeOK, LoopTypeOK
<1>9. CASE Sweep
  BY <1>9, AllAlone DEF Sweep, TimedOut, loopVars, IInv, TypeOK, LoopTypeOK
<1>10. CASE Tick /\ UNCHANGED blockVars
  BY <1>10, AllAlone DEF Tick, blockVars, IInv, TypeOK, LoopTypeOK
<1>11. CASE UNCHANGED vars
  BY <1>11, AllAlone DEF vars, loopVars, blockVars, IInv, TypeOK, LoopTypeOK
<1> QED
  BY <1>1, <1>2, <1>3, <1>4, <1>5, <1>6, <1>7, <1>8, <1>9, <1>10, <1>11
     DEF Next, Ended

THEOREM Invariance == Spec => []IInv
BY InitIInv, NextIInv, PTL DEF Spec

(* The dict of blocked clients and the queues of waiters keep their types  *)
(* (connection_state.py:22-24, 359-473).                                   *)
THEOREM TypeCorrect == Spec => []TypeOK
<1>1. IInv => TypeOK
  BY DEF IInv
<1> QED
  BY <1>1, Invariance, PTL

(* A blocked client stands in the queue of every key it waits for,         *)
(* whatever blocks, pushes, timeouts and hang-ups there were               *)
(* (connection_state.py:389-392, 401-412, 435-449).                        *)
THEOREM WaitersAreRegistered == Spec => []Registered
<1>1. IInv => Registered
  BY DEF IInv
<1> QED
  BY <1>1, Invariance, PTL

(* No client waits for a key that holds an element, once the push that     *)
(* brought it has been resolved (connection_state.py:380-415).             *)
THEOREM NoPushIsMissed == Spec => []NoMissedPush
<1>1. IInv => NoMissedPush
  <2> SUFFICES ASSUME IInv, up, NEW c \in Client, NEW k \in KeysOf(c), k # resolving
               PROVE  ~HasType(Lookup(db, now, k), "list")
    BY DEF NoMissedPush
  <2>1. k \in Key /\ WellFormed(db) /\ now \in Nat
    BY KeysOfType DEF IInv, TypeOK, LoopTypeOK
  <2>2. ~HasType(db.data[k], "list")
    BY DEF IInv, WaitsForNoList
  <2> QED
    BY <2>1, <2>2, ListsShow
<1> QED
  BY <1>1, Invariance, PTL

-----------------------------------------------------------------------------
(* Replies.  A timeout below zero is answered at once and again later, so  *)
(* the count is right only without one.                                    *)

NoNegativeTimeout == \A t \in Timeouts : t # None => t >= 0

(* A handler that has begun is alone, and a sweep tells only clients that  *)
(* still wait.                                                             *)
OneAtATime ==
  /\ resolving = None \/ expiring = {}
  /\ \A c \in expiring : blocked[c] # None

LEMMA NextOwed ==
  NoNegativeTimeout =>
    (IInv /\ OneAtATime /\ OneReplyPerCommand /\ [Next]_vars
       => OneAtATime' /\ OneReplyPerCommand')
<1> SUFFICES ASSUME NoNegativeTimeout, IInv, OneAtATime, OneReplyPerCommand, [Next]_vars
             PROVE  OneAtATime' /\ OneReplyPerCommand'
  OBVIOUS
<1> USE DEF MaySend, Sends, Idle
<1>1. /\ owed \in [Client -> Int]
      /\ blocked \in [Client -> BlockInfo \cup {None}]
      /\ waiters \in [Key -> Seq(Client)]
      /\ resolving \in Key \cup {None}
      /\ expiring \subseteq Client
      /\ Patient \subseteq Client
  BY BlockingInputs DEF IInv, TypeOK, LoopTypeOK
<1>2. ASSUME up' => up, UNCHANGED <<owed, blocked, resolving, expiring>>
      PROVE  OneAtATime' /\ OneReplyPerCommand'
  BY <1>2 DEF OneAtATime, OneReplyPerCommand
<1>3. ASSUME up, NEW c \in Client, blocked[c] # None,
             blocked' = [blocked EXCEPT ![c] = None],
             owed' = [owed EXCEPT ![c] = @ - 1]
      PROVE  OneReplyPerCommand'
  BY <1>1, <1>3 DEF OneReplyPerCommand
<1>4. ASSUME NEW c \in Client, Loop(c)
      PROVE  OneAtATime' /\ OneReplyPerCommand'
  BY <1>2, <1>4
     DEF Loop, Accept, Receive, HangUp, ProtocolError, ReaderRaises, EndOfBatch, blockVars
<1>5. ASSUME NEW c \in Client, TimeOut(c)
      PROVE  OneAtATime' /\ OneReplyPerCommand'
  <2>1. blocked[c] # None
    BY <1>5 DEF TimeOut, OneAtATime
  <2>2. OneReplyPerCommand'
    BY <1>3, <1>5, <2>1 DEF TimeOut, Unblock
  <2>3. OneAtATime'
    BY <1>1, <1>5 DEF TimeOut, Unblock, OneAtATime
  <2> QED
    BY <2>2, <2>3
<1>6. ASSUME NEW c \in Client, NEW cmd \in Workload, Stateless(c, cmd)
      PROVE  OneAtATime' /\ OneReplyPerCommand'
  <2>1. OneAtATime'
    BY <1>6 DEF Stateless, OneAtATime
  <2>2. ASSUME up'
        PROVE  Answer(c, 1) /\ up /\ blocked' = blocked
    BY <1>6, <2>2 DEF Stateless, Direct
  <2>3. ASSUME up'
        PROVE  owed' = owed
    BY <1>1, <2>2, <2>3 DEF Answer
  <2> QED
    BY <2>1, <2>2, <2>3 DEF OneReplyPerCommand
<1>7. ASSUME NEW c \in Client, NEW keys \in KeyLists, NEW t \in Timeouts, Blpop(c, keys, t)
      PROVE  OneAtATime' /\ OneReplyPerCommand'
  <2>1. CASE t = None
    BY <1>7, <2>1 DEF Blpop, BlpopNotFloat, blockVars, OneAtATime, OneReplyPerCommand
  <2>2. CASE t # None /\ BlpopAnswered(c, keys, t)
    <3>1. Complaints(t) = 0
      BY <2>2, BlockingInputs DEF NoNegativeTimeout, Complaints
    <3>2. owed' = owed
      BY <1>1, <2>2, <3>1 DEF BlpopAnswered, Answer
    <3> QED
      BY <1>2, <2>2, <3>2 DEF BlpopAnswered, blockVars
  <2>3. CASE t # None /\ BlpopWaits(c, keys, t)
    <3> DEFINE info == [keys |-> keys, deadline |-> IF t = 0 THEN None ELSE now + t]
    <3>1. Complaints(t) = 0 /\ t \in Int /\ now \in Nat
      BY <2>3, BlockingInputs DEF NoNegativeTimeout, Complaints, IInv, TypeOK, LoopTypeOK
    <3>2. info \in BlockInfo /\ info # None
      BY <3>1, NoneIsNoInfo DEF BlockInfo
    <3>3. /\ owed' = [owed EXCEPT ![c] = @ + 1]
          /\ blocked' = [blocked EXCEPT ![c] = info]
          /\ UNCHANGED <<up, resolving, expiring>>
          /\ up /\ expiring = {}
          /\ c \in Patient => blocked[c] = None
      BY <1>1, <2>3, <3>1 DEF BlpopWaits, Block, Answer
    <3> HIDE DEF info
    <3>4. OneAtATime'
      BY <3>3 DEF OneAtATime
    <3>5. ASSUME NEW e \in Patient
          PROVE  owed'[e] = IF blocked'[e] = None THEN 0 ELSE 1
      BY <1>1, <3>2, <3>3 DEF OneReplyPerCommand
    <3> QED
      BY <3>4, <3>5 DEF OneReplyPerCommand
  <2> QED
    BY <1>7, <2>1, <2>2, <2>3 DEF Blpop
<1>8. CASE ServeWaiter
  <2> DEFINE c == Head(waiters[resolving])
  <2>1. c \in Client
    <3>1. resolving \in Key /\ waiters[resolving] \in Seq(Client)
      BY <1>1, <1>8 DEF ServeWaiter
    <3> QED
      BY <1>8, <3>1 DEF ServeWaiter
  <2>2. /\ up /\ blocked[c] # None /\ resolving # None
        /\ blocked' = [blocked EXCEPT ![c] = None]
        /\ owed' = [owed EXCEPT ![c] = @ - 1]
        /\ UNCHANGED <<up, resolving, expiring>>
    BY <1>8 DEF ServeWaiter, Unblock
  <2> HIDE DEF c
  <2>3. OneReplyPerCommand'
    BY <1>3, <2>1, <2>2
  <2>4. OneAtATime'
    BY <2>2 DEF OneAtATime
  <2> QED
    BY <2>3, <2>4
<1>9. CASE SkipWaiter \/ ResolveRaises
  BY <1>2, <1>9 DEF SkipWaiter, ResolveRaises, loopVars, blockVars
<1>10. CASE Resolved
  BY <1>10 DEF Resolved, OneAtATime, OneReplyPerCommand
<1>11. CASE Sweep
  BY <1>11 DEF Sweep, TimedOut, loopVars, OneAtATime, OneReplyPerCommand
<1>12. CASE (Tick /\ UNCHANGED blockVars) \/ Ended \/ UNCHANGED vars
  BY <1>2, <1>12 DEF Tick, Ended, vars, loopVars, blockVars
<1> QED
  BY <1>4, <1>5, <1>6, <1>7, <1>8, <1>9, <1>10, <1>11, <1>12 DEF Next

(* A client that waits for its reply is owed one, and no client more, if   *)
(* no timeout is negative (connection_state.py:359-473).                   *)
THEOREM CommandsAreAnsweredOnce ==
  ASSUME NoNegativeTimeout
  PROVE  Spec => []OneReplyPerCommand
<1>1. Init => OneAtATime /\ OneReplyPerCommand
  BY BlockingInputs DEF Init, LoopInit, OneAtATime, OneReplyPerCommand
<1>2. IInv /\ OneAtATime /\ OneReplyPerCommand /\ [Next]_vars
        => OneAtATime' /\ OneReplyPerCommand'
  BY NextOwed
<1> QED
  BY <1>1, <1>2, Invariance, PTL DEF Spec

-----------------------------------------------------------------------------
(* Who is served first.  Only clients that may not block a second time are *)
(* certain to stand once in a queue, and in the order of the dict.         *)

QueuesAreOrdered ==
  \A k \in Key :
    /\ \A c \in Patient : c \in ToSet(waiters[k]) => k \in KeysOf(c)
    /\ \A c \in Patient : ~Before(waiters[k], c, c)
    /\ \A c, d \in Patient : Before(waiters[k], c, d) => Before(order, c, d)

DictIsOrdered ==
  \A c \in Client : /\ c \in ToSet(order) <=> blocked[c] # None
                    /\ ~Before(order, c, c)

Orderly == QueuesAreOrdered /\ DictIsOrdered

LEMMA InitOrderly == Init => Orderly
<1> SUFFICES ASSUME Init
             PROVE  Orderly
  OBVIOUS
<1>1. \A x, y : x \notin ToSet(<<>>) /\ ~Before(<<>>, x, y)
  BY DEF ToSet, Before
<1> QED
  BY <1>1 DEF Init, Orderly, QueuesAreOrdered, DictIsOrdered

LEMMA BlockIsOrderly ==
  ASSUME IInv, Orderly, NEW c \in Client, NEW keys \in KeyLists,
         NEW deadline \in Int \cup {None},
         Block(c, keys, deadline), c \in Patient => blocked[c] = None
  PROVE  Orderly'
<1> DEFINE info == [keys |-> keys, deadline |-> deadline]
<1>1. /\ info # None
      /\ blocked' = [blocked EXCEPT ![c] = info]
      /\ order' = IF c \in ToSet(order) THEN order ELSE Append(order, c)
      /\ waiters' = [k \in Key |-> IF k \in ToSet(keys) THEN Append(waiters[k], c)
                                                       ELSE waiters[k]]
  BY NoneIsNoInfo DEF Block, BlockInfo
<1>2. /\ order \in Seq(Client) /\ Patient \subseteq Client
      /\ \A k \in Key : waiters[k] \in Seq(Client)
  BY BlockingInputs DEF IInv, TypeOK
<1>3. /\ blocked'[c] # None
      /\ KeysOf(c)' = ToSet(keys)
      /\ \A e \in Client : e # c => /\ blocked'[e] = blocked[e]
                                    /\ KeysOf(e)' = KeysOf(e)
  <2>1. blocked'[c] = info /\ \A e \in Client : e # c => blocked'[e] = blocked[e]
    BY <1>1 DEF IInv, TypeOK
  <2> QED
    BY <1>1, <2>1 DEF KeysOf
<1>4. c \in Patient => \A k \in Key : c \notin ToSet(waiters[k])
  BY DEF Orderly, QueuesAreOrdered, KeysOf
<1> HIDE DEF info
<1>5. DictIsOrdered'
  <2>1. CASE c \in ToSet(order)
    BY <1>1, <1>3, <2>1 DEF Orderly, DictIsOrdered
  <2>2. CASE c \notin ToSet(order)
    <3>1. /\ ToSet(order') = ToSet(order) \cup {c}
          /\ \A x, y : Before(order', x, y) =>
                         Before(order, x, y) \/ (x \in ToSet(order) /\ y = c)
      BY <1>1, <1>2, <2>2, AppendIsLast
    <3> QED
      BY <1>3, <2>2, <3>1 DEF Orderly, DictIsOrdered
  <2> QED
    BY <2>1, <2>2
<1>6. /\ \A x, y : Before(order, x, y) => Before(order', x, y)
      /\ c \in Patient => \A x \in ToSet(order) : Before(order', x, c)
  <2>1. c \in Patient => c \notin ToSet(order)
    BY DEF Orderly, DictIsOrdered
  <2> QED
    BY <1>1, <1>2, <2>1, AppendIsLast
<1>7. ASSUME NEW k \in Key
      PROVE  /\ \A e \in Patient : e \in ToSet(waiters'[k]) => k \in KeysOf(e)'
             /\ \A e \in Patient : ~Before(waiters'[k], e, e)
             /\ \A e, d \in Patient : Before(waiters'[k], e, d) => Before(order', e, d)
  <2>1. /\ \A e \in Patient : e \in ToSet(waiters[k]) =>
                                k \in KeysOf(e) /\ e # c /\ e \in ToSet(order)
        /\ \A e \in Patient : ~Before(waiters[k], e, e)
        /\ \A e, d \in Patient : Before(waiters[k], e, d) => Before(order', e, d)
    BY <1>2, <1>4, <1>6 DEF Orderly, QueuesAreOrdered, DictIsOrdered, KeysOf
  <2>2. CASE k \notin ToSet(keys)
    BY <1>1, <1>2, <1>3, <2>1, <2>2
  <2>3. CASE k \in ToSet(keys)
    <3>1. waiters'[k] = Append(waiters[k], c)
      BY <1>1, <2>3
    <3>2. /\ ToSet(waiters'[k]) = ToSet(waiters[k]) \cup {c}
          /\ \A x, y : Before(waiters'[k], x, y) =>
                         Before(waiters[k], x, y) \/ (x \in ToSet(waiters[k]) /\ y = c)
      BY <1>2, <3>1, AppendIsLast
    <3> QED
      BY <1>2, <1>3, <1>6, <2>1, <2>3, <3>2
  <2> QED
    BY <2>2, <2>3
<1> QED
  BY <1>5, <1>7 DEF Orderly, QueuesAreOrdered

LEMMA UnblockIsOrderly ==
  ASSUME IInv, Orderly, NEW c \in Client, NEW queues \in [Key -> Seq(Client)],
         Unblock(c, queues),
         \A k \in Key : /\ ToSet(queues[k]) \subseteq ToSet(waiters[k])
                        /\ \A x, y : Before(queues[k], x, y) => Before(waiters[k], x, y)
  PROVE  Orderly'
<1>1. order \in Seq(Client) /\ Patient \subseteq Client
  BY BlockingInputs DEF IInv, TypeOK
<1>2. /\ blocked'[c] = None
      /\ \A e \in Client : e # c => blocked'[e] = blocked[e] /\ KeysOf(e)' = KeysOf(e)
  BY DEF Unblock, KeysOf, IInv, TypeOK
<1>3. /\ ToSet(order') \subseteq ToSet(order)
      /\ c \notin ToSet(order')
      /\ \A e \in Client : e \in ToSet(order) /\ e # c => e \in ToSet(order')
      /\ \A x, y : Before(order', x, y) => Before(order, x, y)
      /\ \A x, y : Before(order, x, y) /\ x # c /\ y # c => Before(order', x, y)
  <2>1. order' = RemoveFirst(order, c)
    BY DEF Unblock
  <2>2. ~Before(order, c, c)
    BY DEF Orderly, DictIsOrdered
  <2> QED
    BY <1>1, <2>1, <2>2, RemoveFirstKeepsOthers, RemoveFirstKeepsOrder
<1>4. DictIsOrdered'
  BY <1>2, <1>3 DEF Orderly, DictIsOrdered
<1>5. ASSUME NEW k \in Key
      PROVE  /\ \A e \in Patient : e \in ToSet(waiters'[k]) => k \in KeysOf(e)'
             /\ \A e \in Patient : ~Before(waiters'[k], e, e)
             /\ \A e, d \in Patient : Before(waiters'[k], e, d) => Before(order', e, d)
  <2>1. /\ waiters'[k] = IF k \in KeysOf(c) THEN RemoveFirst(queues[k], c) ELSE queues[k]
        /\ waiters'[k] \in Seq(Client)
    BY RemoveFirstKeepsOthers DEF Unblock, Unqueued
  <2>2. /\ ToSet(waiters'[k]) \subseteq ToSet(waiters[k])
        /\ \A x, y : Before(waiters'[k], x, y) => Before(waiters[k], x, y)
        /\ k \in KeysOf(c) /\ c \in ToSet(waiters'[k]) => Before(waiters[k], c, c)
    BY <2>1, RemoveFirstKeepsOrder
  <2>3. c \in Patient => c \notin ToSet(waiters'[k])
    BY <2>2 DEF Orderly, QueuesAreOrdered
  <2>4. ASSUME NEW e \in Patient, e \in ToSet(waiters'[k])
        PROVE  e # c /\ k \in KeysOf(e)'
    BY <1>1, <1>2, <2>2, <2>3, <2>4 DEF Orderly, QueuesAreOrdered
  <2>5. ASSUME NEW e \in Patient, NEW d \in Patient, Before(waiters'[k], e, d)
        PROVE  Before(order', e, d)
    <3>1. e # c /\ d # c
      BY <2>1, <2>4, <2>5, BeforeNeedsBoth
    <3> QED
      BY <1>3, <2>2, <2>5, <3>1 DEF Orderly, QueuesAreOrdered
  <2> QED
    BY <2>2, <2>4, <2>5 DEF Orderly, QueuesAreOrdered
<1> QED
  BY <1>4, <1>5 DEF Orderly, QueuesAreOrdered

(* What the queues are when the resolved key's head has left.              *)
LEMMA HeadLeavesInOrder ==
  ASSUME TypeOK, resolving # None, waiters[resolving] # <<>>
  PROVE  LET queues == [waiters EXCEPT ![resolving] = Tail(@)]
         IN  \A k \in Key :
               /\ ToSet(queues[k]) \subseteq ToSet(waiters[k])
               /\ \A x, y : Before(queues[k], x, y) => Before(waiters[k], x, y)
<1> DEFINE queues == [waiters EXCEPT ![resolving] = Tail(@)]
<1>1. resolving \in Key /\ waiters[resolving] \in Seq(Client)
  BY DEF TypeOK
<1>2. /\ queues[resolving] = Tail(waiters[resolving])
      /\ \A k \in Key : k # resolving => queues[k] = waiters[k]
  BY <1>1 DEF TypeOK
<1> HIDE DEF queues
<1>3. /\ ToSet(queues[resolving]) \subseteq ToSet(waiters[resolving])
      /\ \A x, y : Before(queues[resolving], x, y) => Before(waiters[resolving], x, y)
  BY <1>1, <1>2, TailKeepsOrder
<1> QED
  BY <1>2, <1>3 DEF queues

LEMMA NextOrderly == IInv /\ Orderly /\ [Next]_vars => Orderly'
<1> SUFFICES ASSUME IInv, Orderly, [Next]_vars
             PROVE  Orderly'
  OBVIOUS
<1>1. ASSUME UNCHANGED <<blocked, order, waiters>>
      PROVE  Orderly'
  BY <1>1 DEF Orderly, QueuesAreOrdered, DictIsOrdered, KeysOf
<1>2. ASSUME NEW c \in Client, Loop(c)
      PROVE  Orderly'
  BY <1>1, <1>2 DEF Loop, blockVars
<1>3. ASSUME NEW c \in Client, TimeOut(c)
      PROVE  Orderly'
  BY <1>3, UnblockIsOrderly DEF TimeOut, IInv, TypeOK
<1>4. ASSUME NEW c \in Client, NEW cmd \in Workload, Stateless(c, cmd)
      PROVE  Orderly'
  BY <1>1, <1>4 DEF Stateless
<1>5. ASSUME NEW c \in Client, NEW keys \in KeyLists, NEW t \in Timeouts, Blpop(c, keys, t)
      PROVE  Orderly'
  <2>1. CASE BlpopNotFloat(c, keys) \/ BlpopAnswered(c, keys, t)
    BY <1>1, <2>1 DEF BlpopNotFloat, BlpopAnswered, blockVars
  <2>2. CASE t # None /\ BlpopWaits(c, keys, t)
    <3> DEFINE deadline == IF t = 0 THEN None ELSE now + t
    <3>1. deadline \in Int \cup {None}
      BY <2>2, BlockingInputs DEF IInv, TypeOK, LoopTypeOK
    <3>2. Block(c, keys, deadline) /\ (c \in Patient => blocked[c] = None)
      BY <2>2 DEF BlpopWaits, MaySend
    <3> HIDE DEF deadline
    <3> QED
      BY <3>1, <3>2, BlockIsOrderly
  <2> QED
    BY <1>5, <2>1, <2>2 DEF Blpop
<1>6. CASE ServeWaiter
  <2> DEFINE c == Head(waiters[resolving])
             queues == [waiters EXCEPT ![resolving] = Tail(@)]
  <2>1. c \in Client /\ queues \in [Key -> Seq(Client)] /\ Unblock(c, queues)
    BY <1>6, HeadLeaves DEF ServeWaiter, IInv
  <2>2. \A k \in Key :
          /\ ToSet(queues[k]) \subseteq ToSet(waiters[k])
          /\ \A x, y : Before(queues[k], x, y) => Before(waiters[k], x, y)
    BY <1>6, HeadLeavesInOrder DEF ServeWaiter, IInv
  <2> HIDE DEF c, queues
  <2> QED
    BY <2>1, <2>2, UnblockIsOrderly
<1>7. CASE SkipWaiter
  <2>1. UNCHANGED <<blocked, order>> /\ \A c \in Client : KeysOf(c)' = KeysOf(c)
    BY <1>7 DEF SkipWaiter, KeysOf
  <2>2. \A k \in Key :
          /\ ToSet(waiters'[k]) \subseteq ToSet(waiters[k])
          /\ \A x, y : Before(waiters'[k], x, y) => Before(waiters[k], x, y)
    BY <1>7, HeadLeavesInOrder DEF SkipWaiter, IInv
  <2>3. Patient \subseteq Client
    BY BlockingInputs
  <2> QED
    BY <2>1, <2>2, <2>3 DEF Orderly, QueuesAreOrdered, DictIsOrdered
<1>8. CASE Resolved \/ ResolveRaises \/ Sweep
  BY <1>1, <1>8 DEF Resolved, ResolveRaises, Sweep, blockVars
<1>9. CASE (Tick /\ UNCHANGED blockVars) \/ Ended \/ UNCHANGED vars
  BY <1>1, <1>9 DEF Ended, vars, blockVars
<1> QED
  BY <1>2, <1>3, <1>4, <1>5, <1>6, <1>7, <1>8, <1>9 DEF Next

(* Among patient clients an element goes to the one that has waited        *)
(* longest for its key, whatever queues it left and joined in between      *)
(* (connection_state.py:394-412).                                          *)
THEOREM OldestIsServed == Spec => OldestFirst
<1> DEFINE Served(c) ==
             /\ resolving \in KeysOf(c)
             /\ \A i, j \in DOMAIN order :
                  /\ order[j] = c
                  /\ order[i] \in Patient
                  /\ resolving \in KeysOf(order[i])
                  => j <= i
           Fair == \A c \in Patient :
                     ServeWaiter /\ blocked[c] # None /\ blocked'[c] = None => Served(c)
<1>1. IInv /\ Orderly => Fair
  <2> SUFFICES ASSUME IInv, Orderly, NEW c \in Patient, ServeWaiter,
                      blocked[c] # None, blocked'[c] = None
               PROVE  Served(c)
    OBVIOUS
  <2>1. /\ resolving \in Key /\ waiters[resolving] \in Seq(Client)
        /\ waiters[resolving] # <<>>
        /\ order \in Seq(Client) /\ c \in Client /\ Patient \subseteq Client
    BY BlockingInputs DEF ServeWaiter, IInv, TypeOK
  <2>2. c = Head(waiters[resolving])
    <3>1. blocked' = [blocked EXCEPT ![Head(waiters[resolving])] = None]
      BY DEF ServeWaiter, Unblock
    <3> QED
      BY <2>1, <3>1 DEF IInv, TypeOK
  <2>3. resolving \in KeysOf(c)
    <3>1. c \in ToSet(waiters[resolving])
      BY <2>1, <2>2 DEF ToSet
    <3> QED
      BY <2>1, <3>1 DEF Orderly, QueuesAreOrdered
  <2>4. ASSUME NEW i \in DOMAIN order, NEW j \in DOMAIN order, order[j] = c,
               order[i] \in Patient, resolving \in KeysOf(order[i])
        PROVE  j <= i
    <3> DEFINE d == order[i]
    <3>1. i \in 1..Len(order) /\ j \in 1..Len(order) /\ Len(order) \in Nat
      BY <2>1
    <3>2. CASE d = c
      BY <2>1, <2>4, <3>1, <3>2 DEF Orderly, DictIsOrdered, Before
    <3>3. CASE d # c
      <4>1. d \in ToSet(waiters[resolving])
        BY <2>1, <2>4 DEF IInv, Registered
      <4>2. Before(waiters[resolving], c, d)
        BY <2>1, <2>2, <3>3, <4>1, TailKeepsOrder
      <4>3. Before(order, c, d)
        BY <2>1, <2>4, <4>2 DEF Orderly, QueuesAreOrdered
      <4>4. ~(i < j)
        <5>1. ASSUME i < j
              PROVE  FALSE
          <6>1. PICK m, n \in 1..Len(order) : m < n /\ order[m] = c /\ order[n] = d
            BY <4>3 DEF Before
          <6>2. m = j /\ n = i
            BY <2>1, <2>4, <3>1, <6>1 DEF Orderly, DictIsOrdered, Before
          <6> QED
            BY <3>1, <5>1, <6>1, <6>2
        <5> QED
          BY <5>1
      <4> QED
        BY <3>1, <4>4
    <3> QED
      BY <3>2, <3>3
  <2> QED
    BY <2>3, <2>4
<1>2. [Fair]_vars <=> [\A c \in Patient :
        ServeWaiter /\ blocked[c] # None /\ blocked'[c] = None =>
          /\ resolving \in KeysOf(c)
          /\ \A i, j \in DOMAIN order :
               /\ order[j] = c
               /\ order[i] \in Patient
               /\ resolving \in KeysOf(order[i])
               => j <= i]_vars
  OBVIOUS
<1> HIDE DEF Fair
<1> QED
  BY <1>1, <1>2, InitOrderly, NextOrderly, Invariance, PTL DEF Spec, OldestFirst

-----------------------------------------------------------------------------
(* Queues and dict, restricted to the patient clients that wait for a key, *)
(* are the same sequence: same members, same order, nobody twice.          *)

OnlyKeeps(s, S) ==
  /\ ToSet(Only(s, S)) = ToSet(s) \cap S
  /\ \A x, y : Before(Only(s, S), x, y) <=> x \in S /\ y \in S /\ Before(s, x, y)

LEMMA OnlyKeepsOrder ==
  ASSUME NEW A, NEW S, NEW s \in Seq(A)
  PROVE  OnlyKeeps(s, S)
<1> DEFINE P == {u \in Seq(A) : OnlyKeeps(u, S)}
<1>1. <<>> \in P
  <2>1. \A x, y : x \notin ToSet(<<>>) /\ ~Before(<<>>, x, y)
    BY DEF ToSet, Before
  <2> QED
    BY <2>1, OnlyOfEmpty, EmptySeq DEF OnlyKeeps
<1>2. ASSUME NEW u \in P, NEW e \in A
      PROVE  Append(u, e) \in P
  <2> DEFINE v == Append(u, e)
             o == Only(u, S)
             w == Only(v, S)
  <2>1. u \in Seq(A) /\ v \in Seq(A) /\ o \in Seq(A)
    BY OnlyType, AppendProperties
  <2>2. /\ ToSet(o) = ToSet(u) \cap S
        /\ \A x, y : Before(o, x, y) <=> x \in S /\ y \in S /\ Before(u, x, y)
    BY DEF OnlyKeeps
  <2>3. /\ ToSet(v) = ToSet(u) \cup {e}
        /\ \A x, y : Before(v, x, y) <=> Before(u, x, y) \/ (x \in ToSet(u) /\ y = e)
    BY <2>1, AppendIsLast
  <2>4. w = IF e \in S THEN Append(o, e) ELSE o
    BY <2>1, OnlyOfAppend
  <2>5. /\ ToSet(Append(o, e)) = ToSet(o) \cup {e}
        /\ \A x, y : Before(Append(o, e), x, y)
                       <=> Before(o, x, y) \/ (x \in ToSet(o) /\ y = e)
    BY <2>1, AppendIsLast
  <2> HIDE DEF v, o, w
  <2>6. CASE e \in S
    <3>1. ToSet(w) = ToSet(v) \cap S
      BY <2>2, <2>3, <2>4, <2>5, <2>6
    <3>2. \A x, y : Before(w, x, y) <=> x \in S /\ y \in S /\ Before(v, x, y)
      BY <2>2, <2>3, <2>4, <2>5, <2>6
    <3> QED
      BY <2>1, <3>1, <3>2 DEF OnlyKeeps, v, w
  <2>7. CASE e \notin S
    <3>1. ToSet(w) = ToSet(v) \cap S
      BY <2>2, <2>3, <2>4, <2>7
    <3>2. \A x, y : Before(w, x, y) <=> x \in S /\ y \in S /\ Before(v, x, y)
      BY <2>2, <2>3, <2>4, <2>7
    <3> QED
      BY <2>1, <3>1, <3>2 DEF OnlyKeeps, v, w
  <2> QED
    BY <2>6, <2>7
<1>3. P = Seq(A)
  <2>1. \A u \in P : \A e \in A : Append(u, e) \in P
    BY <1>2
  <2> P \in SUBSET Seq(A)
    OBVIOUS
  <2> HIDE DEF P
  <2> QED
    BY <1>1, <2>1, SeqInduction
<1> QED
  BY <1>3

(* Nobody stands twice in u, and u orders its members as v does.           *)
SameOrder(u, v) ==
  /\ ToSet(u) = ToSet(v)
  /\ \A x : ~Before(u, x, x) /\ ~Before(v, x, x)
  /\ \A x, y : Before(u, x, y) => Before(v, x, y)

LEMMA OrderDecides ==
  ASSUME NEW A, NEW s \in Seq(A), NEW t \in Seq(A), SameOrder(s, t)
  PROVE  s = t
<1> DEFINE P == {u \in Seq(A) : \A v \in Seq(A) : SameOrder(u, v) => u = v}
<1>1. <<>> \in P
  <2>1. ASSUME NEW v \in Seq(A), SameOrder(<<>>, v)
        PROVE  v = <<>>
    <3>1. ToSet(<<>>) = {}
      BY DEF ToSet
    <3>2. \A i \in 1..Len(v) : v[i] \in ToSet(v)
      BY InToSet
    <3>3. \A i \in 1..Len(v) : FALSE
      BY <2>1, <3>1, <3>2 DEF SameOrder
    <3> QED
      BY <3>3, EmptySeq, LenProperties
  <2> QED
    BY <2>1, EmptySeq
<1>2. ASSUME NEW u \in P, NEW e \in A, NEW v \in Seq(A), SameOrder(Append(u, e), v)
      PROVE  Append(u, e) = v
  <2> DEFINE a == Append(u, e)
  <2>1. /\ ToSet(a) = ToSet(u) \cup {e}
        /\ \A x, y : Before(a, x, y) <=> Before(u, x, y) \/ (x \in ToSet(u) /\ y = e)
    BY AppendIsLast
  <2> HIDE DEF a
  <2>2. /\ ToSet(a) = ToSet(v)
        /\ \A x : ~Before(a, x, x) /\ ~Before(v, x, x)
        /\ \A x, y : Before(a, x, y) => Before(v, x, y)
    BY <1>2 DEF SameOrder, a
  <2>3. v # <<>>
    <3>1. ToSet(<<>>) = {}
      BY DEF ToSet
    <3> QED
      BY <2>1, <2>2, <3>1
  <2>4. PICK w \in Seq(A), f \in A : v = Append(w, f)
    BY <2>3, SequenceEmptyOrAppend
  <2>5. /\ ToSet(v) = ToSet(w) \cup {f}
        /\ \A x, y : Before(v, x, y) <=> Before(w, x, y) \/ (x \in ToSet(w) /\ y = f)
    BY <2>4, AppendIsLast
  <2>6. f = e
    <3>1. ASSUME f # e
          PROVE  FALSE
      <4>1. Before(v, f, e)
        BY <2>1, <2>2, <2>5, <3>1
      <4>2. Before(w, f, e)
        BY <2>5, <3>1, <4>1
      <4>3. f \in ToSet(w)
        BY <4>2, BeforeNeedsBoth
      <4> QED
        BY <2>2, <2>5, <4>3
    <3> QED
      BY <3>1
  <2>7. e \notin ToSet(u) /\ e \notin ToSet(w)
    BY <2>1, <2>2, <2>5, <2>6
  <2>8. ToSet(u) = ToSet(w)
    <3>1. ToSet(u) \cup {e} = ToSet(w) \cup {e}
      BY <2>1, <2>2, <2>5, <2>6
    <3>2. \A x : x \in ToSet(u) <=> x \in ToSet(w)
      BY <2>7, <3>1, Zenon
    <3> QED
      BY <3>2, Zenon
  <2>9. \A x : ~Before(u, x, x) /\ ~Before(w, x, x)
    BY <2>1, <2>2, <2>5
  <2>10. ASSUME NEW x, NEW y, Before(u, x, y)
         PROVE  Before(w, x, y)
    <3>1. y \in ToSet(u)
      BY <2>10, BeforeNeedsBoth
    <3>2. Before(v, x, y)
      BY <2>1, <2>2, <2>10
    <3> QED
      BY <2>5, <2>6, <2>7, <3>1, <3>2
  <2>11. SameOrder(u, w)
    BY <2>8, <2>9, <2>10 DEF SameOrder
  <2> QED
    BY <2>4, <2>6, <2>11
<1>3. P = Seq(A)
  <2>1. \A u \in P : \A e \in A : Append(u, e) \in P
    BY <1>2, AppendProperties
  <2> P \in SUBSET Seq(A)
    OBVIOUS
  <2> HIDE DEF P
  <2> QED
    BY <1>1, <2>1, SeqInduction
<1> QED
  BY <1>3

(* Each queue holds exactly the patient clients that wait for its key, in  *)
(* the order of the dict (connection_state.py:389-392, 435-449).           *)
THEOREM QueuesAgreeWithDict == Spec => []QueuesAgree
<1>1. IInv /\ Orderly => QueuesAgree
  <2> SUFFICES ASSUME IInv, Orderly, NEW k \in Key
               PROVE  Only(waiters[k], Patient) = Only(order, {c \in Patient : k \in KeysOf(c)})
    BY DEF QueuesAgree
  <2> DEFINE S == {c \in Patient : k \in KeysOf(c)}
             u == Only(waiters[k], Patient)
             v == Only(order, S)
  <2>1. /\ waiters[k] \in Seq(Client) /\ order \in Seq(Client)
        /\ Patient \subseteq Client /\ S \subseteq Patient
    BY BlockingInputs DEF IInv, TypeOK
  <2>2. u \in Seq(Client) /\ v \in Seq(Client)
    BY <2>1, OnlyType
  <2>3. OnlyKeeps(waiters[k], Patient) /\ OnlyKeeps(order, S)
    BY <2>1, OnlyKeepsOrder
  <2>4. \A c \in Patient : c \in ToSet(waiters[k]) <=> c \in S
    BY <2>1 DEF IInv, Registered, Orderly, QueuesAreOrdered
  <2>5. \A c \in S : c \in ToSet(order)
    BY <2>1 DEF KeysOf, Orderly, DictIsOrdered
  <2>6. \A x \in Patient : ~Before(waiters[k], x, x) /\ ~Before(order, x, x)
    BY <2>1 DEF Orderly, QueuesAreOrdered, DictIsOrdered
  <2>7. \A x, y \in Patient : Before(waiters[k], x, y) => Before(order, x, y)
    BY DEF Orderly, QueuesAreOrdered
  <2> HIDE DEF S, u, v
  <2>8. ToSet(u) = ToSet(v)
    BY <2>1, <2>3, <2>4, <2>5 DEF OnlyKeeps, u, v
  <2>9. \A x : ~Before(u, x, x) /\ ~Before(v, x, x)
    BY <2>1, <2>3, <2>6 DEF OnlyKeeps, u, v
  <2>10. ASSUME NEW x, NEW y, Before(u, x, y)
         PROVE  Before(v, x, y)
    <3>1. x \in Patient /\ y \in Patient /\ Before(waiters[k], x, y)
      BY <2>3, <2>10 DEF OnlyKeeps, u
    <3>2. x \in S /\ y \in S
      BY <2>1, <2>4, <3>1, BeforeNeedsBoth
    <3>3. Before(order, x, y)
      BY <2>7, <3>1
    <3> QED
      BY <2>3, <3>2, <3>3 DEF OnlyKeeps, v
  <2>11. u = v
    BY <2>2, <2>8, <2>9, <2>10, OrderDecides DEF SameOrder
  <2> QED
    BY <2>11 DEF u, v, S
<1> QED
  BY <1>1, InitOrderly, NextOrderly, Invariance, PTL DEF Spec

=============================================================================
