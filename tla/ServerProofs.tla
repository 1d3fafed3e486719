------------------------------ MODULE ServerProofs ------------------------------
(***************************************************************************)
(* The two properties of the composed server: EXEC's watch sees every      *)
(* change, and a resolved push leaves nobody waiting for an element.       *)
(*                                                                         *)
(* Blocking and Transactions are instantiated by Server, so each brings    *)
(* its own copies of the keyspace's operators.  The first part shows that  *)
(* the copies are the operators KeyspaceProofs speaks of.  The inductive   *)
(* invariant is then that of Transactions without its order of steps (a    *)
(* change shows in the version), and that of Blocking without its claim    *)
(* about lists: an EXEC may leave a list that clients wait for, but every  *)
(* blocked client still stands in the queue of each of its keys.           *)
(***************************************************************************)
EXTENDS Server, KeyspaceProofs

-----------------------------------------------------------------------------
(* The copies of the keyspace's operators.                                 *)

LEMMA TxnsMethods ==
  ASSUME NEW d, NEW t, NEW k, NEW a, NEW b, NEW e
  PROVE  /\ Txns!Lookup(d, t, k) = Lookup(d, t, k)
         /\ Txns!GetVersion(d, t, k) = GetVersion(d, t, k)
         /\ Txns!PurgeKeys(d, t, a) = PurgeKeys(d, t, a)
         /\ Txns!Set(d, t, k, a, b) = Set(d, t, k, a, b)
         /\ Txns!Get(d, t, k) = Get(d, t, k)
         /\ Txns!Delete(d, t, k) = Delete(d, t, k)
         /\ Txns!Incr(d, t, k) = Incr(d, t, k)
         /\ Txns!GetType(d, t, k) = GetType(d, t, k)
         /\ Txns!RPush(d, t, k, a) = RPush(d, t, k, a)
         /\ Txns!LPush(d, t, k, a) = LPush(d, t, k, a)
         /\ Txns!LLen(d, t, k) = LLen(d, t, k)
         /\ Txns!LRange(d, t, k, a, b) = LRange(d, t, k, a, b)
         /\ Txns!LPop(d, t, k, a) = LPop(d, t, k, a)
         /\ Txns!RPop(d, t, k, a) = RPop(d, t, k, a)
         /\ Txns!XAdd(d, t, k, a, b) = XAdd(d, t, k, a, b)
         /\ Txns!XRange(d, t, k, a, b, e) = XRange(d, t, k, a, b, e)
         /\ Txns!XRead(d, t, k, a, b) = XRead(d, t, k, a, b)
         /\ Txns!ZAdd(d, k, a) = ZAdd(d, k, a)
         /\ Txns!ZScore(d, k, a) = ZScore(d, k, a)
         /\ Txns!ZRange(d, k, a, b) = ZRange(d, k, a, b)
         /\ Txns!ZRank(d, k, a) = ZRank(d, k, a)
         /\ Txns!ZCard(d, k) = ZCard(d, k)
         /\ Txns!ZRem(d, k, a) = ZRem(d, k, a)
<1> USE DEF Txns!Purge, Purge, Txns!Expired, Expired, Txns!Bump, Bump, Txns!Result,
            Result, Txns!Number, Number, Txns!Error, Error, Txns!Nil, Nil, Txns!Raise,
            Raise, Txns!Bulk, Bulk, Txns!Array, Array, Txns!WrongType, WrongType,
            Txns!Items, Items, Txns!ListOf, ListOf
<1>1. /\ Txns!Lookup(d, t, k) = Lookup(d, t, k)
      /\ Txns!GetVersion(d, t, k) = GetVersion(d, t, k)
      /\ Txns!PurgeKeys(d, t, a) = PurgeKeys(d, t, a)
  BY DEF Txns!Lookup, Lookup, Txns!GetVersion, GetVersion, Txns!PurgeKeys, PurgeKeys
<1>2. /\ Txns!Set(d, t, k, a, b) = Set(d, t, k, a, b)
      /\ Txns!Get(d, t, k) = Get(d, t, k)
      /\ Txns!Delete(d, t, k) = Delete(d, t, k)
      /\ Txns!Incr(d, t, k) = Incr(d, t, k)
      /\ Txns!GetType(d, t, k) = GetType(d, t, k)
  BY DEF Txns!Set, Set, Txns!Get, Get, Txns!Delete, Delete, Txns!Incr, Incr,
         Txns!GetType, GetType, Txns!StrOf, StrOf, Txns!TypeName, TypeName,
         Txns!HasType, HasType, Txns!Ok, Ok
<1>3. /\ Txns!RPush(d, t, k, a) = RPush(d, t, k, a)
      /\ Txns!LPush(d, t, k, a) = LPush(d, t, k, a)
      /\ Txns!LLen(d, t, k) = LLen(d, t, k)
  BY DEF Txns!RPush, RPush, Txns!LPush, LPush, Txns!LLen, LLen, Txns!Reverse, Reverse
<1>4. Txns!LRange(d, t, k, a, b) = LRange(d, t, k, a, b)
  BY DEF Txns!LRange, LRange, Txns!RangeOfList, RangeOfList, Txns!Slice, Slice
<1>5. Txns!LPop(d, t, k, a) = LPop(d, t, k, a)
  BY DEF Txns!LPop, LPop, Txns!Lesser, Lesser, Txns!Replace, Replace
<1>6. Txns!RPop(d, t, k, a) = RPop(d, t, k, a)
  BY DEF Txns!RPop, RPop, Txns!Lesser, Lesser, Txns!Replace, Replace, Txns!Front,
         Front, Txns!Last, Last, Txns!Reverse, Reverse
<1>7. Txns!XAdd(d, t, k, a, b) = XAdd(d, t, k, a, b)
  BY DEF Txns!XAdd, XAdd, Txns!NewStream, NewStream, Txns!RequestedId, RequestedId,
         Txns!NextSeq, NextSeq, Txns!Accepted, Accepted, Txns!IdLess, IdLess,
         Txns!IdLeq, IdLeq, Txns!EntryId, EntryId
<1>8. /\ Txns!XRange(d, t, k, a, b, e) = XRange(d, t, k, a, b, e)
      /\ Txns!XRead(d, t, k, a, b) = XRead(d, t, k, a, b)
  <2>1. \A s, S : Txns!Only(s, S) = Only(s, S)
    BY DEF Txns!Only, Only, Txns!FoldLeft, FoldLeft, Txns!MapThenFoldSet, MapThenFoldSet,
           Txns!Max, Max
  <2>2. \A s, S, n : Txns!Trips(s, S, n) <=> Trips(s, S, n)
    BY <2>1 DEF Txns!Trips, Trips, Txns!Readable, Readable
  <2>3. \A s, n : Txns!Limited(s, n) = Limited(s, n)
    BY DEF Txns!Limited, Limited, Txns!Lesser, Lesser
  <2>4. \A s, l : Txns!Newer(s, l) = Newer(s, l)
    BY DEF Txns!Newer, Newer, Txns!ToSet, ToSet, Txns!IdLeq, IdLeq
  <2>5. \A s, l, n : Txns!After(s, l, n) = After(s, l, n)
    BY <2>1, <2>3, <2>4 DEF Txns!After, After
  <2>6. Txns!Purge(d, t, k) = Purge(d, t, k) /\ \A x : Txns!Entries(x, k) = Entries(x, k)
    BY DEF Txns!Entries, Entries
  <2>7. Txns!XRange(d, t, k, a, b, e) = XRange(d, t, k, a, b, e)
    <3> DEFINE p == Purge(d, t, k)
               es == Entries(p, k)
               A == {id \in Txns!ToSet(es) : Txns!IdLeq(a, id) /\ Txns!IdLeq(id, b)}
               B == {id \in ToSet(es) : IdLeq(a, id) /\ IdLeq(id, b)}
               Outcome(trips, page) ==
                 IF WrongType(p.data[k], "stream") \/ trips THEN Result(p, Raise)
                 ELSE Result(p, Array(page))
    <3>1. A = B
      BY DEF Txns!ToSet, ToSet, Txns!IdLeq, IdLeq
    <3>2. XRange(d, t, k, a, b, e) = Outcome(Trips(es, B, e), Limited(Only(es, B), e))
      BY DEF XRange
    <3>3. Txns!XRange(d, t, k, a, b, e)
            = Outcome(Txns!Trips(es, A, e), Txns!Limited(Txns!Only(es, A), e))
      BY <2>6 DEF Txns!XRange
    <3> HIDE DEF A, B, es, Outcome
    <3> QED
      BY <2>1, <2>2, <2>3, <3>1, <3>2, <3>3
  <2>8. Txns!XRead(d, t, k, a, b) = XRead(d, t, k, a, b)
    <3> DEFINE p == Purge(d, t, k)
               es == Entries(p, k)
               Outcome(trips, page) ==
                 IF WrongType(p.data[k], "stream") THEN Result(p, Error)
                 ELSE IF trips THEN Result(p, Raise)
                 ELSE Result(p, Array(page))
    <3>1. XRead(d, t, k, a, b) = Outcome(Trips(es, Newer(es, a), b), After(es, a, b))
      BY DEF XRead
    <3>2. Txns!XRead(d, t, k, a, b)
            = Outcome(Txns!Trips(es, Txns!Newer(es, a), b), Txns!After(es, a, b))
      BY <2>6 DEF Txns!XRead
    <3> HIDE DEF es, Outcome
    <3> QED
      BY <2>2, <2>4, <2>5, <3>1, <3>2
  <2> QED
    BY <2>7, <2>8
<1>9. /\ Txns!ZAdd(d, k, a) = ZAdd(d, k, a)
      /\ Txns!ZScore(d, k, a) = ZScore(d, k, a)
  BY DEF Txns!ZAdd, ZAdd, Txns!ZScore, ZScore, Txns!Members, Members, Txns!MembersOf,
         MembersOf, Txns!SelectLastInSeq, SelectLastInSeq, Txns!Max, Max,
         Txns!Cardinality, Cardinality
<1>10. /\ Txns!ZRange(d, k, a, b) = ZRange(d, k, a, b)
       /\ Txns!ZRank(d, k, a) = ZRank(d, k, a)
  BY DEF Txns!ZRange, ZRange, Txns!ZRank, ZRank, Txns!Members, Members,
         Txns!MembersOf, MembersOf, Txns!RangeOfZSet, RangeOfZSet, Txns!Ranked,
         Ranked, Txns!Rank, Rank, Txns!ZBefore, ZBefore, Txns!Slice, Slice,
         Txns!Cardinality, Cardinality
<1>11. /\ Txns!ZCard(d, k) = ZCard(d, k)
       /\ Txns!ZRem(d, k, a) = ZRem(d, k, a)
  BY DEF Txns!ZCard, ZCard, Txns!ZRem, ZRem, Txns!Members, Members, Txns!MembersOf,
         MembersOf, Txns!Cardinality, Cardinality
<1> QED
  BY <1>1, <1>2, <1>3, <1>4, <1>5, <1>6, <1>7, <1>8, <1>9, <1>10, <1>11

LEMMA TxnsDispatch ==
  ASSUME NEW d, NEW t, NEW c
  PROVE  Txns!Dispatch(d, t, c) = Dispatch(d, t, c)
BY TxnsMethods, ZenonT(60)
   DEF Txns!Dispatch, Dispatch, Txns!XAddCommand, XAddCommand, Txns!Result, Result,
       Txns!Names, Names, Txns!GetKeys, GetKeys, Txns!Ok, Ok, Txns!Raise, Raise,
       Txns!Error, Error

LEMMA BlocksMethods ==
  ASSUME NEW d, NEW t, NEW k, NEW a, NEW b, NEW e
  PROVE  /\ Blocks!Lookup(d, t, k) = Lookup(d, t, k)
         /\ Blocks!GetVersion(d, t, k) = GetVersion(d, t, k)
         /\ Blocks!PurgeKeys(d, t, a) = PurgeKeys(d, t, a)
         /\ Blocks!Set(d, t, k, a, b) = Set(d, t, k, a, b)
         /\ Blocks!Get(d, t, k) = Get(d, t, k)
         /\ Blocks!Delete(d, t, k) = Delete(d, t, k)
         /\ Blocks!Incr(d, t, k) = Incr(d, t, k)
         /\ Blocks!GetType(d, t, k) = GetType(d, t, k)
         /\ Blocks!RPush(d, t, k, a) = RPush(d, t, k, a)
         /\ Blocks!LPush(d, t, k, a) = LPush(d, t, k, a)
         /\ Blocks!LLen(d, t, k) = LLen(d, t, k)
         /\ Blocks!LRange(d, t, k, a, b) = LRange(d, t, k, a, b)
         /\ Blocks!LPop(d, t, k, a) = LPop(d, t, k, a)
         /\ Blocks!RPop(d, t, k, a) = RPop(d, t, k, a)
         /\ Blocks!XAdd(d, t, k, a, b) = XAdd(d, t, k, a, b)
         /\ Blocks!XRange(d, t, k, a, b, e) = XRange(d, t, k, a, b, e)
         /\ Blocks!XRead(d, t, k, a, b) = XRead(d, t, k, a, b)
         /\ Blocks!ZAdd(d, k, a) = ZAdd(d, k, a)
         /\ Blocks!ZScore(d, k, a) = ZScore(d, k, a)
         /\ Blocks!ZRange(d, k, a, b) = ZRange(d, k, a, b)
         /\ Blocks!ZRank(d, k, a) = ZRank(d, k, a)
         /\ Blocks!ZCard(d, k) = ZCard(d, k)
         /\ Blocks!ZRem(d, k, a) = ZRem(d, k, a)
<1> USE DEF Blocks!Purge, Purge, Blocks!Expired, Expired, Blocks!Bump, Bump,
            Blocks!Result, Result, Blocks!Number, Number, Blocks!Error, Error,
            Blocks!Nil, Nil, Blocks!Raise, Raise, Blocks!Bulk, Bulk, Blocks!Array,
            Array, Blocks!WrongType, WrongType, Blocks!Items, Items, Blocks!ListOf,
            ListOf
<1>1. /\ Blocks!Lookup(d, t, k) = Lookup(d, t, k)
      /\ Blocks!GetVersion(d, t, k) = GetVersion(d, t, k)
      /\ Blocks!PurgeKeys(d, t, a) = PurgeKeys(d, t, a)
  BY DEF Blocks!Lookup, Lookup, Blocks!GetVersion, GetVersion, Blocks!PurgeKeys,
         PurgeKeys
<1>2. /\ Blocks!Set(d, t, k, a, b) = Set(d, t, k, a, b)
      /\ Blocks!Get(d, t, k) = Get(d, t, k)
      /\ Blocks!Delete(d, t, k) = Delete(d, t, k)
      /\ Blocks!Incr(d, t, k) = Incr(d, t, k)
      /\ Blocks!GetType(d, t, k) = GetType(d, t, k)
  BY DEF Blocks!Set, Set, Blocks!Get, Get, Blocks!Delete, Delete, Blocks!Incr, Incr,
         Blocks!GetType, GetType, Blocks!StrOf, StrOf, Blocks!TypeName, TypeName,
         Blocks!HasType, HasType, Blocks!Ok, Ok
<1>3. /\ Blocks!RPush(d, t, k, a) = RPush(d, t, k, a)
      /\ Blocks!LPush(d, t, k, a) = LPush(d, t, k, a)
      /\ Blocks!LLen(d, t, k) = LLen(d, t, k)
  BY DEF Blocks!RPush, RPush, Blocks!LPush, LPush, Blocks!LLen, LLen, Blocks!Reverse,
         Reverse
<1>4. Blocks!LRange(d, t, k, a, b) = LRange(d, t, k, a, b)
  BY DEF Blocks!LRange, LRange, Blocks!RangeOfList, RangeOfList, Blocks!Slice, Slice
<1>5. Blocks!LPop(d, t, k, a) = LPop(d, t, k, a)
  BY DEF Blocks!LPop, LPop, Blocks!Lesser, Lesser, Blocks!Replace, Replace
<1>6. Blocks!RPop(d, t, k, a) = RPop(d, t, k, a)
  BY DEF Blocks!RPop, RPop, Blocks!Lesser, Lesser, Blocks!Replace, Replace,
         Blocks!Front, Front, Blocks!Last, Last, Blocks!Reverse, Reverse
<1>7. Blocks!XAdd(d, t, k, a, b) = XAdd(d, t, k, a, b)
  BY DEF Blocks!XAdd, XAdd, Blocks!NewStream, NewStream, Blocks!RequestedId,
         RequestedId, Blocks!NextSeq, NextSeq, Blocks!Accepted, Accepted,
         Blocks!IdLess, IdLess, Blocks!IdLeq, IdLeq, Blocks!EntryId, EntryId
<1>8. /\ Blocks!XRange(d, t, k, a, b, e) = XRange(d, t, k, a, b, e)
      /\ Blocks!XRead(d, t, k, a, b) = XRead(d, t, k, a, b)
  <2>1. \A s, S : Blocks!Only(s, S) = Only(s, S)
    BY DEF Blocks!Only, Only, Blocks!FoldLeft, FoldLeft, Blocks!MapThenFoldSet, MapThenFoldSet,
           Blocks!Max, Max
  <2>2. \A s, S, n : Blocks!Trips(s, S, n) <=> Trips(s, S, n)
    BY <2>1 DEF Blocks!Trips, Trips, Blocks!Readable, Readable
  <2>3. \A s, n : Blocks!Limited(s, n) = Limited(s, n)
    BY DEF Blocks!Limited, Limited, Blocks!Lesser, Lesser
  <2>4. \A s, l : Blocks!Newer(s, l) = Newer(s, l)
    BY DEF Blocks!Newer, Newer, Blocks!ToSet, ToSet, Blocks!IdLeq, IdLeq
  <2>5. \A s, l, n : Blocks!After(s, l, n) = After(s, l, n)
    BY <2>1, <2>3, <2>4 DEF Blocks!After, After
  <2>6. Blocks!Purge(d, t, k) = Purge(d, t, k) /\ \A x : Blocks!Entries(x, k) = Entries(x, k)
    BY DEF Blocks!Entries, Entries
  <2>7. Blocks!XRange(d, t, k, a, b, e) = XRange(d, t, k, a, b, e)
    <3> DEFINE p == Purge(d, t, k)
               es == Entries(p, k)
               A == {id \in Blocks!ToSet(es) : Blocks!IdLeq(a, id) /\ Blocks!IdLeq(id, b)}
               B == {id \in ToSet(es) : IdLeq(a, id) /\ IdLeq(id, b)}
               Outcome(trips, page) ==
                 IF WrongType(p.data[k], "stream") \/ trips THEN Result(p, Raise)
                 ELSE Result(p, Array(page))
    <3>1. A = B
      BY DEF Blocks!ToSet, ToSet, Blocks!IdLeq, IdLeq
    <3>2. XRange(d, t, k, a, b, e) = Outcome(Trips(es, B, e), Limited(Only(es, B), e))
      BY DEF XRange
    <3>3. Blocks!XRange(d, t, k, a, b, e)
            = Outcome(Blocks!Trips(es, A, e), Blocks!Limited(Blocks!Only(es, A), e))
      BY <2>6 DEF Blocks!XRange
    <3> HIDE DEF A, B, es, Outcome
    <3> QED
      BY <2>1, <2>2, <2>3, <3>1, <3>2, <3>3
  <2>8. Blocks!XRead(d, t, k, a, b) = XRead(d, t, k, a, b)
    <3> DEFINE p == Purge(d, t, k)
               es == Entries(p, k)
               Outcome(trips, page) ==
                 IF WrongType(p.data[k], "stream") THEN Result(p, Error)
                 ELSE IF trips THEN Result(p, Raise)
                 ELSE Result(p, Array(page))
    <3>1. XRead(d, t, k, a, b) = Outcome(Trips(es, Newer(es, a), b), After(es, a, b))
      BY DEF XRead
    <3>2. Blocks!XRead(d, t, k, a, b)
            = Outcome(Blocks!Trips(es, Blocks!Newer(es, a), b), Blocks!After(es, a, b))
      BY <2>6 DEF Blocks!XRead
    <3> HIDE DEF es, Outcome
    <3> QED
      BY <2>2, <2>4, <2>5, <3>1, <3>2
  <2> QED
    BY <2>7, <2>8
<1>9. /\ Blocks!ZAdd(d, k, a) = ZAdd(d, k, a)
      /\ Blocks!ZScore(d, k, a) = ZScore(d, k, a)
  BY DEF Blocks!ZAdd, ZAdd, Blocks!ZScore, ZScore, Blocks!Members, Members,
         Blocks!MembersOf, MembersOf, Blocks!SelectLastInSeq, SelectLastInSeq,
         Blocks!Max, Max, Blocks!Cardinality, Cardinality
<1>10. /\ Blocks!ZRange(d, k, a, b) = ZRange(d, k, a, b)
       /\ Blocks!ZRank(d, k, a) = ZRank(d, k, a)
  BY DEF Blocks!ZRange, ZRange, Blocks!ZRank, ZRank, Blocks!Members, Members,
         Blocks!MembersOf, MembersOf, Blocks!RangeOfZSet, RangeOfZSet, Blocks!Ranked,
         Ranked, Blocks!Rank, Rank, Blocks!ZBefore, ZBefore, Blocks!Slice, Slice,
         Blocks!Cardinality, Cardinality
<1>11. /\ Blocks!ZCard(d, k) = ZCard(d, k)
       /\ Blocks!ZRem(d, k, a) = ZRem(d, k, a)
  BY DEF Blocks!ZCard, ZCard, Blocks!ZRem, ZRem, Blocks!Members, Members,
         Blocks!MembersOf, MembersOf, Blocks!Cardinality, Cardinality
<1> QED
  BY <1>1, <1>2, <1>3, <1>4, <1>5, <1>6, <1>7, <1>8, <1>9, <1>10, <1>11

LEMMA BlocksDispatch ==
  ASSUME NEW d, NEW t, NEW c
  PROVE  Blocks!Dispatch(d, t, c) = Dispatch(d, t, c)
BY BlocksMethods, ZenonT(60)
   DEF Blocks!Dispatch, Dispatch, Blocks!XAddCommand, XAddCommand, Blocks!Result, Result,
       Blocks!Names, Names, Blocks!GetKeys, GetKeys, Blocks!Ok, Ok, Blocks!Raise, Raise,
       Blocks!Error, Error

LEMMA BlocksQueues ==
  /\ \A q : Blocks!ToSet(q) = ToSet(q)
  /\ \A q, c : Blocks!RemoveFirst(q, c) = RemoveFirst(q, c)
BY DEF Blocks!ToSet, ToSet, Blocks!RemoveFirst, RemoveFirst, Blocks!RemoveAt, RemoveAt,
       Blocks!SelectInSeq, SelectInSeq, Blocks!Min, Min

LEMMA SameCommands == Txns!Command = Command
BY DEF Txns!Command, Command, Txns!Keyed, Keyed, Txns!Str, Str, Txns!StreamId, StreamId,
       Txns!StartId, StartId, Txns!StreamEnd, StreamEnd

LEMMA SameStores == Txns!DB = DB /\ Blocks!DB = DB
<1>1. Txns!Value = Value /\ Blocks!Value = Value
  BY DEF Txns!Value, Value, Blocks!Value, Txns!StrValue, StrValue, Blocks!StrValue,
         Txns!ListValue, ListValue, Blocks!ListValue, Txns!StreamValue, StreamValue,
         Blocks!StreamValue, Txns!Str, Str, Blocks!Str, Txns!StreamId, StreamId,
         Blocks!StreamId
<1> QED
  BY <1>1 DEF Txns!DB, DB, Blocks!DB, Txns!ZSet, ZSet, Blocks!ZSet

(* The types of the server, with the operators of this module.             *)
BlockTypes ==
  /\ blocked \in [Client -> Blocks!BlockInfo \cup {None}]
  /\ order \in Seq(Client)
  /\ waiters \in [Key -> Seq(Client)]
  /\ resolving \in Key \cup {None}
  /\ expiring \subseteq Client

TxnTypes ==
  /\ txn \in [Client -> Txns!Txn \cup {None}]
  /\ watched \in [Client -> [Key -> Nat \cup {None}]]
  /\ running \in Client \cup {None}
  /\ pending \in Seq(Command)
  /\ fate \in [Client -> [Key -> {"kept", "written", "changed"}]]

Typed == LoopTypeOK /\ BlockTypes /\ TxnTypes

LEMMA TypesAgree == Typed <=> TypeOK
BY SameStores, SameCommands
   DEF Typed, BlockTypes, TxnTypes, TypeOK, LoopTypeOK, Blocks!TypeOK, Blocks!LoopTypeOK,
       Txns!TypeOK, Txns!LoopTypeOK

(* The history of watched keys, with the operators of this module.         *)
Remember(popped, named) ==
  fate' = [c \in Client |-> [k \in Key |->
    IF watched'[c][k] = None THEN "kept"
    ELSE IF Lookup(db', now', k) # Lookup(db, now, k) /\ k \notin popped THEN "changed"
    ELSE IF k \in popped \cup named /\ fate[c][k] = "kept" THEN "written"
    ELSE fate[c][k]]]

LEMMA SameHistory ==
  ASSUME NEW popped, NEW named
  PROVE  Txns!Remember(popped, named) <=> Remember(popped, named)
BY DEF Txns!Remember, Remember, Txns!Lookup, Lookup, Txns!Purge, Purge, Txns!Expired,
       Expired, Txns!Bump, Bump

LEMMA SameRemembering ==
  ASSUME NEW cmd, Txns!RememberCommand(cmd)
  PROVE  \E named : Remember(Popped(cmd), named)
BY SameHistory DEF Txns!RememberCommand, Txns!PlainPop, PlainPop, Popped

-----------------------------------------------------------------------------
(* The inductive invariant.                                                *)

(* While the process runs, a change is visible in the version.             *)
Noticed ==
  up => \A c \in Client, k \in Key :
          watched[c][k] # None /\ fate[c][k] = "changed"
            => GetVersion(db, now, k) > watched[c][k]

(* What the watches of Transactions rest on.                               *)
Guarded == Txns!WatchedNotAhead /\ Noticed

IInv ==
  /\ Typed
  /\ WellFormed(db)
  /\ Guarded
  /\ Blocks!Registered

LEMMA InitIInv == Init => IInv
<1> SUFFICES ASSUME Init
             PROVE  IInv
  OBVIOUS
<1>1. WellFormed(db)
  BY EmptyIsWellFormed DEF Init, Txns!Init, Txns!LoopInit, Txns!EmptyDB, EmptyDB
<1>2. <<>> \in Seq(Client) /\ <<>> \in Seq(Command)
  OBVIOUS
<1>3. Typed
  BY <1>1, <1>2 DEF Init, Txns!Init, Txns!LoopInit, Blocks!Init, Typed, BlockTypes, TxnTypes, LoopTypeOK,
                    Txns!NoWatch, WellFormed
<1>4. Guarded
  BY DEF Init, Txns!Init, Txns!NoWatch, Guarded, Txns!WatchedNotAhead, Noticed
<1>5. Blocks!Registered
  BY DEF Init, Blocks!Init, Blocks!Registered, Blocks!KeysOf
<1> QED
  BY <1>1, <1>3, <1>4, <1>5 DEF IInv

-----------------------------------------------------------------------------
(* What steps do to the keyspace, as WATCH and EXEC see it: no version     *)
(* goes back, and whatever changes outside quiet shows.                    *)

ShowsIn(d, t, e, u, quiet) ==
  \A k \in Key :
    /\ e.versions[k] >= d.versions[k]
    /\ GetVersion(e, u, k) >= GetVersion(d, t, k)
    /\ Lookup(e, u, k) # Lookup(d, t, k) /\ k \notin quiet
         => GetVersion(e, u, k) > d.versions[k]

Shows(quiet) ==
  /\ WellFormed(db')
  /\ \A k \in Key : db'.versions[k] >= db.versions[k]
  /\ up' => ShowsIn(db, now, db', now', quiet)

LEMMA FollowingShows ==
  ASSUME NEW d, WellFormed(d), NEW e, WellFormed(e), NEW t \in Nat, NEW quiet,
         \A k \in Key : Follows(d, e, k, quiet)
  PROVE  ShowsIn(d, t, e, t, quiet)
<1>1. \A k \in Key : d.versions[k] \in Nat /\ e.versions[k] \in Nat
  BY DEF WellFormed, DB
<1>2. \A k \in Key : e.versions[k] >= d.versions[k]
  BY <1>1 DEF Follows, Same
<1> QED
  BY <1>2, FollowsShows DEF ShowsIn

LEMMA CommandShows ==
  ASSUME WellFormed(db), now \in Nat, NEW cmd \in Command,
         db' = Dispatch(db, now, cmd).db,
         up' = (Dispatch(db, now, cmd).reply # Raise),
         now' = now
  PROVE  Shows(Popped(cmd))
<1>1. WellFormed(db')
  BY DispatchKeeps
<1>2. \A k \in Key : db'.versions[k] >= db.versions[k]
  BY VersionsNeverFall
<1>3. ASSUME up'
      PROVE  ShowsIn(db, now, db', now', Popped(cmd))
  <2>1. \A k \in Key : Follows(db, db', k, Popped(cmd))
    BY <1>3, DispatchFollows
  <2> QED
    BY <1>1, <2>1, FollowingShows
<1> QED
  BY <1>1, <1>2, <1>3 DEF Shows

(* A pop without a count.                                                  *)
LEMMA PopShows ==
  ASSUME NEW d, WellFormed(d), NEW t \in Nat, NEW k \in Key
  PROVE  /\ WellFormed(LPop(d, t, k, None).db)
         /\ ShowsIn(d, t, LPop(d, t, k, None).db, t, {k})
<1> DEFINE e == LPop(d, t, k, None).db
<1>1. WellFormed(e)
  BY LPopKeeps
<1>2. Tracks(d, e, k) \/ PopsQuietly(d, e, k)
  BY PlainPopTracks
<1>3. \A j \in Key : Follows(d, e, j, {k})
  BY <1>2 DEF Tracks, PopsQuietly, SameBut, Follows
<1> HIDE DEF e
<1>4. ShowsIn(d, t, e, t, {k})
  BY <1>1, <1>3, FollowingShows
<1> QED
  BY <1>1, <1>4 DEF e

LEMMA PurgeShows ==
  ASSUME NEW d, WellFormed(d), NEW t \in Nat, NEW S
  PROVE  /\ WellFormed(PurgeKeys(d, t, S))
         /\ ShowsIn(d, t, PurgeKeys(d, t, S), t, {})
<1>1. \A k \in Key : GetVersion(d, t, k) \in Nat
  BY Purged
<1> QED
  BY <1>1, PurgeKeysShows DEF ShowsIn

(* BLPOP purges the keys it looks at, and pops from the last of them.      *)
LEMMA PurgeAndPopShow ==
  ASSUME NEW d, WellFormed(d), NEW t \in Nat, NEW S, NEW k \in Key
  PROVE  LET e == LPop(PurgeKeys(d, t, S), t, k, None).db
         IN  WellFormed(e) /\ ShowsIn(d, t, e, t, {k})
<1> DEFINE p == PurgeKeys(d, t, S)
           e == LPop(p, t, k, None).db
<1>1. /\ WellFormed(p)
      /\ \A j \in Key : /\ GetVersion(p, t, j) = GetVersion(d, t, j)
                        /\ Lookup(p, t, j) = Lookup(d, t, j)
                        /\ p.versions[j] >= d.versions[j]
  BY PurgeKeysShows
<1> HIDE DEF p
<1>2. WellFormed(e) /\ ShowsIn(p, t, e, t, {k})
  BY <1>1, PopShows
<1> HIDE DEF e
<1>3. \A j \in Key : /\ d.versions[j] \in Nat /\ p.versions[j] \in Nat /\ e.versions[j] \in Nat
                     /\ GetVersion(e, t, j) \in Nat
  BY <1>1, <1>2, Purged
<1>4. ShowsIn(d, t, e, t, {k})
  <2> SUFFICES ASSUME NEW j \in Key
               PROVE  /\ e.versions[j] >= d.versions[j]
                      /\ GetVersion(e, t, j) >= GetVersion(d, t, j)
                      /\ Lookup(e, t, j) # Lookup(d, t, j) /\ j \notin {k}
                           => GetVersion(e, t, j) > d.versions[j]
    BY DEF ShowsIn
  <2>1. /\ e.versions[j] >= p.versions[j]
        /\ GetVersion(e, t, j) >= GetVersion(p, t, j)
        /\ Lookup(e, t, j) # Lookup(p, t, j) /\ j \notin {k}
             => GetVersion(e, t, j) > p.versions[j]
    BY <1>2 DEF ShowsIn
  <2> QED
    BY <1>1, <1>3, <2>1
<1> QED
  BY <1>2, <1>4 DEF e, p

LEMMA TickingShows ==
  ASSUME WellFormed(db), now \in Nat, db' = db, now' = now + 1
  PROVE  Shows({})
<1>1. \A k \in Key : db.versions[k] \in Nat
  BY DEF WellFormed, DB
<1> QED
  BY <1>1, TickShows DEF Shows, ShowsIn

LEMMA StillShows ==
  ASSUME WellFormed(db), now \in Nat, db' = db, now' = now
  PROVE  Shows({})
<1>1. \A k \in Key : db.versions[k] \in Nat /\ GetVersion(db, now, k) \in Nat
  BY Purged
<1> QED
  BY <1>1 DEF Shows, ShowsIn

(* The steps that only forget watches, and remember what they changed.     *)
LEMMA RememberKeeps ==
  ASSUME IInv, NEW popped, NEW named, NEW quiet, quiet \subseteq popped,
         Remember(popped, named), Shows(quiet), up' => up,
         \A c \in Client, k \in Key :
           watched'[c][k] # None => watched'[c][k] = watched[c][k]
  PROVE  /\ fate' \in [Client -> [Key -> {"kept", "written", "changed"}]]
         /\ Guarded'
<1> USE DEF IInv, Guarded
<1>1. fate' \in [Client -> [Key -> {"kept", "written", "changed"}]]
  BY DEF Remember, Typed, TxnTypes
<1>2. \A c \in Client, k \in Key : /\ db.versions[k] \in Nat
                                   /\ db'.versions[k] \in Nat
                                   /\ GetVersion(db, now, k) \in Nat
                                   /\ GetVersion(db', now', k) \in Nat
                                   /\ watched[c][k] # None => watched[c][k] \in Nat
  BY Purged DEF Typed, TxnTypes, LoopTypeOK, DB, Shows
<1>3. Txns!WatchedNotAhead'
  BY <1>2 DEF Txns!WatchedNotAhead, Shows
<1>4. ASSUME up', NEW c \in Client, NEW k \in Key,
             watched'[c][k] # None, fate'[c][k] = "changed"
      PROVE  GetVersion(db', now', k) > watched'[c][k]
  <2>1. watched[c][k] # None /\ watched'[c][k] = watched[c][k]
    BY <1>4
  <2>2. watched[c][k] <= db.versions[k]
    BY <2>1 DEF Txns!WatchedNotAhead
  <2>3. \/ Lookup(db', now', k) # Lookup(db, now, k) /\ k \notin popped
        \/ fate[c][k] = "changed"
    BY <1>4 DEF Remember
  <2>4. CASE Lookup(db', now', k) # Lookup(db, now, k) /\ k \notin popped
    <3>1. GetVersion(db', now', k) > db.versions[k]
      BY <1>4, <2>4 DEF Shows, ShowsIn
    <3> QED
      BY <1>2, <2>1, <2>2, <3>1
  <2>5. CASE fate[c][k] = "changed"
    <3>1. GetVersion(db, now, k) > watched[c][k]
      BY <1>4, <2>1, <2>5 DEF Noticed
    <3>2. GetVersion(db', now', k) >= GetVersion(db, now, k)
      BY <1>4 DEF Shows, ShowsIn
    <3> QED
      BY <1>2, <2>1, <3>1, <3>2
  <2> QED
    BY <2>3, <2>4, <2>5
<1>5. Noticed'
  BY <1>4 DEF Noticed
<1> QED
  BY <1>1, <1>3, <1>5

-----------------------------------------------------------------------------
(* What the steps have in common.                                          *)

(* A write closes some connections.                                        *)
LEMMA WriteType ==
  ASSUME conn \in [Client -> {"new", "open", "closed"}], NEW S,
         Blocks!Write(S) \/ Txns!Write(S)
  PROVE  conn' \in [Client -> {"new", "open", "closed"}]
BY DEF Blocks!Write, Txns!Write

(* A handler that answers closes its own at most, and counts.              *)
LEMMA AnswerType ==
  ASSUME LoopTypeOK, NEW c \in Client, NEW n \in Int, Blocks!Answer(c, n) \/ Txns!Answer(c, n)
  PROVE  /\ conn' \in [Client -> {"new", "open", "closed"}]
         /\ owed' \in [Client -> Int]
BY WriteType DEF Blocks!Answer, Txns!Answer, LoopTypeOK

LEMMA KeysOfType ==
  ASSUME BlockTypes, NEW c \in Client
  PROVE  Blocks!KeysOf(c) \subseteq Key
<1>1. CASE blocked[c] = None
  BY <1>1 DEF Blocks!KeysOf
<1>2. CASE blocked[c] # None
  <2>1. blocked[c].keys \in Seq(Key)
    BY <1>2, ServerInputs DEF BlockTypes, Blocks!BlockInfo
  <2> QED
    BY <1>2, <2>1, BlocksQueues, ElementOfSeq DEF Blocks!KeysOf, ToSet
<1> QED
  BY <1>1, <1>2

(* Steps that leave the waiters alone.                                     *)
LEMMA WaitersAlone ==
  ASSUME BlockTypes, Blocks!Registered, UNCHANGED <<blocked, order, waiters>>,
         resolving' \in Key \cup {None}, expiring' \subseteq Client
  PROVE  BlockTypes' /\ Blocks!Registered'
BY DEF BlockTypes, Blocks!Registered, Blocks!KeysOf

(* Steps of Blocking leave transactions and watches alone, but for what    *)
(* happens to the keys.                                                    *)
LEMMA WatchesKept ==
  ASSUME IInv, NEW popped, NEW quiet, quiet \subseteq popped, TxnsKept(popped),
         Shows(quiet), up' => up
  PROVE  TxnTypes' /\ Guarded'
<1>1. Remember(popped, {}) /\ UNCHANGED <<txn, watched, running, pending>>
  BY SameHistory DEF TxnsKept
<1>2. fate' \in [Client -> [Key -> {"kept", "written", "changed"}]] /\ Guarded'
  BY <1>1, RememberKeeps
<1> QED
  BY <1>1, <1>2 DEF TxnTypes, IInv, Typed

(* Steps that leave the keyspace, the clock and the watches alone.         *)
LEMMA WatchesAlone ==
  ASSUME IInv, UNCHANGED <<db, now, watched, fate>>, up' => up,
         txn' \in [Client -> Txns!Txn \cup {None}],
         running' \in Client \cup {None},
         pending' \in Seq(Command)
  PROVE  TxnTypes' /\ WellFormed(db') /\ Guarded'
BY DEF IInv, Typed, TxnTypes, Guarded, Txns!WatchedNotAhead, Noticed

-----------------------------------------------------------------------------
(* BLPOP, pushes and the clients they serve.                               *)

(* A client leaves blocked_clients, after its place in one queue.          *)
LEMMA UnblockKeeps ==
  ASSUME IInv, NEW c \in Client, NEW queues \in [Key -> Seq(Client)],
         Blocks!Unblock(c, queues),
         \A k \in Key : \A x \in ToSet(waiters[k]) : x # c => x \in ToSet(queues[k]),
         UNCHANGED resolving, expiring' \subseteq Client
  PROVE  BlockTypes' /\ Blocks!Registered'
<1> USE DEF IInv, Typed
<1>1. blocked' \in [Client -> Blocks!BlockInfo \cup {None}]
  BY DEF Blocks!Unblock, BlockTypes
<1>2. order' \in Seq(Client)
  BY BlocksQueues, RemoveFirstKeepsOthers DEF Blocks!Unblock, BlockTypes
<1>3. waiters' = [k \in Key |-> IF k \in Blocks!KeysOf(c) THEN RemoveFirst(queues[k], c)
                                                         ELSE queues[k]]
  BY BlocksQueues DEF Blocks!Unblock, Blocks!Unqueued
<1>4. waiters' \in [Key -> Seq(Client)]
  BY <1>3, RemoveFirstKeepsOthers
<1>5. /\ Blocks!KeysOf(c)' = {}
      /\ \A e \in Client : e # c => Blocks!KeysOf(e)' = Blocks!KeysOf(e)
  BY DEF Blocks!Unblock, Blocks!KeysOf, BlockTypes
<1>6. ASSUME NEW e \in Client, NEW k \in Blocks!KeysOf(e)'
      PROVE  e \in ToSet(waiters'[k])
  <2>1. e # c /\ k \in Blocks!KeysOf(e) /\ k \in Key
    BY <1>5, <1>6, KeysOfType
  <2>2. e \in ToSet(waiters[k])
    BY <2>1, BlocksQueues DEF Blocks!Registered
  <2>3. e \in ToSet(queues[k]) /\ queues[k] \in Seq(Client)
    BY <2>1, <2>2
  <2>4. e \in ToSet(RemoveFirst(queues[k], c))
    BY <2>1, <2>3, RemoveFirstKeepsOthers
  <2> QED
    BY <1>3, <2>1, <2>3, <2>4
<1> QED
  BY <1>1, <1>2, <1>4, <1>6, BlocksQueues DEF Blocks!Registered, BlockTypes

(* A client joins the queue of each of its keys.                           *)
LEMMA BlockKeeps ==
  ASSUME IInv, NEW c \in Client, NEW keys \in KeyLists, NEW deadline \in Int \cup {None},
         Blocks!Block(c, keys, deadline), UNCHANGED <<resolving, expiring>>
  PROVE  BlockTypes' /\ Blocks!Registered'
<1> DEFINE info == [keys |-> keys, deadline |-> deadline]
<1> USE DEF IInv, Typed
<1>1. keys \in Seq(Key) /\ info \in Blocks!BlockInfo /\ info # None
  BY ServerInputs DEF Blocks!BlockInfo
<1>2. /\ blocked' = [blocked EXCEPT ![c] = info]
      /\ order' = IF c \in ToSet(order) THEN order ELSE Append(order, c)
      /\ waiters' = [k \in Key |-> IF k \in ToSet(keys) THEN Append(waiters[k], c)
                                                       ELSE waiters[k]]
  BY BlocksQueues DEF Blocks!Block
<1>3. /\ blocked' \in [Client -> Blocks!BlockInfo \cup {None}]
      /\ order' \in Seq(Client)
      /\ waiters' \in [Key -> Seq(Client)]
  BY <1>1, <1>2, AppendKeepsMembers DEF BlockTypes
<1>4. /\ Blocks!KeysOf(c)' = ToSet(keys)
      /\ \A e \in Client : e # c => Blocks!KeysOf(e)' = Blocks!KeysOf(e)
  <2>1. blocked'[c] = info /\ \A e \in Client : e # c => blocked'[e] = blocked[e]
    BY <1>2 DEF BlockTypes
  <2> QED
    BY <1>1, <2>1, BlocksQueues DEF Blocks!KeysOf
<1>5. ToSet(keys) \subseteq Key
  BY <1>1, ElementOfSeq DEF ToSet
<1>6. ASSUME NEW e \in Client, NEW k \in Blocks!KeysOf(e)'
      PROVE  e \in ToSet(waiters'[k])
  <2>1. k \in Key
    BY <1>4, <1>5, <1>6, KeysOfType
  <2>2. waiters[k] \in Seq(Client)
    BY <2>1 DEF BlockTypes
  <2>3. CASE k \in ToSet(keys)
    <3>1. e = c \/ e \in ToSet(waiters[k])
      BY <1>4, <1>6, BlocksQueues DEF Blocks!Registered
    <3> QED
      BY <1>2, <2>1, <2>2, <2>3, <3>1, AppendKeepsMembers
  <2>4. CASE k \notin ToSet(keys)
    <3>1. e \in ToSet(waiters[k])
      BY <1>4, <1>6, <2>4, BlocksQueues DEF Blocks!Registered
    <3> QED
      BY <1>2, <2>1, <2>4, <3>1
  <2> QED
    BY <2>3, <2>4
<1> QED
  BY <1>3, <1>6, BlocksQueues DEF Blocks!Registered, BlockTypes

(* The queue of the resolved key loses its head.                           *)
LEMMA HeadLeaves ==
  ASSUME BlockTypes, resolving # None, waiters[resolving] # <<>>
  PROVE  LET c == Head(waiters[resolving])
             queues == [waiters EXCEPT ![resolving] = Tail(@)]
         IN  /\ c \in Client
             /\ queues \in [Key -> Seq(Client)]
             /\ \A k \in Key : \A x \in ToSet(waiters[k]) : x # c => x \in ToSet(queues[k])
<1> DEFINE c == Head(waiters[resolving])
           queues == [waiters EXCEPT ![resolving] = Tail(@)]
<1>1. resolving \in Key /\ waiters[resolving] \in Seq(Client)
  BY DEF BlockTypes
<1>2. c \in Client /\ Tail(waiters[resolving]) \in Seq(Client)
  BY <1>1
<1>3. queues \in [Key -> Seq(Client)]
  BY <1>1, <1>2 DEF BlockTypes
<1>4. /\ queues[resolving] = Tail(waiters[resolving])
      /\ \A k \in Key : k # resolving => queues[k] = waiters[k]
  BY <1>1 DEF BlockTypes
<1>5. \A x \in ToSet(waiters[resolving]) : x # c => x \in ToSet(Tail(waiters[resolving]))
  BY <1>1, TailKeepsOthers
<1> HIDE DEF c, queues
<1>6. \A k \in Key : \A x \in ToSet(waiters[k]) : x # c => x \in ToSet(queues[k])
  BY <1>4, <1>5
<1> QED
  BY <1>2, <1>3, <1>6 DEF c, queues

(* A BLPOP whose timeout is no number ends the process.                    *)
LEMMA NotFloatKeeps ==
  ASSUME IInv, NEW c \in Client, NEW keys, Blocks!BlpopNotFloat(c, keys),
         TxnsKept(ToSet(keys))
  PROVE  IInv'
<1> USE DEF Blocks!BlpopNotFloat, IInv, Typed
<1>1. /\ conn' \in [Client -> {"new", "open", "closed"}]
      /\ owed' \in [Client -> Int]
  BY AnswerType
<1>2. Shows({})
  BY StillShows DEF LoopTypeOK
<1>3. TxnTypes' /\ Guarded'
  BY <1>2, WatchesKept
<1>4. BlockTypes' /\ Blocks!Registered'
  BY WaitersAlone DEF Blocks!blockVars, BlockTypes
<1> QED
  BY <1>1, <1>2, <1>3, <1>4 DEF LoopTypeOK, Shows

LEMMA FirstStopType ==
  ASSUME NEW keys \in KeyLists, \E i \in DOMAIN keys : Blocks!Stops(i, keys)
  PROVE  Blocks!FirstStop(keys) \in DOMAIN keys
<1>1. keys \in Seq(Key)
  BY ServerInputs
<1>2. LET I == {i \in 1..Len(keys) : Blocks!Stops(i, keys)}
      IN  \E i \in I : \A j \in I : i <= j
  <2> DEFINE I == {i \in 1..Len(keys) : Blocks!Stops(i, keys)}
  <2>1. I \subseteq Nat /\ I # {}
    BY <1>1
  <2> HIDE DEF I
  <2>2. \E i \in I : \A j \in I : i <= j
    BY <2>1, LeastNatural
  <2> QED
    BY <2>2 DEF I
<1>3. \E i \in DOMAIN keys :
        Blocks!Stops(i, keys) /\ \A j \in DOMAIN keys : Blocks!Stops(j, keys) => i <= j
  <2>1. DOMAIN keys = 1..Len(keys)
    BY <1>1, LenProperties
  <2> QED
    BY <1>2, <2>1, ZenonT(40)
<1> QED
  BY <1>3 DEF Blocks!FirstStop

LEMMA BlpopAnsweredKeeps ==
  ASSUME IInv, NEW c \in Client, NEW keys \in KeyLists, NEW t \in Int,
         Blocks!BlpopAnswered(c, keys, t), TxnsKept(ToSet(keys))
  PROVE  IInv'
<1> DEFINE i == Blocks!FirstStop(keys)
           S == {keys[j] : j \in 1..i}
<1> USE DEF IInv, Typed
<1>1. /\ conn' \in [Client -> {"new", "open", "closed"}]
      /\ owed' \in [Client -> Int]
  <2>1. Blocks!Complaints(t) + 1 \in Int
    BY DEF Blocks!Complaints
  <2> QED
    BY <2>1, AnswerType DEF Blocks!BlpopAnswered
<1>2. i \in DOMAIN keys
  BY FirstStopType DEF Blocks!BlpopAnswered
<1>3. keys[i] \in Key /\ keys[i] \in ToSet(keys)
  <2>1. keys \in Seq(Key)
    BY ServerInputs
  <2> QED
    BY <1>2, <2>1, ElementOfSeq DEF ToSet
<1>4. db' = LPop(PurgeKeys(db, now, S), now, keys[i], None).db
  BY BlocksMethods DEF Blocks!BlpopAnswered
<1>5. UNCHANGED <<now, up, turn>> /\ UNCHANGED <<blocked, order, waiters, resolving, expiring>>
  BY DEF Blocks!BlpopAnswered, Blocks!blockVars
<1> HIDE DEF i, S
<1>6. WellFormed(db') /\ ShowsIn(db, now, db', now, {keys[i]})
  BY <1>3, <1>4, PurgeAndPopShow DEF LoopTypeOK
<1>7. Shows({keys[i]})
  BY <1>5, <1>6 DEF Shows, ShowsIn
<1>8. TxnTypes' /\ Guarded'
  BY <1>3, <1>5, <1>7, WatchesKept
<1>9. BlockTypes' /\ Blocks!Registered'
  BY <1>5, WaitersAlone DEF BlockTypes
<1> QED
  BY <1>1, <1>5, <1>6, <1>8, <1>9 DEF LoopTypeOK, WellFormed

LEMMA BlpopWaitsKeeps ==
  ASSUME IInv, NEW c \in Client, NEW keys \in KeyLists, NEW t \in Int,
         Blocks!BlpopWaits(c, keys, t), TxnsKept(ToSet(keys))
  PROVE  IInv'
<1> DEFINE deadline == IF t = 0 THEN None ELSE now + t
<1> USE DEF IInv, Typed
<1>1. /\ conn' \in [Client -> {"new", "open", "closed"}]
      /\ owed' \in [Client -> Int]
  <2>1. Blocks!Complaints(t) \in Int
    BY DEF Blocks!Complaints
  <2> QED
    BY <2>1, AnswerType DEF Blocks!BlpopWaits
<1>2. /\ db' = PurgeKeys(db, now, Blocks!ToSet(keys))
      /\ UNCHANGED <<now, up, turn, resolving, expiring>>
      /\ Blocks!Block(c, keys, deadline)
  BY BlocksMethods DEF Blocks!BlpopWaits
<1>3. deadline \in Int \cup {None}
  BY DEF LoopTypeOK
<1> HIDE DEF deadline
<1>4. WellFormed(db') /\ ShowsIn(db, now, db', now, {})
  BY <1>2, PurgeShows DEF LoopTypeOK
<1>5. Shows({})
  BY <1>2, <1>4 DEF Shows, ShowsIn
<1>6. TxnTypes' /\ Guarded'
  BY <1>2, <1>5, WatchesKept
<1>7. BlockTypes' /\ Blocks!Registered'
  BY <1>2, <1>3, BlockKeeps
<1> QED
  BY <1>1, <1>2, <1>4, <1>6, <1>7 DEF LoopTypeOK, WellFormed

LEMMA BlpopKeeps ==
  ASSUME IInv, NEW c \in Client, NEW keys \in KeyLists, NEW t \in Timeouts,
         Blpop(c, keys, t)
  PROVE  IInv'
<1>1. CASE t = None
  BY <1>1, NotFloatKeeps DEF Blpop, Blocks!Blpop
<1>2. CASE t # None
  <2>1. t \in Int
    BY <1>2, ServerInputs
  <2> QED
    BY <1>2, <2>1, BlpopAnsweredKeeps, BlpopWaitsKeeps DEF Blpop, Blocks!Blpop
<1> QED
  BY <1>1, <1>2

LEMMA StatelessKeeps ==
  ASSUME IInv, NEW c \in Client, NEW cmd \in Workload, Stateless(c, cmd)
  PROVE  IInv'
<1> USE DEF Stateless, Blocks!Stateless, Blocks!Direct, Blocks!Sends, IInv, Typed
<1>1. cmd \in Command
  BY WorkloadIsCommands
<1>2. /\ conn' \in [Client -> {"new", "open", "closed"}]
      /\ owed' \in [Client -> Int]
  BY AnswerType
<1>3. /\ db' = Dispatch(db, now, cmd).db
      /\ up' = (Dispatch(db, now, cmd).reply # Raise)
      /\ up /\ UNCHANGED <<now, turn>>
  BY BlocksDispatch DEF Blocks!Raise, Raise
<1>4. Shows(Popped(cmd))
  BY <1>1, <1>3, CommandShows DEF LoopTypeOK
<1>5. PICK named : Remember(Popped(cmd), named)
  BY SameRemembering
<1>6. fate' \in [Client -> [Key -> {"kept", "written", "changed"}]] /\ Guarded'
  BY <1>3, <1>4, <1>5, RememberKeeps
<1>7. resolving' \in Key \cup {None}
  BY <1>1, ArgumentTypes DEF Writers
<1>8. BlockTypes' /\ Blocks!Registered'
  BY <1>7, WaitersAlone DEF BlockTypes
<1> QED
  BY <1>2, <1>3, <1>4, <1>6, <1>8 DEF LoopTypeOK, TxnTypes, Shows, WellFormed

LEMMA ResolvingKeeps ==
  ASSUME IInv, Resolving
  PROVE  IInv'
<1> DEFINE c == Head(waiters[resolving])
           queues == [waiters EXCEPT ![resolving] = Tail(@)]
<1> USE DEF IInv, Typed
<1>1. ASSUME Blocks!SkipWaiter, TxnsKept({})
      PROVE  IInv'
  <2>1. /\ waiters' = queues /\ UNCHANGED <<db, now, up, conn, turn, owed>>
        /\ UNCHANGED <<blocked, order, resolving, expiring>>
        /\ blocked[c] = None
    BY <1>1 DEF Blocks!SkipWaiter, Blocks!loopVars
  <2>2. /\ queues \in [Key -> Seq(Client)]
        /\ \A k \in Key : \A x \in ToSet(waiters[k]) : x # c => x \in ToSet(queues[k])
    BY <1>1, HeadLeaves DEF Blocks!SkipWaiter
  <2> HIDE DEF c, queues
  <2>3. \A e \in Client : Blocks!KeysOf(e)' = Blocks!KeysOf(e)
    BY <2>1 DEF Blocks!KeysOf
  <2>4. Blocks!KeysOf(c) = {}
    BY <2>1 DEF Blocks!KeysOf
  <2>5. Blocks!Registered'
    BY <2>1, <2>2, <2>3, <2>4, BlocksQueues, KeysOfType DEF Blocks!Registered
  <2>6. BlockTypes'
    BY <2>1, <2>2 DEF BlockTypes
  <2>7. Shows({})
    BY <2>1, StillShows DEF LoopTypeOK
  <2>8. TxnTypes' /\ Guarded'
    BY <1>1, <2>1, <2>7, WatchesKept
  <2> QED
    BY <2>1, <2>5, <2>6, <2>7, <2>8 DEF LoopTypeOK, Shows
<1>2. ASSUME Blocks!ServeWaiter, TxnsKept({resolving})
      PROVE  IInv'
  <2>1. /\ c \in Client /\ queues \in [Key -> Seq(Client)]
        /\ \A k \in Key : \A x \in ToSet(waiters[k]) : x # c => x \in ToSet(queues[k])
    BY <1>2, HeadLeaves DEF Blocks!ServeWaiter
  <2>2. /\ Blocks!Unblock(c, queues)
        /\ db' = LPop(db, now, resolving, None).db
        /\ owed' = [owed EXCEPT ![c] = @ - 1]
        /\ Blocks!Write({c})
        /\ UNCHANGED <<now, up, turn, resolving, expiring>>
    BY <1>2, BlocksMethods DEF Blocks!ServeWaiter
  <2> HIDE DEF c, queues
  <2>3. resolving \in Key
    BY <1>2 DEF Blocks!ServeWaiter, BlockTypes
  <2>4. WellFormed(db') /\ ShowsIn(db, now, db', now, {resolving})
    BY <2>2, <2>3, PopShows DEF LoopTypeOK
  <2>5. Shows({resolving})
    BY <2>2, <2>4 DEF Shows, ShowsIn
  <2>6. TxnTypes' /\ Guarded'
    BY <1>2, <2>2, <2>5, WatchesKept
  <2>7. BlockTypes' /\ Blocks!Registered'
    BY <2>1, <2>2, UnblockKeeps DEF BlockTypes
  <2>8. /\ conn' \in [Client -> {"new", "open", "closed"}]
        /\ owed' \in [Client -> Int]
    BY <2>1, <2>2, WriteType DEF LoopTypeOK
  <2> QED
    BY <2>2, <2>4, <2>6, <2>7, <2>8 DEF LoopTypeOK, WellFormed
<1>3. ASSUME Blocks!Resolved, TxnsKept({})
      PROVE  IInv'
  <2> DEFINE r == LPop(db, now, resolving, None)
  <2>1. /\ resolving \in Key /\ resolving' = None
        /\ UNCHANGED <<now, up, conn, turn, owed, blocked, order, waiters, expiring>>
        /\ db' = db \/ (r.reply = Nil /\ db' = r.db)
    BY <1>3, BlocksMethods DEF Blocks!Resolved, BlockTypes, Blocks!Nil, Nil
  <2>2. Shows({})
    <3>1. CASE db' = db
      BY <2>1, <3>1, StillShows DEF LoopTypeOK
    <3>2. CASE r.reply = Nil /\ db' = r.db
      <4>1. r.db = Purge(db, now, resolving)
        BY <3>2 DEF LPop, Result, Nil, Error, Bulk
      <4>2. WellFormed(db') /\ \A k \in Key : Follows(db, db', k, {})
        BY <2>1, <3>2, <4>1, PurgeTracks, TracksFollows
      <4>3. ShowsIn(db, now, db', now, {})
        BY <4>2, FollowingShows DEF LoopTypeOK
      <4> QED
        BY <2>1, <4>2, <4>3 DEF Shows, ShowsIn
    <3> QED
      BY <2>1, <3>1, <3>2
  <2> HIDE DEF r
  <2>3. TxnTypes' /\ Guarded'
    BY <1>3, <2>1, <2>2, WatchesKept
  <2>4. BlockTypes' /\ Blocks!Registered'
    BY <2>1, WaitersAlone DEF BlockTypes
  <2> QED
    BY <2>1, <2>2, <2>3, <2>4 DEF LoopTypeOK, Shows, WellFormed
<1>4. ASSUME Blocks!ResolveRaises, TxnsKept({})
      PROVE  IInv'
  <2>1. /\ up' = FALSE /\ UNCHANGED <<db, now, conn, turn, owed>>
        /\ UNCHANGED <<blocked, order, waiters, resolving, expiring>>
    BY <1>4 DEF Blocks!ResolveRaises, Blocks!blockVars
  <2>2. Shows({})
    BY <2>1, StillShows DEF LoopTypeOK
  <2>3. TxnTypes' /\ Guarded'
    BY <1>4, <2>1, <2>2, WatchesKept
  <2>4. BlockTypes' /\ Blocks!Registered'
    BY <2>1, WaitersAlone DEF BlockTypes
  <2> QED
    BY <2>1, <2>2, <2>3, <2>4 DEF LoopTypeOK, Shows
<1> QED
  BY <1>1, <1>2, <1>3, <1>4 DEF Resolving

LEMMA SweepingKeeps ==
  ASSUME IInv, Sweeping
  PROVE  IInv'
<1> USE DEF IInv, Typed
<1>1. ASSUME Blocks!Sweep, TxnsKept({})
      PROVE  IInv'
  <2>1. /\ UNCHANGED <<db, now, up, conn, turn, owed, blocked, order, waiters, resolving>>
        /\ expiring' \subseteq Client
    BY <1>1 DEF Blocks!Sweep, Blocks!loopVars, Blocks!TimedOut
  <2>2. Shows({})
    BY <2>1, StillShows DEF LoopTypeOK
  <2>3. TxnTypes' /\ Guarded'
    BY <1>1, <2>1, <2>2, WatchesKept
  <2>4. BlockTypes' /\ Blocks!Registered'
    BY <2>1, WaitersAlone DEF BlockTypes
  <2> QED
    BY <2>1, <2>2, <2>3, <2>4 DEF LoopTypeOK, Shows
<1>2. ASSUME NEW c \in Client, Blocks!TimeOut(c), TxnsKept({})
      PROVE  IInv'
  <2>1. /\ Blocks!Unblock(c, waiters)
        /\ owed' = [owed EXCEPT ![c] = @ - 1]
        /\ Blocks!Write({c})
        /\ expiring' \subseteq Client
        /\ UNCHANGED <<db, now, up, turn, resolving>>
    BY <1>2 DEF Blocks!TimeOut, BlockTypes
  <2>2. Shows({})
    BY <2>1, StillShows DEF LoopTypeOK
  <2>3. TxnTypes' /\ Guarded'
    BY <1>2, <2>1, <2>2, WatchesKept
  <2>4. BlockTypes' /\ Blocks!Registered'
    BY <2>1, UnblockKeeps DEF BlockTypes
  <2>5. /\ conn' \in [Client -> {"new", "open", "closed"}]
        /\ owed' \in [Client -> Int]
    BY <2>1, WriteType DEF LoopTypeOK
  <2> QED
    BY <2>1, <2>2, <2>3, <2>4, <2>5 DEF LoopTypeOK, Shows
<1> QED
  BY <1>1, <1>2 DEF Sweeping

-----------------------------------------------------------------------------
(* Transactions: the waiters stay as they are.                             *)

LEMMA BlocksAlone ==
  ASSUME IInv, UNCHANGED blockVars
  PROVE  BlockTypes' /\ Blocks!Registered'
BY WaitersAlone DEF IInv, Typed, BlockTypes, blockVars

(* A command that is answered and changes nothing else.                    *)
LEMMA RefuseKeeps ==
  ASSUME IInv, NEW c \in Client, Txns!Refuse(c), UNCHANGED blockVars
  PROVE  IInv'
<1> USE DEF Txns!Refuse, Txns!txnVars, IInv, Typed
<1>1. /\ conn' \in [Client -> {"new", "open", "closed"}]
      /\ owed' \in [Client -> Int]
  BY AnswerType
<1>2. TxnTypes' /\ WellFormed(db') /\ Guarded'
  BY WatchesAlone DEF TxnTypes
<1> QED
  BY <1>1, <1>2, BlocksAlone DEF LoopTypeOK

(* A step that answers, forgets the watches of a client, and purges.       *)
LEMMA ForgetKeeps ==
  ASSUME IInv, NEW c \in Client, NEW n \in Int, Txns!Answer(c, n),
         watched' = [watched EXCEPT ![c] = Txns!NoWatch],
         Txns!Remember({}, {}), Shows({}), UNCHANGED <<now, up, turn>>,
         txn' \in [Client -> Txns!Txn \cup {None}],
         running' \in Client \cup {None},
         pending' \in Seq(Command),
         UNCHANGED blockVars
  PROVE  IInv'
<1> USE DEF IInv, Typed
<1>1. /\ conn' \in [Client -> {"new", "open", "closed"}]
      /\ owed' \in [Client -> Int]
  BY AnswerType
<1>2. /\ watched' \in [Client -> [Key -> Nat \cup {None}]]
      /\ \A e \in Client, k \in Key :
           watched'[e][k] # None => watched'[e][k] = watched[e][k]
  BY DEF TxnTypes, Txns!NoWatch
<1>3. Remember({}, {})
  BY SameHistory
<1>4. fate' \in [Client -> [Key -> {"kept", "written", "changed"}]] /\ Guarded'
  BY <1>2, <1>3, RememberKeeps
<1> QED
  BY <1>1, <1>2, <1>4, BlocksAlone DEF LoopTypeOK, TxnTypes, Shows, WellFormed

(* EXEC, until it decides.                                                 *)
LEMMA TakeKeeps ==
  ASSUME IInv, NEW c \in Client, Txns!TakeTransaction(c), NEW n \in Int,
         Txns!Answer(c, n), running' \in Client \cup {None}, pending' \in Seq(Command),
         UNCHANGED blockVars
  PROVE  IInv'
<1> USE DEF Txns!TakeTransaction
<1>1. PICK checked : db' = PurgeKeys(db, now, checked)
  BY BlocksMethods, TxnsMethods
<1>2. WellFormed(db') /\ ShowsIn(db, now, db', now, {})
  BY <1>1, PurgeShows DEF IInv, Typed, LoopTypeOK
<1>3. Shows({})
  BY <1>2 DEF Shows, ShowsIn
<1>4. txn' \in [Client -> Txns!Txn \cup {None}]
  BY DEF IInv, Typed, TxnTypes
<1> QED
  BY <1>3, <1>4, ForgetKeeps

LEMMA TransactionKeeps ==
  ASSUME IInv, NEW c \in Client, Transaction(c)
  PROVE  IInv'
<1> USE DEF Txns!MaySend, Txns!Sends
<1>1. UNCHANGED blockVars
  BY DEF Transaction
<1>2. ASSUME Txns!Multi(c)
      PROVE  IInv'
  <2>1. CASE txn[c] # None
    BY <1>1, <1>2, <2>1, RefuseKeeps DEF Txns!Multi
  <2>2. CASE txn[c] = None
    <3>1. /\ txn' = [txn EXCEPT ![c] = [queue |-> <<>>, dirty |-> FALSE]]
          /\ Txns!Answer(c, 1)
          /\ UNCHANGED <<db, now, up, turn, watched, running, pending, fate>>
      BY <1>2, <2>2 DEF Txns!Multi
    <3>2. /\ conn' \in [Client -> {"new", "open", "closed"}]
          /\ owed' \in [Client -> Int]
      BY <3>1, AnswerType DEF IInv, Typed
    <3>3. txn' \in [Client -> Txns!Txn \cup {None}]
      <4>1. [queue |-> <<>>, dirty |-> FALSE] \in Txns!Txn
        BY DEF Txns!Txn
      <4> QED
        BY <3>1, <4>1 DEF IInv, Typed, TxnTypes
    <3>4. TxnTypes' /\ WellFormed(db') /\ Guarded'
      BY <3>1, <3>3, WatchesAlone DEF IInv, Typed, TxnTypes
    <3> QED
      BY <1>1, <3>1, <3>2, <3>4, BlocksAlone DEF IInv, Typed, LoopTypeOK
  <2> QED
    BY <2>1, <2>2
<1>3. ASSUME Txns!Discard(c) \/ Txns!Unwatch(c)
      PROVE  IInv'
  <2>1. CASE Txns!Refuse(c)
    BY <1>1, <2>1, RefuseKeeps
  <2>2. CASE ~Txns!Refuse(c)
    <3>1. /\ watched' = [watched EXCEPT ![c] = Txns!NoWatch]
          /\ Txns!Answer(c, 1)
          /\ UNCHANGED <<db, now, up, turn, running, pending>>
          /\ Txns!Remember({}, {})
          /\ txn' = [txn EXCEPT ![c] = None] \/ txn' = txn
      BY <1>3, <2>2 DEF Txns!Discard, Txns!Unwatch
    <3>2. Shows({})
      BY <3>1, StillShows DEF IInv, Typed, LoopTypeOK
    <3>3. txn' \in [Client -> Txns!Txn \cup {None}]
      BY <3>1 DEF IInv, Typed, TxnTypes
    <3>4. running' \in Client \cup {None} /\ pending' \in Seq(Command)
      BY <3>1 DEF IInv, Typed, TxnTypes
    <3>5. UNCHANGED <<now, up, turn>>
      BY <3>1
    <3>6. watched' = [watched EXCEPT ![c] = Txns!NoWatch] /\ Txns!Remember({}, {})
      BY <3>1
    <3>7. Txns!Answer(c, 1) /\ 1 \in Int
      BY <3>1
    <3> QED
      BY <1>1, <3>2, <3>3, <3>4, <3>5, <3>6, <3>7, ForgetKeeps
  <2> QED
    BY <2>1, <2>2
<1>4. ASSUME Txns!ExecWithoutMulti(c)
      PROVE  IInv'
  BY <1>1, <1>4, RefuseKeeps DEF Txns!ExecWithoutMulti
<1>5. ASSUME Txns!ExecDirty(c) \/ Txns!ExecInvalidated(c)
      PROVE  IInv'
  BY <1>1, <1>5, TakeKeeps DEF Txns!ExecDirty, Txns!ExecInvalidated, IInv, Typed, TxnTypes
<1>6. ASSUME Txns!ExecBegins(c)
      PROVE  IInv'
  <2>1. txn[c].queue \in Seq(Command)
    BY <1>6, SameCommands DEF Txns!ExecBegins, Txns!TakeTransaction, IInv, Typed, TxnTypes,
                              Txns!Txn
  <2> QED
    BY <1>1, <1>6, <2>1, TakeKeeps DEF Txns!ExecBegins
<1>7. ASSUME NEW keys \in WatchLists, Txns!Watch(c, keys)
      PROVE  IInv'
  <2>1. CASE txn[c] # None
    BY <1>1, <1>7, <2>1, RefuseKeeps DEF Txns!Watch
  <2>2. CASE txn[c] = None
    <3>1. /\ db' = PurgeKeys(db, now, keys)
          /\ watched' = [watched EXCEPT ![c] =
               [k \in Key |-> IF k \in keys THEN GetVersion(db, now, k) ELSE @[k]]]
          /\ fate' = [fate EXCEPT ![c] =
               [k \in Key |-> IF k \in keys THEN "kept" ELSE @[k]]]
          /\ Txns!Answer(c, 1)
          /\ UNCHANGED <<now, up, turn, txn, running, pending>>
      <4>1. \A k \in Key : Txns!GetVersion(db, now, k) = GetVersion(db, now, k)
        BY TxnsMethods
      <4>2. Txns!PurgeKeys(db, now, keys) = PurgeKeys(db, now, keys)
        BY TxnsMethods
      <4> QED
        BY <1>7, <2>2, <4>1, <4>2 DEF Txns!Watch
    <3>2. /\ conn' \in [Client -> {"new", "open", "closed"}]
          /\ owed' \in [Client -> Int]
      BY <3>1, AnswerType DEF IInv, Typed
    <3>3. WellFormed(db')
      BY <3>1, PurgeKeysShows DEF IInv, Typed, LoopTypeOK
    <3>4. \A k \in Key : /\ GetVersion(db, now, k) \in Nat
                         /\ GetVersion(db', now, k) = GetVersion(db, now, k)
                         /\ db'.versions[k] >= db.versions[k]
                         /\ db.versions[k] \in Nat
                         /\ db'.versions[k] \in Nat
      BY <3>1, <3>3, PurgeKeysShows, Purged DEF IInv, Typed, LoopTypeOK
    <3>5. \A k \in Key : k \in keys => GetVersion(db, now, k) = db'.versions[k]
      <4>1. \A k \in Key : PurgeKeys(db, now, keys).versions[k]
                          = (IF k \in keys THEN Purge(db, now, k) ELSE db).versions[k]
        BY DEF PurgeKeys, IInv, Typed, LoopTypeOK, DB
      <4> QED
        BY <3>1, <4>1 DEF GetVersion
    <3>6. /\ watched' \in [Client -> [Key -> Nat \cup {None}]]
          /\ fate' \in [Client -> [Key -> {"kept", "written", "changed"}]]
      BY <3>1, <3>4 DEF IInv, Typed, TxnTypes
    <3>7. \A e \in Client, k \in Key :
            \/ watched'[e][k] = watched[e][k] /\ fate'[e][k] = fate[e][k]
            \/ k \in keys /\ watched'[e][k] = GetVersion(db, now, k) /\ fate'[e][k] = "kept"
      BY <3>1 DEF IInv, Typed, TxnTypes
    <3>8. Txns!WatchedNotAhead'
      <4> SUFFICES ASSUME NEW e \in Client, NEW k \in Key, watched'[e][k] # None
                   PROVE  watched'[e][k] <= db'.versions[k]
        BY DEF Txns!WatchedNotAhead
      <4>1. watched[e][k] \in Nat \cup {None}
        BY DEF IInv, Typed, TxnTypes
      <4>2. CASE watched'[e][k] = watched[e][k]
        <5>1. watched[e][k] <= db.versions[k]
          BY <4>2 DEF IInv, Guarded, Txns!WatchedNotAhead
        <5> QED
          BY <3>4, <4>1, <4>2, <5>1
      <4>3. CASE k \in keys /\ watched'[e][k] = GetVersion(db, now, k)
        BY <3>4, <3>5, <4>3
      <4> QED
        BY <3>7, <4>2, <4>3
    <3>9. Noticed'
      BY <3>1, <3>4, <3>7 DEF Noticed, IInv, Guarded
    <3> QED
      BY <1>1, <3>1, <3>2, <3>3, <3>6, <3>8, <3>9, BlocksAlone
         DEF IInv, Typed, TxnTypes, LoopTypeOK, Guarded, WellFormed
  <2> QED
    BY <2>1, <2>2
<1>8. ASSUME NEW cmd \in Workload, Txns!Queue(c, cmd)
      PROVE  IInv'
  <2>1. /\ conn' \in [Client -> {"new", "open", "closed"}]
        /\ owed' \in [Client -> Int]
    BY <1>8, AnswerType DEF Txns!Queue, IInv, Typed
  <2>2. txn[c] \in Txns!Txn /\ cmd \in Txns!Command
    BY <1>8, WorkloadIsCommands, SameCommands DEF Txns!Queue, IInv, Typed, TxnTypes
  <2>3. txn' \in [Client -> Txns!Txn \cup {None}]
    <3>1. [txn[c] EXCEPT !.queue = Append(@, cmd)] \in Txns!Txn
      BY <2>2 DEF Txns!Txn
    <3>2. [txn[c] EXCEPT !.dirty = TRUE] \in Txns!Txn
      BY <2>2 DEF Txns!Txn
    <3> QED
      BY <1>8, <3>1, <3>2 DEF Txns!Queue, IInv, Typed, TxnTypes
  <2>4. UNCHANGED <<db, now, up, turn, watched, running, pending, fate>>
    BY <1>8 DEF Txns!Queue
  <2>5. TxnTypes' /\ WellFormed(db') /\ Guarded'
    BY <2>3, <2>4, WatchesAlone DEF IInv, Typed, TxnTypes
  <2> QED
    BY <1>1, <2>1, <2>4, <2>5, BlocksAlone DEF IInv, Typed, LoopTypeOK
<1> QED
  BY <1>2, <1>3, <1>4, <1>5, <1>6, <1>7, <1>8 DEF Transaction

(* EXEC at work.                                                           *)
LEMMA ExecutingKeeps ==
  ASSUME IInv, Executing
  PROVE  IInv'
<1>1. UNCHANGED blockVars
  BY DEF Executing
<1>2. CASE Txns!ExecRuns
  <2> DEFINE cmd == Head(pending)
  <2>1. cmd \in Command /\ Tail(pending) \in Seq(Command)
    BY <1>2 DEF Txns!ExecRuns, IInv, Typed, TxnTypes
  <2>2. /\ db' = Dispatch(db, now, cmd).db
        /\ up' = (Dispatch(db, now, cmd).reply # Raise)
        /\ up /\ pending' = Tail(pending)
        /\ UNCHANGED <<now, conn, turn, owed, txn, watched, running>>
    BY <1>2, TxnsDispatch DEF Txns!ExecRuns, Txns!Raise, Raise
  <2>3. PICK named : Remember(Popped(cmd), named)
    BY <1>2, SameRemembering DEF Txns!ExecRuns
  <2> HIDE DEF cmd
  <2>4. Shows(Popped(cmd))
    BY <2>1, <2>2, CommandShows DEF IInv, Typed, LoopTypeOK
  <2>5. fate' \in [Client -> [Key -> {"kept", "written", "changed"}]] /\ Guarded'
    BY <2>2, <2>3, <2>4, RememberKeeps
  <2> QED
    BY <1>1, <2>1, <2>2, <2>4, <2>5, BlocksAlone
       DEF IInv, Typed, TxnTypes, LoopTypeOK, Shows, WellFormed
<1>3. CASE Txns!ExecEnds
  <2>1. /\ running \in Client /\ running' = None
        /\ owed' = [owed EXCEPT ![running] = @ - 1]
        /\ Txns!Write({running})
        /\ UNCHANGED <<db, now, up, turn, txn, watched, pending, fate>>
    BY <1>3 DEF Txns!ExecEnds, Txns!Idle, IInv, Typed, TxnTypes
  <2>2. /\ conn' \in [Client -> {"new", "open", "closed"}]
        /\ owed' \in [Client -> Int]
    BY <2>1, WriteType DEF IInv, Typed, LoopTypeOK
  <2>3. TxnTypes' /\ WellFormed(db') /\ Guarded'
    BY <2>1, WatchesAlone DEF IInv, Typed, TxnTypes
  <2> QED
    BY <1>1, <2>1, <2>2, <2>3, BlocksAlone DEF IInv, Typed, LoopTypeOK
<1> QED
  BY <1>2, <1>3 DEF Executing

-----------------------------------------------------------------------------
LEMMA NextIInv == IInv /\ [Next]_vars => IInv'
<1> SUFFICES ASSUME IInv, [Next]_vars
             PROVE  IInv'
  OBVIOUS
<1>1. ASSUME NEW c \in Client, Loop(c)
      PROVE  IInv'
  <2>1. /\ UNCHANGED <<db, now, owed>> /\ up' \in BOOLEAN /\ (up' => up)
        /\ UNCHANGED <<blocked, order, waiters, resolving, expiring>>
        /\ UNCHANGED <<txn, watched, running, pending, fate>>
        /\ conn' \in [Client -> {"new", "open", "closed"}]
        /\ turn' \in Client \cup {None}
    BY <1>1 DEF Loop, Blocks!Loop, Blocks!Accept, Blocks!Receive, Blocks!HangUp,
                Blocks!ProtocolError, Blocks!ReaderRaises, Blocks!EndOfBatch,
                Blocks!blockVars, txnVars, IInv, Typed, LoopTypeOK
  <2>2. TxnTypes' /\ WellFormed(db') /\ Guarded'
    BY <2>1, WatchesAlone DEF IInv, Typed, TxnTypes
  <2>3. BlockTypes' /\ Blocks!Registered'
    BY <2>1, WaitersAlone DEF IInv, Typed, BlockTypes
  <2> QED
    BY <2>1, <2>2, <2>3 DEF IInv, Typed, LoopTypeOK
<1>2. CASE Clock
  <2>1. /\ now' = now + 1 /\ UNCHANGED <<db, up, conn, turn, owed>>
        /\ UNCHANGED <<txn, watched, running, pending>>
        /\ Remember({}, {})
        /\ UNCHANGED blockVars
    BY <1>2, SameHistory DEF Clock, Txns!Clock, Txns!Tick
  <2>2. Shows({})
    BY <2>1, TickingShows DEF IInv, Typed, LoopTypeOK
  <2>3. fate' \in [Client -> [Key -> {"kept", "written", "changed"}]] /\ Guarded'
    BY <2>1, <2>2, RememberKeeps
  <2> QED
    BY <2>1, <2>2, <2>3, BlocksAlone DEF IInv, Typed, TxnTypes, LoopTypeOK, Shows
<1>3. CASE UNCHANGED vars
  <2>1. /\ UNCHANGED <<db, now, up, conn, turn, owed>>
        /\ UNCHANGED blockVars
        /\ UNCHANGED <<txn, watched, running, pending, fate>>
    BY <1>3 DEF vars, loopVars, txnVars
  <2>2. TxnTypes' /\ WellFormed(db') /\ Guarded'
    BY <2>1, WatchesAlone DEF IInv, Typed, TxnTypes
  <2> QED
    BY <2>1, <2>2, BlocksAlone DEF IInv, Typed, LoopTypeOK
<1> QED
  BY <1>1, <1>2, <1>3, TransactionKeeps, StatelessKeeps, BlpopKeeps, ResolvingKeeps,
     SweepingKeeps, ExecutingKeeps DEF Next, Ended

THEOREM Invariance == Spec => []IInv
BY InitIInv, NextIInv, PTL DEF Spec

(* The state of blocked clients and of transactions keeps its types when   *)
(* both share one event loop (connection_state.py:26-38).                  *)
THEOREM TypeCorrect == Spec => []TypeOK
<1>1. IInv => TypeOK
  BY TypesAgree DEF IInv
<1> QED
  BY <1>1, Invariance, PTL

(* EXEC runs its queue only if no key it watches was changed since, but by *)
(* a plain LPOP or RPOP or a pop of BLPOP, also while pushes are resolved, *)
(* BLPOP pops and sweeps time clients out, for any number of clients, keys *)
(* and commands (connection_state.py:249-261, 380-406).                    *)
THEOREM ExecIsGuarded == Spec => WatchGuards
<1> DEFINE Safe(c) ==
      Txns!ExecBegins(c) => \A k \in Txns!Watches(c) : fate[c][k] # "changed"
<1>1. ASSUME IInv, NEW c \in Client
      PROVE  Safe(c)
  <2> SUFFICES ASSUME Txns!ExecBegins(c), NEW k \in Txns!Watches(c), fate[c][k] = "changed"
               PROVE  FALSE
    OBVIOUS
  <2>1. up /\ k \in Key /\ watched[c][k] # None
    BY DEF Txns!ExecBegins, Txns!TakeTransaction, Txns!MaySend, Txns!Sends, Txns!Watches
  <2>2. GetVersion(db, now, k) = watched[c][k]
    BY TxnsMethods DEF Txns!ExecBegins, Txns!Moved
  <2>3. GetVersion(db, now, k) > watched[c][k]
    BY <1>1, <2>1 DEF IInv, Guarded, Noticed
  <2>4. GetVersion(db, now, k) \in Nat
    BY <1>1, <2>1, Purged DEF IInv
  <2> QED
    BY <2>2, <2>3, <2>4
<1>2. IInv /\ [Next]_vars => [\A c \in Client : Safe(c)]_vars
  BY <1>1
<1> QED
  BY <1>2, Invariance, PTL DEF Spec, WatchGuards

-----------------------------------------------------------------------------
(* The end of a resolution.                                                *)

(* A plain LPOP that answers nil found the key missing.                    *)
LEMMA NothingLeft ==
  ASSUME NEW d, WellFormed(d), NEW t \in Nat, NEW k \in Key,
         LPop(d, t, k, None).reply = Nil
  PROVE  Lookup(LPop(d, t, k, None).db, t, k) = None
<1> DEFINE p == Purge(d, t, k)
<1>1. WellFormed(p)
  BY PurgeKeeps
<1>2. /\ ~WrongType(p.data[k], "list")
      /\ Items(p, k) = <<>>
      /\ LPop(d, t, k, None).db = p
  BY DEF LPop, Result, Nil, Error, Bulk
<1>3. p.data[k] = None
  BY <1>1, <1>2 DEF WellFormed, ListsNotEmpty, Items, HasType, WrongType
<1> HIDE DEF p
<1> QED
  BY <1>1, <1>2, <1>3, Purged

(* Only the loop of _resolve_waiters ends a resolution.                    *)
LEMMA EndsResolved ==
  ASSUME IInv, [Next]_vars, resolving # None, resolving' = None, up'
  PROVE  Blocks!Resolved
<1>1. ASSUME UNCHANGED resolving
      PROVE  FALSE
  BY <1>1
<1>2. ASSUME NEW c \in Client, NEW cmd \in Workload, Stateless(c, cmd)
      PROVE  FALSE
  BY <1>2 DEF Stateless, Blocks!Stateless, Blocks!MaySend, Blocks!Idle
<1>3. ASSUME NEW c \in Client, NEW keys \in KeyLists, NEW t \in Timeouts, Blpop(c, keys, t)
      PROVE  FALSE
  BY <1>3 DEF Blpop, Blocks!Blpop, Blocks!BlpopNotFloat, Blocks!BlpopAnswered,
              Blocks!BlpopWaits, Blocks!MaySend, Blocks!Idle
<1>4. ASSUME NEW c \in Client, Loop(c) \/ Transaction(c)
      PROVE  FALSE
  BY <1>1, <1>4 DEF Loop, Blocks!Loop, Blocks!Idle, Transaction, blockVars
<1>5. ASSUME Sweeping \/ Executing \/ Clock \/ UNCHANGED vars
      PROVE  FALSE
  BY <1>1, <1>5 DEF Sweeping, Blocks!Sweep, Blocks!TimeOut, Executing, Clock, blockVars, vars
<1>6. CASE Resolving
  BY <1>1, <1>6 DEF Resolving, Blocks!SkipWaiter, Blocks!ServeWaiter, Blocks!ResolveRaises
<1> QED
  BY <1>2, <1>3, <1>4, <1>5, <1>6 DEF Next, Ended

(* A resolved push leaves nobody waiting for an element of its key, not    *)
(* even for one that an EXEC put there without resolving it                *)
(* (connection_state.py:394-415).                                          *)
THEOREM ResolvedPushServesAll == Spec => PushServesAll
<1> DEFINE Served ==
      resolving # None /\ resolving' = None /\ up' =>
        \A c \in Client :
          resolving \in Blocks!KeysOf(c) => Lookup(db', now, resolving) = None
<1>1. ASSUME IInv, [Next]_vars
      PROVE  Served
  <2> SUFFICES ASSUME resolving # None, resolving' = None, up',
                      NEW c \in Client, resolving \in Blocks!KeysOf(c)
               PROVE  Lookup(db', now, resolving) = None
    OBVIOUS
  <2>1. Blocks!Resolved
    BY <1>1, EndsResolved
  <2>2. resolving \in Key /\ now \in Nat /\ WellFormed(db)
    BY <1>1 DEF IInv, Typed, BlockTypes, LoopTypeOK
  <2>3. waiters[resolving] # <<>>
    <3>1. c \in ToSet(waiters[resolving])
      BY <1>1, BlocksQueues DEF IInv, Blocks!Registered
    <3> QED
      BY <3>1 DEF ToSet
  <2>4. /\ LPop(db, now, resolving, None).reply = Nil
        /\ db' = LPop(db, now, resolving, None).db
    BY <2>1, <2>3, BlocksMethods DEF Blocks!Resolved, Blocks!Nil, Nil
  <2> QED
    BY <2>2, <2>4, NothingLeft
<1>2. IInv /\ [Next]_vars => [Served]_vars
  BY <1>1
<1> QED
  BY <1>2, Invariance, PTL DEF Spec, PushServesAll

=============================================================================
