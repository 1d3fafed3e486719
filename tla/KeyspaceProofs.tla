--------------------------- MODULE KeyspaceProofs ---------------------------
(***************************************************************************)
(* Every method of the keyspace, and so every stateless command, keeps a   *)
(* well-formed keyspace well-formed.  The lemmas follow the operators: the *)
(* two ways a method updates the dicts, then one lemma per method.  A      *)
(* second part follows one key: its version moves with its value, and what *)
(* a reader finds under it changes only with its version.  The last one    *)
(* is about queues of clients and the values they wait for.                *)
(***************************************************************************)
EXTENDS WriteLog, SequenceTheorems, FiniteSetTheorems, WellFoundedInduction, TLAPS

ZSetsFinite(d) ==
  \A k \in Key : d.zsets[k] # None => IsFiniteSet(MembersOf(d.zsets[k]))

(* What the methods preserve.                                              *)
WellFormed(d) ==
  /\ d \in DB
  /\ DeadlinesOnStrings(d)
  /\ ListsNotEmpty(d)
  /\ StreamsOrdered(d)
  /\ ZSetsNotEmpty(d)
  /\ ZSetsFinite(d)

(* What it asks of one value, whatever its key.                            *)
Sound(v) ==
  /\ HasType(v, "list") => v.items # <<>>
  /\ HasType(v, "stream") => StreamOrdered(v)

(* The initial keyspace is well-formed.                                    *)
LEMMA EmptyIsWellFormed == WellFormed(EmptyDB)
BY DEF WellFormed, DB, EmptyDB, DeadlinesOnStrings, ListsNotEmpty, StreamsOrdered,
       ZSetsNotEmpty, ZSetsFinite, HasType

(* Writing a value under k and leaving its deadline alone, as pushes, pops *)
(* and INCR do.                                                            *)
LEMMA WriteData ==
  ASSUME NEW d, WellFormed(d), NEW k \in Key, NEW v \in Value \cup {None},
         Sound(v),
         d.expires[k] # None => HasType(v, "str")
  PROVE  WellFormed([d EXCEPT !.data[k] = v])
<1> DEFINE e == [d EXCEPT !.data[k] = v]
<1>1. e \in DB
  BY DEF WellFormed, DB
<1>2. /\ e.expires = d.expires
      /\ e.zsets = d.zsets
      /\ e.data[k] = v
      /\ \A j \in Key \ {k} : e.data[j] = d.data[j]
  BY DEF WellFormed, DB
<1>3. DeadlinesOnStrings(e)
  BY <1>2 DEF WellFormed, DeadlinesOnStrings
<1>4. ListsNotEmpty(e) /\ StreamsOrdered(e)
  BY <1>2 DEF WellFormed, ListsNotEmpty, StreamsOrdered, Sound
<1>5. ZSetsNotEmpty(e) /\ ZSetsFinite(e)
  BY <1>2 DEF WellFormed, ZSetsNotEmpty, ZSetsFinite
<1> QED
  BY <1>1, <1>3, <1>4, <1>5 DEF WellFormed

(* Writing a value and a deadline under k, as SET, DEL and a purge do.     *)
LEMMA WriteBoth ==
  ASSUME NEW d, WellFormed(d), NEW k \in Key, NEW v \in Value \cup {None},
         NEW x \in Int \cup {None},
         Sound(v),
         x # None => HasType(v, "str")
  PROVE  WellFormed([d EXCEPT !.data[k] = v, !.expires[k] = x])
<1> DEFINE e == [d EXCEPT !.data[k] = v, !.expires[k] = x]
<1>1. e \in DB
  BY DEF WellFormed, DB
<1>2. /\ e.expires[k] = x
      /\ e.zsets = d.zsets
      /\ e.data[k] = v
      /\ \A j \in Key \ {k} : e.data[j] = d.data[j] /\ e.expires[j] = d.expires[j]
  BY DEF WellFormed, DB
<1>3. DeadlinesOnStrings(e)
  BY <1>2 DEF WellFormed, DeadlinesOnStrings
<1>4. ListsNotEmpty(e) /\ StreamsOrdered(e)
  BY <1>2 DEF WellFormed, ListsNotEmpty, StreamsOrdered, Sound
<1>5. ZSetsNotEmpty(e) /\ ZSetsFinite(e)
  BY <1>2 DEF WellFormed, ZSetsNotEmpty, ZSetsFinite
<1> QED
  BY <1>1, <1>3, <1>4, <1>5 DEF WellFormed

LEMMA BumpKeeps ==
  ASSUME NEW d, WellFormed(d), NEW k \in Key
  PROVE  WellFormed(Bump(d, k))
<1>1. /\ Bump(d, k) \in DB
      /\ Bump(d, k).data = d.data
      /\ Bump(d, k).expires = d.expires
      /\ Bump(d, k).zsets = d.zsets
  BY DEF WellFormed, DB, Bump
<1> QED
  BY <1>1 DEF WellFormed, DeadlinesOnStrings, ListsNotEmpty, StreamsOrdered,
              ZSetsNotEmpty, ZSetsFinite

LEMMA PurgeKeeps ==
  ASSUME NEW d, WellFormed(d), NEW t, NEW k \in Key
  PROVE  WellFormed(Purge(d, t, k))
<1>1. WellFormed([d EXCEPT !.data[k] = None, !.expires[k] = None])
  BY WriteBoth DEF Sound, HasType
<1> QED
  BY <1>1, BumpKeeps DEF Purge

-----------------------------------------------------------------------------
(* Strings, and the methods that remove a key.                             *)

LEMMA DeleteKeeps ==
  ASSUME NEW d, WellFormed(d), NEW t, NEW k \in Key
  PROVE  WellFormed(Delete(d, t, k).db)
<1> DEFINE p == Purge(d, t, k)
           gone == [p EXCEPT !.data[k] = None, !.expires[k] = None]
<1>1. WellFormed(p)
  BY PurgeKeeps
<1>2. WellFormed(gone)
  BY <1>1, WriteBoth DEF Sound, HasType
<1>3. WellFormed(Bump(gone, k))
  BY <1>2, BumpKeeps
<1> QED
  BY <1>2, <1>3 DEF Delete, Result

LEMMA SetKeeps ==
  ASSUME NEW d, WellFormed(d), NEW t \in Nat, NEW k \in Key, NEW s \in Str,
         NEW ttl \in Int \cup {None}
  PROVE  WellFormed(Set(d, t, k, s, ttl).db)
<1> DEFINE x == IF ttl = None THEN None ELSE t + ttl
           e == [d EXCEPT !.data[k] = StrOf(s), !.expires[k] = x]
<1>1. x \in Int \cup {None}
  OBVIOUS
<1>2. /\ StrOf(s) \in Value
      /\ HasType(StrOf(s), "str")
      /\ Sound(StrOf(s))
  BY SentinelsAreApart DEF StrOf, Value, StrValue, HasType, Sound
<1>3. WellFormed(e)
  BY <1>1, <1>2, WriteBoth
<1> QED
  BY <1>3, BumpKeeps DEF Set, Result

LEMMA IncrKeeps ==
  ASSUME NEW d, WellFormed(d), NEW t, NEW k \in Key
  PROVE  WellFormed(Incr(d, t, k).db)
<1> DEFINE p == Purge(d, t, k)
           v == p.data[k]
           n == IF v = None THEN 1 ELSE v.str + 1
<1>1. WellFormed(p)
  BY PurgeKeeps
<1>2. CASE v = None \/ (v.type = "str" /\ v.str \in Int)
  <2>1. n \in Int
    BY <1>2
  <2>2. /\ StrOf(n) \in Value
        /\ HasType(StrOf(n), "str")
        /\ Sound(StrOf(n))
    BY <2>1, SentinelsAreApart DEF StrOf, Value, StrValue, Str, HasType, Sound
  <2>3. WellFormed([p EXCEPT !.data[k] = StrOf(n)])
    BY <1>1, <2>2, WriteData
  <2> QED
    BY <1>2, <2>3, BumpKeeps DEF Incr, Result
<1>3. CASE ~(v = None \/ (v.type = "str" /\ v.str \in Int))
  BY <1>1, <1>3 DEF Incr, Result
<1> QED
  BY <1>2, <1>3

-----------------------------------------------------------------------------
(* Lists.                                                                  *)

(* A key that does not hold a string has no deadline.                      *)
LEMMA ListsDoNotExpire ==
  ASSUME NEW d, WellFormed(d), NEW k \in Key, ~HasType(d.data[k], "str")
  PROVE  d.expires[k] = None
BY DEF WellFormed, DeadlinesOnStrings

LEMMA ItemsType ==
  ASSUME NEW d, WellFormed(d), NEW k \in Key, ~WrongType(d.data[k], "list")
  PROVE  /\ Items(d, k) \in Seq(Str)
         /\ d.expires[k] = None
<1>1. d.data[k] \in Value \cup {None}
  BY DEF WellFormed, DB
<1>2. d.data[k] = None \/ d.data[k] \in ListValue
  BY <1>1 DEF WrongType, Value, StrValue, ListValue, StreamValue
<1>3. ~HasType(d.data[k], "str")
  BY <1>2 DEF HasType, ListValue
<1> QED
  BY <1>2, <1>3, ListsDoNotExpire DEF Items, ListValue

(* A list of at least one element stored under k, as both pushes do.       *)
LEMMA StoreList ==
  ASSUME NEW d, WellFormed(d), NEW k \in Key, d.expires[k] = None,
         NEW s \in Seq(Str), s # <<>>
  PROVE  WellFormed([d EXCEPT !.data[k] = ListOf(s)])
<1>1. ListOf(s) \in Value /\ Sound(ListOf(s))
  BY DEF ListOf, Value, ListValue, Sound, HasType
<1> QED
  BY <1>1, WriteData

(* The remainder of a list stored under k, as both pops do.                *)
LEMMA ReplaceKeeps ==
  ASSUME NEW d, WellFormed(d), NEW k \in Key, d.expires[k] = None,
         NEW s \in Seq(Str)
  PROVE  WellFormed(Replace(d, k, s))
<1>1. CASE s = <<>>
  BY <1>1, WriteData DEF Replace, Sound, HasType
<1>2. CASE s # <<>>
  BY <1>2, StoreList DEF Replace
<1> QED
  BY <1>1, <1>2

LEMMA ReverseType ==
  ASSUME NEW s \in Seq(Str)
  PROVE  Reverse(s) \in Seq(Str) /\ Len(Reverse(s)) = Len(s)
<1>1. \A i \in 1..Len(s) : s[Len(s) - i + 1] \in Str
  BY LenProperties, ElementOfSeq
<1> QED
  BY <1>1, LenProperties DEF Reverse

LEMMA RPushKeeps ==
  ASSUME NEW d, WellFormed(d), NEW t, NEW k \in Key,
         NEW vals \in Seq(Str)
  PROVE  WellFormed(RPush(d, t, k, vals).db)
<1> DEFINE p == Purge(d, t, k)
           items == Items(p, k) \o vals
<1>1. WellFormed(p)
  BY PurgeKeeps
<1>2. CASE vals = <<>> \/ WrongType(p.data[k], "list")
  BY <1>1, <1>2 DEF RPush, Result
<1>3. CASE vals # <<>> /\ ~WrongType(p.data[k], "list")
  <2>1. Items(p, k) \in Seq(Str) /\ p.expires[k] = None
    BY <1>1, <1>3, ItemsType
  <2>2. items \in Seq(Str) /\ items # <<>>
    BY <1>3, <2>1, ConcatProperties, ConcatEqualIffEmpty
  <2>3. WellFormed([p EXCEPT !.data[k] = ListOf(items)])
    BY <1>1, <2>1, <2>2, StoreList
  <2> QED
    BY <1>3, <2>3, BumpKeeps DEF RPush, Result
<1> QED
  BY <1>2, <1>3

LEMMA LPushKeeps ==
  ASSUME NEW d, WellFormed(d), NEW t, NEW k \in Key,
         NEW vals \in Seq(Str)
  PROVE  WellFormed(LPush(d, t, k, vals).db)
<1> DEFINE p == Purge(d, t, k)
           items == Reverse(vals) \o Items(p, k)
<1>1. WellFormed(p)
  BY PurgeKeeps
<1>2. CASE vals = <<>> \/ WrongType(p.data[k], "list")
  BY <1>1, <1>2 DEF LPush, Result
<1>3. CASE vals # <<>> /\ ~WrongType(p.data[k], "list")
  <2>1. Items(p, k) \in Seq(Str) /\ p.expires[k] = None
    BY <1>1, <1>3, ItemsType
  <2>2. Reverse(vals) \in Seq(Str) /\ Reverse(vals) # <<>>
    BY <1>3, ReverseType, EmptySeq
  <2>3. items \in Seq(Str) /\ items # <<>>
    BY <2>1, <2>2, ConcatProperties, ConcatEqualIffEmpty
  <2>4. WellFormed([p EXCEPT !.data[k] = ListOf(items)])
    BY <1>1, <2>1, <2>3, StoreList
  <2> QED
    BY <1>3, <2>4, BumpKeeps DEF LPush, Result
<1> QED
  BY <1>2, <1>3

LEMMA LPopKeeps ==
  ASSUME NEW d, WellFormed(d), NEW t, NEW k \in Key, NEW count \in Nat \cup {None}
  PROVE  WellFormed(LPop(d, t, k, count).db)
<1> DEFINE p == Purge(d, t, k)
           items == Items(p, k)
           n == Lesser(count, Len(items))
           rest == SubSeq(items, n + 1, Len(items))
<1>1. WellFormed(p)
  BY PurgeKeeps
<1>2. CASE WrongType(p.data[k], "list") \/ items = <<>>
  BY <1>1, <1>2 DEF LPop, Result
<1>3. CASE ~WrongType(p.data[k], "list") /\ items # <<>>
  <2>1. items \in Seq(Str) /\ p.expires[k] = None
    BY <1>1, <1>3, ItemsType
  <2>2. CASE count = None
    <3>1. Tail(items) \in Seq(Str)
      BY <1>3, <2>1, HeadTailProperties
    <3> QED
      BY <1>1, <1>3, <2>1, <2>2, <3>1, ReplaceKeeps DEF LPop, Result
  <2>3. CASE count # None
    <3>1. n \in Nat /\ Len(items) \in Nat
      BY <2>1, <2>3, LenProperties DEF Lesser
    <3>2. rest \in Seq(Str)
      BY <2>1, <3>1, SubSeqProperties, ElementOfSeq
    <3>3. WellFormed(Replace(p, k, rest))
      BY <1>1, <2>1, <3>2, ReplaceKeeps
    <3> QED
      BY <1>3, <2>3, <3>3, BumpKeeps DEF LPop, Result
  <2> QED
    BY <2>2, <2>3
<1> QED
  BY <1>2, <1>3

LEMMA RPopKeeps ==
  ASSUME NEW d, WellFormed(d), NEW t, NEW k \in Key, NEW count \in Nat \cup {None}
  PROVE  WellFormed(RPop(d, t, k, count).db)
<1> DEFINE p == Purge(d, t, k)
           items == Items(p, k)
           n == Lesser(count, Len(items))
           kept == SubSeq(items, 1, Len(items) - n)
<1>1. WellFormed(p)
  BY PurgeKeeps
<1>2. CASE WrongType(p.data[k], "list") \/ items = <<>>
  BY <1>1, <1>2 DEF RPop, Result
<1>3. CASE ~WrongType(p.data[k], "list") /\ items # <<>>
  <2>1. items \in Seq(Str) /\ p.expires[k] = None
    BY <1>1, <1>3, ItemsType
  <2>2. CASE count = None
    <3>1. Front(items) \in Seq(Str)
      BY <2>1, LenProperties, SubSeqProperties, ElementOfSeq DEF Front
    <3> QED
      BY <1>1, <1>3, <2>1, <2>2, <3>1, ReplaceKeeps DEF RPop, Result
  <2>3. CASE count # None
    <3>1. n \in Nat /\ Len(items) \in Nat /\ n <= Len(items)
      BY <2>1, <2>3, LenProperties DEF Lesser
    <3>2. kept \in Seq(Str)
      BY <2>1, <3>1, SubSeqProperties, ElementOfSeq
    <3>3. WellFormed(Replace(p, k, kept))
      BY <1>1, <2>1, <3>2, ReplaceKeeps
    <3> QED
      BY <1>1, <1>3, <2>3, <3>3, BumpKeeps DEF RPop, Result
  <2> QED
    BY <2>2, <2>3
<1> QED
  BY <1>2, <1>3

-----------------------------------------------------------------------------
(* Streams.                                                                *)

LEMMA IdLessIsTransitive ==
  ASSUME NEW a \in StreamId, NEW b \in StreamId, NEW c \in StreamId,
         IdLess(a, b), IdLess(b, c)
  PROVE  IdLess(a, c)
<1>1. None \notin Int
  BY SentinelsAreApart DEF Str
<1>2. /\ a = <<a[1], a[2]>> /\ a[1] \in Nat /\ a[2] \in Int
      /\ b = <<b[1], b[2]>> /\ b[1] \in Nat /\ b[2] \in Int
      /\ c = <<c[1], c[2]>> /\ c[1] \in Nat /\ c[2] \in Int
  BY DEF StreamId
<1>3. /\ a[1] < b[1] \/ (a[1] = b[1] /\ a[2] < b[2])
      /\ b[1] < c[1] \/ (b[1] = c[1] /\ b[2] < c[2])
  BY <1>1, <1>2 DEF IdLess, IdLeq
<1>4. a[1] < c[1] \/ (a[1] = c[1] /\ a[2] < c[2])
  BY <1>2, <1>3
<1> QED
  BY <1>1, <1>2, <1>4 DEF IdLess, IdLeq

LEMMA AppendKeepsOrder ==
  ASSUME NEW s \in StreamValue, StreamOrdered(s),
         NEW id \in StreamId, IdLess(s.last, id)
  PROVE  /\ [s EXCEPT !.entries = Append(@, id), !.last = id] \in StreamValue
         /\ StreamOrdered([s EXCEPT !.entries = Append(@, id), !.last = id])
<1> DEFINE es == s.entries
           more == Append(es, id)
           added == [s EXCEPT !.entries = Append(@, id), !.last = id]
<1>1. /\ es \in Seq(StreamId) /\ s.last \in StreamId
      /\ added \in StreamValue /\ added.entries = more /\ added.last = id
  <2>1. es \in Seq(StreamId) /\ s.last \in StreamId
    BY DEF StreamValue
  <2>2. more \in Seq(StreamId)
    BY <2>1, AppendProperties
  <2> HIDE DEF more
  <2>3. added = [s EXCEPT !.entries = more, !.last = id]
    BY DEF more
  <2> QED
    BY <2>1, <2>2, <2>3 DEF StreamValue
<1>2. /\ more \in Seq(StreamId) /\ Len(more) = Len(es) + 1 /\ more # <<>>
      /\ \A i \in 1..Len(es) : more[i] = es[i]
      /\ more[Len(es) + 1] = id
      /\ DOMAIN more = 1..(Len(es) + 1) /\ DOMAIN es = 1..Len(es)
      /\ Len(es) \in Nat
  BY <1>1, AppendProperties, LenProperties
<1>3. ASSUME NEW i \in 1..Len(es)
      PROVE  IdLess(es[i], id)
  <2>1. es[i] \in StreamId /\ es # <<>> /\ s.last = es[Len(es)]
    BY <1>1, <1>2, ElementOfSeq, EmptySeq DEF StreamOrdered
  <2>2. i = Len(es) \/ IdLess(es[i], s.last)
    BY <1>2, <2>1 DEF StreamOrdered
  <2> QED
    BY <1>1, <2>1, <2>2, IdLessIsTransitive
<1>4. ASSUME NEW i \in DOMAIN more, NEW j \in DOMAIN more, i < j
      PROVE  IdLess(more[i], more[j])
  <2>1. i \in 1..Len(es)
    BY <1>2, <1>4
  <2>2. CASE j \in 1..Len(es)
    BY <1>2, <1>4, <2>1, <2>2 DEF StreamOrdered
  <2>3. CASE j = Len(es) + 1
    BY <1>2, <1>3, <2>1, <2>3
  <2> QED
    BY <1>2, <2>2, <2>3
<1> QED
  BY <1>1, <1>2, <1>4 DEF StreamOrdered

LEMMA XAddKeeps ==
  ASSUME NEW d, WellFormed(d), NEW t, NEW k \in Key,
         NEW ms \in Nat, NEW seq \in Int \cup {None}
  PROVE  WellFormed(XAdd(d, t, k, ms, seq).db)
<1> DEFINE p == Purge(d, t, k)
           s == IF p.data[k] = None THEN NewStream ELSE p.data[k]
           id == RequestedId(s.last, ms, seq)
           added == [s EXCEPT !.entries = Append(@, id), !.last = id]
<1>1. WellFormed(p)
  BY PurgeKeeps
<1>2. CASE WrongType(p.data[k], "stream")
  BY <1>1, <1>2 DEF XAdd, Result
<1>3. CASE ~WrongType(p.data[k], "stream")
  <2>1. p.data[k] \in Value \cup {None}
    BY <1>1 DEF WellFormed, DB
  <2>2. s \in StreamValue /\ StreamOrdered(s)
    <3>1. CASE p.data[k] = None
      <4>1. NewStream \in StreamValue
        BY DEF NewStream, StreamValue, StreamId
      <4>2. StreamOrdered(NewStream)
        BY DEF NewStream, StreamOrdered
      <4> QED
        BY <3>1, <4>1, <4>2
    <3>2. CASE p.data[k] # None
      <4>1. p.data[k].type = "stream" /\ HasType(p.data[k], "stream")
        BY <1>3, <3>2 DEF WrongType, HasType
      <4>2. p.data[k] \in StreamValue
        BY <2>1, <3>2, <4>1 DEF Value, StrValue, ListValue, StreamValue
      <4> QED
        BY <1>1, <3>2, <4>1, <4>2 DEF WellFormed, StreamsOrdered
    <3> QED
      BY <3>1, <3>2
  <2>3. p.expires[k] = None
    <3>1. ~HasType(p.data[k], "str")
      BY <1>3 DEF HasType, WrongType
    <3> QED
      BY <1>1, <3>1, ListsDoNotExpire
  <2>4. CASE ~Accepted(s.last, id)
    <3>1. s \in Value /\ Sound(s)
      BY <2>2 DEF Value, StreamValue, Sound, HasType
    <3>2. WellFormed([p EXCEPT !.data[k] = s])
      BY <1>1, <2>3, <3>1, WriteData
    <3> QED
      BY <1>3, <2>4, <3>2 DEF XAdd, Result
  <2>5. CASE Accepted(s.last, id)
    <3>1. id \in StreamId /\ IdLess(s.last, id)
      BY <2>2, <2>5 DEF RequestedId, NextSeq, StreamId, StreamValue, Accepted
    <3>2. added \in StreamValue /\ StreamOrdered(added)
      BY <2>2, <3>1, AppendKeepsOrder
    <3>3. added \in Value /\ Sound(added)
      BY <3>2 DEF Value, StreamValue, Sound, HasType
    <3>4. WellFormed([p EXCEPT !.data[k] = added])
      BY <1>1, <2>3, <3>3, WriteData
    <3> QED
      BY <1>3, <2>5, <3>4, BumpKeeps DEF XAdd, Result
  <2> QED
    BY <2>4, <2>5
<1> QED
  BY <1>2, <1>3

-----------------------------------------------------------------------------
(* Induction, from the well-foundedness of < on the naturals, and what the *)
(* folds of the community modules compute along a sequence.                *)

(* A nonempty set of naturals has a smallest one.                          *)
LEMMA LeastNatural ==
  ASSUME NEW S \in SUBSET Nat, S # {}
  PROVE  \E x \in S : \A y \in S : x <= y
<1> DEFINE R == {ss \in Nat \X Nat : ss[1] < ss[2]}
<1>1. PICK x \in S : \A y \in S : ~ (<<y, x>> \in R)
  <2>1. IsWellFoundedOn(R, Nat)
    BY NatLessThanWellFounded, Zenon DEF OpToRel
  <2> QED
    BY <2>1, WFMin
<1>2. ASSUME NEW y \in S
      PROVE  x <= y
  <2>1. ~(y < x)
    BY <1>1
  <2> QED
    BY <2>1
<1> QED
  BY <1>2

(* A nonempty set of indexes has a largest one.                            *)
LEMMA MaxIsMember ==
  ASSUME NEW n \in Nat, NEW S \in SUBSET (1..n), S # {}
  PROVE  Max(S) \in S
<1> DEFINE T == {n - i : i \in S}
<1>1. T \subseteq Nat /\ T # {}
  <2>1. \A i \in S : n - i \in Nat
    OBVIOUS
  <2>2. PICK i \in S : TRUE
    OBVIOUS
  <2> QED
    BY <2>1, <2>2
<1>2. PICK x \in T : \A y \in T : x <= y
  <2> HIDE DEF T
  <2> QED
    BY <1>1, LeastNatural
<1>3. ASSUME NEW y \in T
      PROVE  x <= y
  BY <1>2
<1>4. PICK i \in S : x = n - i
  OBVIOUS
<1>5. \A j \in S : i >= j
  BY <1>3, <1>4
<1> QED
  BY <1>5 DEF Max

(* Zero belongs to S and S is closed under successor: all of Nat is in S.  *)
LEMMA Induction ==
  ASSUME NEW S \in SUBSET Nat, 0 \in S, \A n \in S : n + 1 \in S
  PROVE  S = Nat
<1> DEFINE T == Nat \ S
           R == OpToRel(<, Nat)
<1>1. IsWellFoundedOn(R, Nat)
  BY NatLessThanWellFounded
<1>2. \A m, n \in Nat : m < n => <<m, n>> \in R
  BY DEF OpToRel
<1> HIDE DEF R
<1>3. SUFFICES ASSUME T # {} PROVE FALSE
  OBVIOUS
<1>4. PICK x \in T : \A y \in T : <<y, x>> \notin R
  BY <1>1, <1>3, WFMin
<1>5. x # 0 /\ x - 1 \in Nat /\ <<x - 1, x>> \in R
  BY <1>2, <1>4
<1> QED
  BY <1>4, <1>5

LEMMA MaxOfTop ==
  ASSUME NEW n \in Nat, NEW u \in SUBSET (1..n), n \in u
  PROVE  Max(u) = n
<1>1. \A j \in u : n >= j
  OBVIOUS
<1>2. \A x \in u : (\A j \in u : x >= j) => x = n
  OBVIOUS
<1> QED
  BY <1>1, <1>2 DEF Max

(* What a fold computes for every set of indexes, if op(r, s[i]) is        *)
(* g[i][r]: MapThenFoldSet takes the largest index last.                   *)
Folds(it, base, g, T, n) ==
  /\ it \in [SUBSET (1..n) -> T]
  /\ \A u \in SUBSET (1..n) :
       it[u] = IF u = {} THEN base ELSE g[Max(u)][it[u \ {Max(u)}]]

(* A fold over m indexes is extended to one more, and so one over n exists.*)
LEMMA FoldGrows ==
  ASSUME NEW T, NEW base \in T, NEW n \in Nat, NEW g \in [1..n -> [T -> T]],
         NEW m \in Nat, m + 1 <= n, NEW f, Folds(f, base, g, T, m)
  PROVE  \E it : Folds(it, base, g, T, m + 1)
<1> DEFINE it == [u \in SUBSET (1..(m + 1)) |->
                    IF m + 1 \in u THEN g[m + 1][f[u \ {m + 1}]] ELSE f[u]]
<1>1. ASSUME NEW u \in SUBSET (1..(m + 1)), m + 1 \in u
      PROVE  /\ u # {} /\ it[u] \in T
             /\ it[u] = g[Max(u)][it[u \ {Max(u)}]]
  <2>1. u \ {m + 1} \in SUBSET (1..m) /\ u \ {m + 1} \in SUBSET (1..(m + 1))
    OBVIOUS
  <2>2. Max(u) = m + 1
    BY <1>1, MaxOfTop
  <2>3. f[u \ {m + 1}] \in T /\ m + 1 \in 1..n
    BY <2>1 DEF Folds
  <2>4. it[u] = g[m + 1][f[u \ {m + 1}]] /\ it[u \ {m + 1}] = f[u \ {m + 1}]
    BY <1>1, <2>1
  <2>5. g[m + 1][f[u \ {m + 1}]] \in T
    BY <2>3
  <2> QED
    BY <1>1, <2>2, <2>4, <2>5
<1>2. ASSUME NEW u \in SUBSET (1..(m + 1)), m + 1 \notin u
      PROVE  /\ it[u] \in T
             /\ it[u] = IF u = {} THEN base ELSE g[Max(u)][it[u \ {Max(u)}]]
  <2>1. u \in SUBSET (1..m)
    <3>1. \A x \in u : x \in 1..m
      BY <1>2
    <3> QED
      BY <3>1
  <2>2. u \ {Max(u)} \in SUBSET (1..m) /\ m + 1 \notin u \ {Max(u)}
    BY <1>2, <2>1
  <2>3. it[u] = f[u] /\ it[u \ {Max(u)}] = f[u \ {Max(u)}]
    BY <1>2, <2>1, <2>2
  <2> QED
    BY <2>1, <2>3 DEF Folds
<1>3. it \in [SUBSET (1..(m + 1)) -> T]
  BY <1>1, <1>2
<1> HIDE DEF it
<1>4. Folds(it, base, g, T, m + 1)
  BY <1>1, <1>2, <1>3 DEF Folds
<1> QED
  BY <1>4

LEMMA FoldExists ==
  ASSUME NEW T, NEW base \in T, NEW n \in Nat, NEW g \in [1..n -> [T -> T]]
  PROVE  \E it : Folds(it, base, g, T, n)
<1> DEFINE S == {m \in Nat : m <= n => \E it : Folds(it, base, g, T, m)}
<1>1. 0 \in S
  <2> DEFINE it == [u \in SUBSET (1..0) |-> base]
  <2>1. \A u \in SUBSET (1..0) : u = {}
    OBVIOUS
  <2>2. Folds(it, base, g, T, 0)
    BY <2>1 DEF Folds
  <2> QED
    BY <2>2
<1>2. ASSUME NEW m \in S
      PROVE  m + 1 \in S
  <2>1. SUFFICES ASSUME m + 1 <= n
                 PROVE  \E it : Folds(it, base, g, T, m + 1)
    OBVIOUS
  <2>2. \E f : Folds(f, base, g, T, m)
    BY <2>1
  <2> QED
    BY <2>1, <2>2, FoldGrows
<1> HIDE DEF S
<1>3. n \in S
  BY <1>1, <1>2, Induction DEF S
<1> QED
  BY <1>3 DEF S

(* it starts with base and takes every next index with g.                  *)
Extends(it, base, g, T, n) ==
  /\ it[{}] = base
  /\ \A m \in 1..n : it[1..(m - 1)] \in T => it[1..m] = g[m][it[1..(m - 1)]]

(* h is the run of the fold: what it has after each of the first n.        *)
Runs(h, it, base, g, T, n) ==
  /\ h \in [0..n -> T]
  /\ h[0] = base
  /\ \A m \in 1..n : h[m] = g[m][h[m - 1]]
  /\ it[1..n] = h[n]

(* Along a sequence a fold takes one element after another.                *)
LEMMA FoldRuns ==
  ASSUME NEW T, NEW base \in T, NEW n \in Nat, NEW g \in [1..n -> [T -> T]],
         NEW it, Extends(it, base, g, T, n)
  PROVE  \E h : Runs(h, it, base, g, T, n)
<1> DEFINE S == {m \in Nat : m <= n => it[1..m] \in T}
           h == [m \in 0..n |-> it[1..m]]
<1> USE DEF Extends
<1>1. 0 \in S
  <2>1. 1..0 = {}
    OBVIOUS
  <2> QED
    BY <2>1
<1>2. ASSUME NEW m \in S
      PROVE  m + 1 \in S
  <2>1. SUFFICES ASSUME m + 1 <= n
                 PROVE  it[1..(m + 1)] \in T
    OBVIOUS
  <2>2. m + 1 \in 1..n /\ (m + 1) - 1 = m /\ it[1..m] \in T
    BY <2>1
  <2>3. it[1..(m + 1)] = g[m + 1][it[1..m]]
    BY <2>2
  <2> QED
    BY <2>2, <2>3
<1>3. \A m \in 0..n : it[1..m] \in T
  <2>1. S = Nat
    <3> S \in SUBSET Nat
      OBVIOUS
    <3> HIDE DEF S
    <3> QED
      BY <1>1, <1>2, Induction
  <2> QED
    BY <2>1
<1>4. h \in [0..n -> T] /\ it[1..n] = h[n]
  BY <1>3
<1>5. h[0] = base
  <2>1. 1..0 = {}
    OBVIOUS
  <2> QED
    BY <2>1
<1>6. ASSUME NEW m \in 1..n
      PROVE  h[m] = g[m][h[m - 1]]
  <2>1. m - 1 \in 0..n /\ m \in 0..n
    OBVIOUS
  <2> QED
    BY <1>3, <2>1
<1> HIDE DEF h
<1> QED
  BY <1>4, <1>5, <1>6 DEF Runs

(* Indexes of a sequence.                                                  *)
LEMMA PrefixSets ==
  ASSUME NEW n \in Nat, NEW m \in 1..n
  PROVE  1..m \in SUBSET (1..n) /\ 1..m # {} /\ Max(1..m) = m /\ (1..m) \ {m} = 1..(m - 1)
<1>1. Max(1..m) = m
  BY MaxOfTop
<1> QED
  BY <1>1

LEMMA EmptySequence == \A A, s : s \in Seq(A) /\ Len(s) = 0 => s = <<>>
BY EmptySeq

(* A property of the empty sequence that every append keeps is one of all. *)
LEMMA SeqInduction ==
  ASSUME NEW A, NEW P \in SUBSET Seq(A),
         <<>> \in P, \A s \in P : \A e \in A : Append(s, e) \in P
  PROVE  P = Seq(A)
<1> DEFINE N == {n \in Nat : \A s \in Seq(A) : Len(s) = n => s \in P}
<1>1. 0 \in N
  BY EmptySequence
<1>2. ASSUME NEW n \in N, NEW s \in Seq(A), Len(s) = n + 1
      PROVE  s \in P
  <2>1. PICK u \in Seq(A), e \in A : s = Append(u, e)
    <3>1. s # <<>>
      BY <1>2, EmptySeq
    <3> QED
      BY <3>1, SequenceEmptyOrAppend
  <2>2. Len(u) = n
    BY <1>2, <2>1, AppendProperties, LenProperties
  <2> QED
    BY <2>1, <2>2
<1>3. N = Nat
  <2>1. ASSUME NEW n \in N
        PROVE  n + 1 \in N
    <3>1. \A s \in Seq(A) : Len(s) = n + 1 => s \in P
      BY <1>2
    <3> QED
      BY <3>1
  <2> N \in SUBSET Nat
    OBVIOUS
  <2> HIDE DEF N
  <2> QED
    BY <1>1, <2>1, Induction
<1> QED
  BY <1>3, LenProperties

-----------------------------------------------------------------------------
(* The elements of a sequence that belong to a set.                        *)
(* h[m] are the elements of S among the first m of s.                      *)
Collects(h, s, S, A) ==
  /\ h \in [0..Len(s) -> Seq(A)]
  /\ h[0] = <<>>
  /\ \A m \in 1..Len(s) :
       h[m] = IF s[m] \in S THEN Append(h[m - 1], s[m]) ELSE h[m - 1]

LEMMA OnlySteps ==
  ASSUME NEW A, NEW s \in Seq(A), NEW S
  PROVE  \E h : Collects(h, s, S, A) /\ Only(s, S) = h[Len(s)]
<1> DEFINE n == Len(s)
           g == [i \in 1..n |-> [r \in Seq(A) |-> IF s[i] \in S THEN Append(r, s[i]) ELSE r]]
           F(it) == it = [u \in SUBSET DOMAIN s |->
                            IF u = {} THEN <<>>
                            ELSE IF s[Max(u)] \in S THEN Append(it[u \ {Max(u)}], s[Max(u)])
                                                    ELSE it[u \ {Max(u)}]]
           f == CHOOSE it : F(it)
<1>1. Only(s, S) = f[DOMAIN s]
  BY DEF Only, FoldLeft, MapThenFoldSet
<1>2. n \in Nat /\ DOMAIN s = 1..n /\ \A i \in 1..n : s[i] \in A
  BY LenProperties, ElementOfSeq
<1>3. g \in [1..n -> [Seq(A) -> Seq(A)]] /\ <<>> \in Seq(A)
  BY <1>2
<1>4. \A i \in 1..n : \A r \in Seq(A) :
        g[i][r] = IF s[i] \in S THEN Append(r, s[i]) ELSE r
  OBVIOUS
<1> HIDE DEF g, n
<1>5. \E it : F(it)
  <2>1. PICK it : Folds(it, <<>>, g, Seq(A), n)
    BY <1>2, <1>3, FoldExists
  <2>2. ASSUME NEW u \in SUBSET (1..n), u # {}
        PROVE  Max(u) \in 1..n /\ it[u \ {Max(u)}] \in Seq(A)
    <3>1. Max(u) \in u
      BY <1>2, <2>2, MaxIsMember
    <3> QED
      BY <2>1, <3>1 DEF Folds
  <2> DEFINE G(u) == IF u = {} THEN <<>>
                     ELSE IF s[Max(u)] \in S THEN Append(it[u \ {Max(u)}], s[Max(u)])
                                             ELSE it[u \ {Max(u)}]
  <2>3. ASSUME NEW u \in SUBSET (1..n)
        PROVE  it[u] = G(u)
    <3>1. CASE u = {}
      BY <2>1, <3>1 DEF Folds
    <3>2. CASE u # {}
      <4>1. it[u] = g[Max(u)][it[u \ {Max(u)}]]
        BY <2>1, <3>2 DEF Folds
      <4> QED
        BY <1>4, <2>2, <3>2, <4>1
    <3> QED
      BY <3>1, <3>2
  <2>4. it = [u \in SUBSET DOMAIN s |-> it[u]]
    BY <1>2, <2>1 DEF Folds
  <2> HIDE DEF G
  <2>5. it = [u \in SUBSET DOMAIN s |-> G(u)]
    BY <1>2, <2>3, <2>4
  <2> QED
    BY <2>5 DEF G
<1>6. F(f)
  BY <1>5
<1> HIDE DEF f
<1>7. f[{}] = <<>>
  BY <1>6
<1>8. ASSUME NEW m \in 1..n, f[1..(m - 1)] \in Seq(A)
      PROVE  f[1..m] = g[m][f[1..(m - 1)]]
  <2>1. /\ 1..m \in SUBSET DOMAIN s /\ 1..m # {}
        /\ Max(1..m) = m /\ (1..m) \ {m} = 1..(m - 1)
    BY <1>2, PrefixSets
  <2>2. f[1..m] = IF s[m] \in S THEN Append(f[1..(m - 1)], s[m]) ELSE f[1..(m - 1)]
    BY <1>6, <2>1
  <2> QED
    BY <1>4, <1>8, <2>2
<1>9. PICK h : Runs(h, f, <<>>, g, Seq(A), n)
  <2>1. Extends(f, <<>>, g, Seq(A), n)
    BY <1>7, <1>8 DEF Extends
  <2>2. n \in Nat
    BY <1>2
  <2>3. <<>> \in Seq(A)
    BY <1>3
  <2>4. g \in [1..n -> [Seq(A) -> Seq(A)]]
    BY <1>3
  <2> QED
    BY <2>1, <2>2, <2>3, <2>4, FoldRuns
<1> USE DEF Runs
<1>10. \A m \in 1..n : h[m] = IF s[m] \in S THEN Append(h[m - 1], s[m]) ELSE h[m - 1]
  <2>1. \A m \in 1..n : h[m - 1] \in Seq(A)
    BY <1>2, <1>9
  <2> QED
    BY <1>4, <1>9, <2>1
<1> QED
  BY <1>1, <1>2, <1>9, <1>10 DEF n, Collects


LEMMA OnlyOfEmpty == ASSUME NEW S PROVE Only(<<>>, S) = <<>>
<1>1. <<>> \in Seq({}) /\ Len(<<>>) = 0
  BY EmptySeq
<1>2. \E h : Collects(h, <<>>, S, {}) /\ Only(<<>>, S) = h[Len(<<>>)]
  BY <1>1, OnlySteps
<1> QED
  BY <1>1, <1>2 DEF Collects

LEMMA OnlyType ==
  ASSUME NEW A, NEW s \in Seq(A), NEW S
  PROVE  Only(s, S) \in Seq(A)
<1>1. \E h : Collects(h, s, S, A) /\ Only(s, S) = h[Len(s)]
  BY OnlySteps
<1> QED
  BY <1>1, LenProperties DEF Collects

(* Two sequences that agree on their first n elements.                     *)
LEMMA CollectsSame ==
  ASSUME NEW A, NEW S, NEW s \in Seq(A), NEW a \in Seq(A), Len(s) <= Len(a),
         \A i \in 1..Len(s) : a[i] = s[i],
         NEW h, Collects(h, s, S, A), NEW g, Collects(g, a, S, A)
  PROVE  g[Len(s)] = h[Len(s)]
<1> DEFINE n == Len(s)
           l == Len(a)
           N == {m \in Nat : m <= n => g[m] = h[m]}
<1>1. n \in Nat /\ l \in Nat /\ n <= l /\ \A i \in 1..n : a[i] = s[i]
  BY LenProperties
<1>2. /\ g[0] = h[0]
      /\ \A m \in 1..n :
           h[m] = IF s[m] \in S THEN Append(h[m - 1], s[m]) ELSE h[m - 1]
      /\ \A m \in 1..l :
           g[m] = IF a[m] \in S THEN Append(g[m - 1], a[m]) ELSE g[m - 1]
  BY DEF Collects
<1> HIDE DEF n, l
<1>3. 0 \in N
  BY <1>2
<1>4. ASSUME NEW m \in N, m + 1 <= n
      PROVE  g[m + 1] = h[m + 1]
  <2>1. m + 1 \in 1..n /\ m + 1 \in 1..l /\ (m + 1) - 1 = m /\ g[m] = h[m]
    BY <1>1, <1>4
  <2> QED
    BY <1>1, <1>2, <2>1
<1>5. N = Nat
  <2>1. \A m \in N : m + 1 \in N
    BY <1>4
  <2> N \in SUBSET Nat
    OBVIOUS
  <2> HIDE DEF N
  <2> QED
    BY <1>3, <2>1, Induction
<1>6. n \in N
  BY <1>1, <1>5
<1>7. n <= n
  BY <1>1
<1> QED
  BY <1>6, <1>7 DEF n

(* Only takes a sequence element by element.                               *)
LEMMA OnlyOfAppend ==
  ASSUME NEW A, NEW s \in Seq(A), NEW e \in A, NEW S
  PROVE  Only(Append(s, e), S) = IF e \in S THEN Append(Only(s, S), e) ELSE Only(s, S)
<1> DEFINE a == Append(s, e)
           n == Len(s)
<1>1. /\ n \in Nat /\ a \in Seq(A) /\ Len(a) = n + 1
      /\ \A i \in 1..n : a[i] = s[i]
      /\ a[n + 1] = e
  BY AppendProperties, LenProperties
<1>2. PICK h : Collects(h, s, S, A) /\ Only(s, S) = h[n]
  BY OnlySteps
<1> HIDE DEF a
<1>3. PICK g : Collects(g, a, S, A) /\ Only(a, S) = g[Len(a)]
  BY <1>1, OnlySteps
<1>4. g[n] = h[n]
  BY <1>1, <1>2, <1>3, CollectsSame
<1>5. n + 1 \in 1..Len(a) /\ (n + 1) - 1 = n
  BY <1>1
<1>6. g[n + 1] = IF a[n + 1] \in S THEN Append(g[n], a[n + 1]) ELSE g[n]
  BY <1>3, <1>5 DEF Collects
<1> QED
  BY <1>1, <1>2, <1>3, <1>4, <1>6 DEF a

(* A suffix grows with its sequence.                                       *)
LEMMA SuffixOfAppend ==
  ASSUME NEW A, NEW u \in Seq(A), NEW e \in A, NEW b \in 0..Len(u)
  PROVE  SubSeq(Append(u, e), b + 1, Len(u) + 1) = Append(SubSeq(u, b + 1, Len(u)), e)
<1> DEFINE v == Append(u, e)
           n == Len(u)
           p == SubSeq(u, b + 1, n)
           y == SubSeq(v, b + 1, n + 1)
           x == Append(p, e)
<1>1. /\ n \in Nat /\ v \in Seq(A) /\ Len(v) = n + 1 /\ b \in 0..n
      /\ \A i \in 1..n : v[i] = u[i] /\ u[i] \in A
      /\ v[n + 1] = e
  BY AppendProperties, LenProperties, ElementOfSeq
<1> HIDE DEF v, n
<1>2. /\ p \in Seq(A) /\ Len(p) = n - b
      /\ \A i \in 1..(n - b) : p[i] = u[b + i]
  <2>1. \A i \in (b + 1)..n : u[i] \in A
    BY <1>1
  <2>2. b + 1 \in Int /\ n \in Int
    BY <1>1
  <2>3. /\ p \in Seq(A)
        /\ Len(p) = IF b + 1 <= n THEN n - (b + 1) + 1 ELSE 0
        /\ \A i \in 1..(n - (b + 1) + 1) : p[i] = u[b + 1 + i - 1]
    BY <2>1, <2>2, SubSeqProperties
  <2> HIDE DEF p
  <2> QED
    BY <1>1, <2>3
<1>3. /\ y \in Seq(A) /\ Len(y) = n - b + 1
      /\ \A i \in 1..(n - b + 1) : y[i] = v[b + i]
  <2> DEFINE l == n + 1
  <2>1. \A i \in (b + 1)..l : v[i] \in A
    BY <1>1
  <2>2. b + 1 \in Int /\ l \in Int /\ y = SubSeq(v, b + 1, l)
    BY <1>1
  <2> HIDE DEF l, y
  <2>3. /\ y \in Seq(A)
        /\ Len(y) = IF b + 1 <= l THEN l - (b + 1) + 1 ELSE 0
        /\ \A i \in 1..(l - (b + 1) + 1) : y[i] = v[b + 1 + i - 1]
    BY <2>1, <2>2, SubSeqProperties
  <2> QED
    BY <1>1, <2>3 DEF l
<1> HIDE DEF p, y
<1>4. /\ x \in Seq(A) /\ Len(x) = n - b + 1
      /\ \A i \in 1..(n - b) : x[i] = u[b + i]
      /\ x[n - b + 1] = e
  BY <1>1, <1>2, AppendProperties
<1> HIDE DEF x
<1>5. ASSUME NEW i \in 1..Len(x)
      PROVE  x[i] = y[i]
  <2>1. CASE i = n - b + 1
    <3>1. b + i = n + 1 /\ i \in 1..(n - b + 1)
      BY <1>1, <1>4, <2>1
    <3> QED
      BY <1>1, <1>3, <1>4, <2>1, <3>1
  <2>2. CASE i # n - b + 1
    <3>1. i \in 1..(n - b) /\ i \in 1..(n - b + 1) /\ b + i \in 1..n
      BY <1>1, <1>4, <2>2
    <3> QED
      BY <1>1, <1>3, <1>4, <3>1
  <2> QED
    BY <2>1, <2>2
<1>6. x = y
  BY <1>3, <1>4, <1>5, SeqEqual
<1> QED
  BY <1>6 DEF x, y, p, v, n

(* When the elements of S are those from some place on, they are a suffix. *)
IsFrom(u, S, b) == \A i \in 1..Len(u) : u[i] \in S <=> i > b

LEMMA OnlyOfSuffix ==
  ASSUME NEW A, NEW s \in Seq(A), NEW S, NEW a \in 0..Len(s), IsFrom(s, S, a)
  PROVE  Only(s, S) = SubSeq(s, a + 1, Len(s))
<1> DEFINE P == {u \in Seq(A) : \A b \in 0..Len(u) :
                   IsFrom(u, S, b) => Only(u, S) = SubSeq(u, b + 1, Len(u))}
<1>1. <<>> \in P
  <2>1. \A b \in 0..0 : SubSeq(<<>>, b + 1, 0) = <<>>
    BY SubSeqEmpty
  <2> QED
    BY <2>1, OnlyOfEmpty, EmptySeq
<1>2. ASSUME NEW u \in P, NEW e \in A
      PROVE  Append(u, e) \in P
  <2> DEFINE v == Append(u, e)
             n == Len(u)
  <2>1. /\ u \in Seq(A) /\ n \in Nat /\ v \in Seq(A) /\ Len(v) = n + 1
        /\ \A i \in 1..n : v[i] = u[i]
        /\ v[n + 1] = e
    BY AppendProperties, LenProperties
  <2>2. \A b \in 0..n : IsFrom(u, S, b) => Only(u, S) = SubSeq(u, b + 1, n)
    OBVIOUS
  <2>3. Only(v, S) = IF e \in S THEN Append(Only(u, S), e) ELSE Only(u, S)
    BY OnlyOfAppend
  <2>4. \A b \in 0..n : SubSeq(v, b + 1, n + 1) = Append(SubSeq(u, b + 1, n), e)
    BY SuffixOfAppend
  <2> HIDE DEF v, n, P
  <2>5. ASSUME NEW b \in 0..(n + 1), IsFrom(v, S, b)
        PROVE  Only(v, S) = SubSeq(v, b + 1, n + 1)
    <3>1. n + 1 \in 1..(n + 1) /\ \A i \in 1..n : i \in 1..(n + 1)
      BY <2>1
    <3>2. e \in S <=> n + 1 > b
      BY <2>1, <2>5, <3>1 DEF IsFrom
    <3>3. \A i \in 1..n : u[i] \in S <=> i > b
      BY <2>1, <2>5, <3>1 DEF IsFrom
    <3>4. CASE b = n + 1
      <4>1. \A i \in 1..n : ~(i > b) /\ ~(i > n)
        BY <2>1, <3>4
      <4>2. IsFrom(u, S, n)
        BY <3>3, <4>1 DEF IsFrom, n
      <4>3. Only(u, S) = SubSeq(u, n + 1, n)
        BY <2>1, <2>2, <4>2
      <4>4. SubSeq(u, n + 1, n) = <<>> /\ SubSeq(v, b + 1, n + 1) = <<>>
        BY <2>1, <3>4, SubSeqEmpty
      <4>5. e \notin S
        BY <2>1, <3>2, <3>4
      <4> QED
        BY <2>3, <4>3, <4>4, <4>5
    <3>5. CASE b # n + 1
      <4>1. b \in 0..n /\ n + 1 > b
        BY <2>1, <3>5
      <4>2. IsFrom(u, S, b)
        BY <3>3 DEF IsFrom, n
      <4> QED
        BY <2>2, <2>3, <2>4, <3>2, <4>1, <4>2
    <3> QED
      BY <3>4, <3>5
  <2> QED
    BY <2>1, <2>5 DEF P, v
<1>3. P = Seq(A)
  <2>1. \A u \in P : \A e \in A : Append(u, e) \in P
    BY <1>2
  <2> P \in SUBSET Seq(A)
    OBVIOUS
  <2> HIDE DEF P
  <2> QED
    BY <1>1, <2>1, SeqInduction
<1> QED
  BY <1>3

-----------------------------------------------------------------------------
(* Sorted sets, which live in a dict of their own.                         *)

LEMMA WriteZSet ==
  ASSUME NEW d, WellFormed(d), NEW k \in Key, NEW z \in ZSet \cup {None},
         z # None => MembersOf(z) # {} /\ IsFiniteSet(MembersOf(z))
  PROVE  WellFormed([d EXCEPT !.zsets[k] = z])
<1> DEFINE e == [d EXCEPT !.zsets[k] = z]
<1>1. e \in DB /\ e.data = d.data /\ e.expires = d.expires
  BY DEF WellFormed, DB
<1>2. e.zsets[k] = z /\ \A j \in Key \ {k} : e.zsets[j] = d.zsets[j]
  BY DEF WellFormed, DB
<1>3. ZSetsNotEmpty(e) /\ ZSetsFinite(e)
  BY <1>2 DEF WellFormed, ZSetsNotEmpty, ZSetsFinite
<1> QED
  BY <1>1, <1>3 DEF WellFormed, DeadlinesOnStrings, ListsNotEmpty, StreamsOrdered

LEMMA ZAddKeeps ==
  ASSUME NEW d, WellFormed(d), NEW k \in Key,
         NEW pairs \in Seq(Int \X Member) \ {<<>>}
  PROVE  WellFormed(ZAdd(d, k, pairs).db)
<1> DEFINE old == Members(d, k)
           new == {pairs[i][2] : i \in DOMAIN pairs}
           Hits(m) == {i \in 1..Len(pairs) : pairs[i][2] = m}
           scored == [m \in Member |->
                        IF m \in new THEN pairs[Max(Hits(m))][1]
                        ELSE IF m \in old THEN d.zsets[k][m] ELSE None]
<1>1. /\ DOMAIN pairs = 1..Len(pairs) /\ Len(pairs) \in Nat \ {0}
      /\ \A i \in 1..Len(pairs) : pairs[i][1] \in Int /\ pairs[i][2] \in Member
  BY LenProperties, EmptySeq, ElementOfSeq
<1>2. ASSUME NEW m \in new
      PROVE  pairs[Max(Hits(m))][1] \in Int
  <2>1. Hits(m) \in SUBSET (1..Len(pairs)) /\ Hits(m) # {}
    BY <1>1
  <2>2. Max(Hits(m)) \in Hits(m)
    BY <1>1, <2>1, MaxIsMember
  <2> QED
    BY <1>1, <2>2
<1>3. ASSUME NEW m \in old
      PROVE  d.zsets[k][m] \in Int \cup {None}
  <2>1. d.zsets[k] # None /\ m \in Member
    BY DEF Members, MembersOf
  <2> QED
    BY <2>1 DEF WellFormed, DB, ZSet
<1>4. scored \in ZSet
  BY <1>2, <1>3 DEF ZSet
<1>5. MembersOf(scored) # {}
  <2>1. pairs[1][2] \in new /\ pairs[1][2] \in Member
    BY <1>1
  <2>2. scored[pairs[1][2]] \in Int
    BY <1>2, <2>1
  <2> QED
    BY <2>1, <2>2, SentinelsAreApart DEF MembersOf, Str
<1>9. IsFiniteSet(MembersOf(scored))
  <2>1. IsFiniteSet(old)
    BY FS_EmptySet DEF WellFormed, ZSetsFinite, Members
  <2>2. [i \in 1..Len(pairs) |-> pairs[i][2]] \in Surjection(1..Len(pairs), new)
    BY <1>1 DEF Surjection
  <2>3. Len(pairs) \in Nat
    BY <1>1
  <2>4. IsFiniteSet(new)
    BY <2>2, <2>3, FS_NatSurjection DEF ExistsSurjection
  <2>5. IsFiniteSet(old \cup new)
    BY <2>1, <2>4, FS_Union
  <2>6. MembersOf(scored) \subseteq old \cup new
    BY DEF MembersOf
  <2> QED
    BY <2>5, <2>6, FS_Subset
<1>6. WellFormed([d EXCEPT !.zsets[k] = scored])
  BY <1>4, <1>5, <1>9, WriteZSet
<1>7. ASSUME NEW m \in new
      PROVE  SelectLastInSeq(pairs, LAMBDA p : p[2] = m) = Max(Hits(m))
  BY <1>1 DEF SelectLastInSeq
<1>8. ZAdd(d, k, pairs).db = [d EXCEPT !.zsets[k] = scored]
  BY <1>7 DEF ZAdd, Result
<1> QED
  BY <1>6, <1>8

LEMMA ZRemKeeps ==
  ASSUME NEW d, WellFormed(d), NEW k \in Key, NEW ms
  PROVE  WellFormed(ZRem(d, k, ms).db)
<1> DEFINE kept == Members(d, k) \ ms
           z == [m \in Member |-> IF m \in kept THEN d.zsets[k][m] ELSE None]
<1>1. CASE kept = {}
  <2>1. WellFormed([d EXCEPT !.zsets[k] = None])
    BY WriteZSet
  <2> QED
    BY <1>1, <2>1 DEF ZRem, Result
<1>2. CASE kept # {}
  <2>1. d.zsets[k] # None /\ d.zsets[k] \in ZSet
    BY <1>2 DEF Members, WellFormed, DB
  <2>2. z \in ZSet
    BY <2>1 DEF ZSet
  <2>3. MembersOf(z) # {}
    BY <1>2, <2>1 DEF MembersOf, Members
  <2>4. IsFiniteSet(MembersOf(z))
    <3>1. IsFiniteSet(MembersOf(d.zsets[k]))
      BY <2>1 DEF WellFormed, ZSetsFinite
    <3>2. MembersOf(z) \subseteq MembersOf(d.zsets[k])
      BY <2>1 DEF MembersOf, Members
    <3> QED
      BY <3>1, <3>2, FS_Subset
  <2>5. WellFormed([d EXCEPT !.zsets[k] = z])
    BY <2>2, <2>3, <2>4, WriteZSet
  <2> QED
    BY <1>2, <2>5 DEF ZRem, Result
<1> QED
  BY <1>1, <1>2

-----------------------------------------------------------------------------
(* The command table.                                                      *)

Readers == {"GET", "LLEN", "LRANGE", "TYPE", "XRANGE", "XREAD"}
Writers == {"SET", "DEL", "INCR", "RPUSH", "LPUSH", "LPOP", "RPOP", "XADD",
            "ZADD", "ZREM"}

(* Arguments of the commands that touch the keyspace.                      *)
LEMMA ArgumentTypes ==
  ASSUME NEW c \in Command
  PROVE  /\ c.op \in Readers \cup Writers => c.key \in Key
         /\ c.op = "SET" => c.val \in Str /\ c.ttl \in Int \cup {None}
         /\ c.op \in {"RPUSH", "LPUSH"} => c.vals \in Seq(Str)
         /\ c.op \in {"LPOP", "RPOP"} => c.count \in Nat \cup {None}
         /\ c.op = "XADD" => c.ms \in Nat \cup {None} /\ c.seq \in Int \cup {None}
         /\ c.op = "ZADD" => c.pairs \in Seq(Int \X Member) \ {<<>>}
BY DEF Command, Keyed, Readers, Writers

(* A reader changes the keyspace only by purging the key it reads.         *)
LEMMA ReadersOnlyPurge ==
  ASSUME NEW d, NEW t, NEW c, c.op \in Readers
  PROVE  Dispatch(d, t, c).db = Purge(d, t, c.key)
<1>1. CASE c.op = "GET"
  BY <1>1 DEF Dispatch, Get, Result
<1>2. CASE c.op = "LLEN"
  BY <1>2 DEF Dispatch, LLen, Result
<1>3. CASE c.op = "LRANGE"
  BY <1>3 DEF Dispatch, LRange, Result
<1>4. CASE c.op = "TYPE"
  BY <1>4 DEF Dispatch, GetType, Result
<1>5. CASE c.op = "XRANGE"
  BY <1>5 DEF Dispatch, XRange, Result
<1>6. CASE c.op = "XREAD"
  BY <1>6 DEF Dispatch, XRead, Result
<1> QED
  BY <1>1, <1>2, <1>3, <1>4, <1>5, <1>6 DEF Readers

LEMMA OthersKeepTheKeyspace ==
  ASSUME NEW d, NEW t, NEW c, c.op \notin Readers, c.op \notin Writers
  PROVE  Dispatch(d, t, c).db = d
BY DEF Dispatch, Readers, Writers, ZRange, ZRank, ZCard, ZScore, Result

(* Every command keeps a well-formed keyspace well-formed.                 *)
LEMMA DispatchKeeps ==
  ASSUME NEW d, WellFormed(d), NEW t \in Nat, NEW c \in Command
  PROVE  WellFormed(Dispatch(d, t, c).db)
<1>1. CASE c.op \in Readers
  BY <1>1, ReadersOnlyPurge, ArgumentTypes, PurgeKeeps
<1>2. CASE c.op = "SET"
  BY <1>2, ArgumentTypes, SetKeeps DEF Dispatch, Writers
<1>3. CASE c.op = "DEL"
  BY <1>3, ArgumentTypes, DeleteKeeps DEF Dispatch, Writers
<1>4. CASE c.op = "INCR"
  BY <1>4, ArgumentTypes, IncrKeeps DEF Dispatch, Writers
<1>5. CASE c.op = "RPUSH"
  BY <1>5, ArgumentTypes, RPushKeeps DEF Dispatch, Writers
<1>6. CASE c.op = "LPUSH"
  BY <1>6, ArgumentTypes, LPushKeeps DEF Dispatch, Writers
<1>7. CASE c.op = "LPOP"
  BY <1>7, ArgumentTypes, LPopKeeps DEF Dispatch, Writers
<1>8. CASE c.op = "RPOP"
  BY <1>8, ArgumentTypes, RPopKeeps DEF Dispatch, Writers
<1>9. CASE c.op = "XADD"
  <2>1. /\ c.key \in Key
        /\ c.ms \in Nat \cup {None}
        /\ c.seq \in Int \cup {None}
    BY <1>9, ArgumentTypes DEF Writers
  <2>2. CASE c.ms = None
    BY <1>9, <2>1, <2>2, XAddKeeps DEF Dispatch, XAddCommand
  <2>3. CASE c.ms # None
    BY <1>9, <2>1, <2>3, XAddKeeps DEF Dispatch, XAddCommand
  <2> QED
    BY <2>2, <2>3
<1>10. CASE c.op = "ZADD"
  BY <1>10, ArgumentTypes, ZAddKeeps DEF Dispatch, Writers
<1>11. CASE c.op = "ZREM"
  BY <1>11, ArgumentTypes, ZRemKeeps DEF Dispatch, Writers
<1>12. CASE c.op \notin Readers /\ c.op \notin Writers
  BY <1>12, OthersKeepTheKeyspace
<1> QED
  BY <1>1, <1>2, <1>3, <1>4, <1>5, <1>6, <1>7, <1>8, <1>9, <1>10, <1>11, <1>12
     DEF Writers

-----------------------------------------------------------------------------
(* Versions.  A command touches one key at most, and leaves it as it is or *)
(* moves its version forward: Tracks.  Plain pops are the exception.       *)

Same(d, e, j) ==
  /\ e.data[j] = d.data[j]
  /\ e.expires[j] = d.expires[j]
  /\ e.versions[j] = d.versions[j]

SameBut(d, e, k) == \A j \in Key \ {k} : Same(d, e, j)

Tracks(d, e, k) ==
  /\ SameBut(d, e, k)
  /\ Same(d, e, k) \/ e.versions[k] > d.versions[k]

(* What a pop without a count does to the list it finds.                   *)
PopsQuietly(d, e, k) ==
  /\ SameBut(d, e, k)
  /\ HasType(d.data[k], "list")
  /\ e.expires[k] = d.expires[k]
  /\ e.versions[k] = d.versions[k]

-----------------------------------------------------------------------------
(* The ways a method updates the dicts.                                    *)

LEMMA PurgeTracks ==
  ASSUME NEW d, WellFormed(d), NEW t, NEW k \in Key
  PROVE  /\ WellFormed(Purge(d, t, k))
         /\ Tracks(d, Purge(d, t, k), k)
<1> DEFINE x == [d EXCEPT !.data[k] = None, !.expires[k] = None]
<1>1. d \in DB
  BY DEF WellFormed
<1>2. /\ x.versions = d.versions
      /\ \A j \in Key \ {k} : x.data[j] = d.data[j] /\ x.expires[j] = d.expires[j]
  BY <1>1 DEF DB
<1>3. /\ Bump(x, k).data = x.data
      /\ Bump(x, k).expires = x.expires
      /\ Bump(x, k).versions = [d.versions EXCEPT ![k] = @ + 1]
  BY <1>1, <1>2 DEF DB, Bump
<1>4. d.versions \in [Key -> Nat]
  BY <1>1 DEF DB
<1>5. Tracks(d, Bump(x, k), k)
  <2> DEFINE e == Bump(x, k)
  <2>1. e.versions[k] > d.versions[k]
    BY <1>3, <1>4
  <2>2. \A j \in Key \ {k} : Same(d, e, j)
    BY <1>2, <1>3, <1>4 DEF Same
  <2> QED
    BY <2>1, <2>2 DEF Tracks, SameBut
<1>6. Tracks(d, d, k)
  BY DEF Tracks, Same, SameBut
<1> QED
  BY <1>5, <1>6, PurgeKeeps DEF Purge

(* p is d, or d with k purged.                                             *)
LEMMA WriteTracks ==
  ASSUME NEW d, WellFormed(d), NEW p, WellFormed(p), NEW k \in Key,
         Tracks(d, p, k), NEW v, NEW x
  PROVE  /\ Tracks(d, Bump([p EXCEPT !.data[k] = v], k), k)
         /\ Tracks(d, Bump([p EXCEPT !.data[k] = v, !.expires[k] = x], k), k)
<1> DEFINE e == Bump([p EXCEPT !.data[k] = v], k)
           f == Bump([p EXCEPT !.data[k] = v, !.expires[k] = x], k)
<1>1. d \in DB /\ p \in DB
  BY DEF WellFormed
<1>2. p.versions[k] >= d.versions[k] /\ d.versions[k] \in Nat /\ p.versions[k] \in Nat
  BY <1>1 DEF Tracks, Same, DB
<1>3. /\ e.versions = [p.versions EXCEPT ![k] = @ + 1]
      /\ e.expires = p.expires
      /\ e.data = [p.data EXCEPT ![k] = v]
      /\ f.versions = [p.versions EXCEPT ![k] = @ + 1]
      /\ f.expires = [p.expires EXCEPT ![k] = x]
      /\ f.data = [p.data EXCEPT ![k] = v]
  BY <1>1 DEF DB, Bump
<1>4. /\ p.versions \in [Key -> Nat]
      /\ DOMAIN p.expires = Key
      /\ DOMAIN p.data = Key
  BY <1>1 DEF DB
<1>5. SameBut(d, e, k) /\ SameBut(d, f, k)
  BY <1>3, <1>4 DEF Tracks, Same, SameBut
<1>6. e.versions[k] > d.versions[k] /\ f.versions[k] > d.versions[k]
  BY <1>2, <1>3, <1>4
<1> QED
  BY <1>5, <1>6 DEF Tracks

-----------------------------------------------------------------------------
(* The methods that write.                                                 *)

LEMMA SetTracks ==
  ASSUME NEW d, WellFormed(d), NEW t, NEW k \in Key, NEW s, NEW ttl
  PROVE  Tracks(d, Set(d, t, k, s, ttl).db, k)
<1>1. Tracks(d, d, k)
  BY DEF Tracks, Same, SameBut
<1> QED
  BY <1>1, WriteTracks DEF Set, Result

LEMMA DeleteTracks ==
  ASSUME NEW d, WellFormed(d), NEW t, NEW k \in Key
  PROVE  Tracks(d, Delete(d, t, k).db, k)
<1> DEFINE p == Purge(d, t, k)
           gone == [p EXCEPT !.data[k] = None, !.expires[k] = None]
<1>1. WellFormed(p) /\ Tracks(d, p, k)
  BY PurgeTracks
<1>2. CASE p.data[k] # None
  BY <1>1, <1>2, WriteTracks DEF Delete, Result
<1>3. CASE p.data[k] = None
  <2>1. p.expires[k] = None
    BY <1>1, <1>3, ListsDoNotExpire DEF HasType
  <2>2. /\ gone.data[k] = None
        /\ gone.expires[k] = None
        /\ gone.versions = p.versions
        /\ \A j \in Key \ {k} : gone.data[j] = p.data[j] /\ gone.expires[j] = p.expires[j]
    BY <1>1 DEF WellFormed, DB
  <2>3. Tracks(d, gone, k)
    BY <1>1, <1>3, <2>1, <2>2 DEF Tracks, Same, SameBut
  <2> QED
    BY <1>3, <2>3 DEF Delete, Result
<1> QED
  BY <1>2, <1>3

LEMMA IncrTracks ==
  ASSUME NEW d, WellFormed(d), NEW t, NEW k \in Key
  PROVE  Tracks(d, Incr(d, t, k).db, k)
BY PurgeTracks, WriteTracks DEF Incr, Result

LEMMA PushTracks ==
  ASSUME NEW d, WellFormed(d), NEW t, NEW k \in Key, NEW vals
  PROVE  /\ Tracks(d, RPush(d, t, k, vals).db, k)
         /\ Tracks(d, LPush(d, t, k, vals).db, k)
<1>1. Tracks(d, d, k)
  BY DEF Tracks, Same, SameBut
<1> QED
  BY <1>1, PurgeTracks, WriteTracks DEF RPush, LPush, Result

(* XADD that does not raise.                                               *)
LEMMA XAddTracks ==
  ASSUME NEW d, WellFormed(d), NEW t, NEW k \in Key, NEW ms, NEW seq,
         XAdd(d, t, k, ms, seq).reply # Raise
  PROVE  Tracks(d, XAdd(d, t, k, ms, seq).db, k)
BY PurgeTracks, WriteTracks DEF XAdd, Result

(* The sorted sets are a dict of their own.                                *)
LEMMA ZSetsTrack ==
  ASSUME NEW d, WellFormed(d), NEW k \in Key, NEW pairs, NEW ms
  PROVE  /\ Tracks(d, ZAdd(d, k, pairs).db, k)
         /\ Tracks(d, ZRem(d, k, ms).db, k)
<1>1. \A z : LET e == [d EXCEPT !.zsets[k] = z]
             IN  e.data = d.data /\ e.expires = d.expires /\ e.versions = d.versions
  BY DEF WellFormed, DB
<1> QED
  BY <1>1 DEF ZAdd, ZRem, Result, Tracks, Same, SameBut

(* A pop with a count bumps; one without only takes from a list it finds.  *)
LEMMA CountedPopTracks ==
  ASSUME NEW d, WellFormed(d), NEW t, NEW k \in Key, NEW count, count # None
  PROVE  /\ Tracks(d, LPop(d, t, k, count).db, k)
         /\ Tracks(d, RPop(d, t, k, count).db, k)
BY PurgeTracks, WriteTracks DEF LPop, RPop, Replace, Result

LEMMA PlainPopTracks ==
  ASSUME NEW d, WellFormed(d), NEW t, NEW k \in Key, NEW e,
         e = LPop(d, t, k, None).db \/ e = RPop(d, t, k, None).db
  PROVE  Tracks(d, e, k) \/ PopsQuietly(d, e, k)
<1> DEFINE p == Purge(d, t, k)
<1>1. CASE WrongType(p.data[k], "list") \/ Items(p, k) = <<>>
  <2>1. e = p
    BY <1>1 DEF LPop, RPop, Result
  <2> QED
    BY <2>1, PurgeTracks
<1>2. CASE ~WrongType(p.data[k], "list") /\ Items(p, k) # <<>>
  <2>1. HasType(p.data[k], "list")
    BY <1>2 DEF WrongType, HasType, Items
  <2>2. p = d
    BY <2>1 DEF Purge, Bump, WellFormed, DB, HasType
  <2>3. PICK v : e = [d EXCEPT !.data[k] = v]
    BY <1>2, <2>2 DEF LPop, RPop, Replace, Result
  <2>4. /\ e.expires = d.expires
        /\ e.versions = d.versions
        /\ \A j \in Key \ {k} : e.data[j] = d.data[j]
    BY <2>3 DEF WellFormed, DB
  <2> QED
    BY <2>1, <2>2, <2>4 DEF PopsQuietly, Same, SameBut
<1> QED
  BY <1>1, <1>2

-----------------------------------------------------------------------------
(* The command table: every key is as it was, or its version has moved, or *)
(* a plain pop took an element from the list it held.                      *)

Follows(d, e, j, quiet) ==
  \/ Same(d, e, j)
  \/ e.versions[j] > d.versions[j]
  \/ /\ j \in quiet
     /\ HasType(d.data[j], "list")
     /\ e.expires[j] = d.expires[j]
     /\ e.versions[j] = d.versions[j]

Popped(c) == IF PlainPop(c) THEN {c.key} ELSE {}

LEMMA TracksFollows ==
  ASSUME NEW d, NEW e, NEW k \in Key, Tracks(d, e, k), NEW quiet, NEW j \in Key
  PROVE  Follows(d, e, j, quiet)
BY DEF Tracks, SameBut, Follows

LEMMA WritersTrack ==
  ASSUME NEW d, WellFormed(d), NEW t \in Nat, NEW c \in Command, c.op \in Writers,
         c.op = "XADD" => Dispatch(d, t, c).reply # Raise,
         NEW e, e = Dispatch(d, t, c).db
  PROVE  \/ Tracks(d, e, c.key)
         \/ PlainPop(c) /\ PopsQuietly(d, e, c.key)
<1>1. c.key \in Key
  BY ArgumentTypes
<1>2. CASE PlainPop(c)
  <2>1. e = LPop(d, t, c.key, None).db \/ e = RPop(d, t, c.key, None).db
    BY <1>2 DEF PlainPop, Dispatch
  <2> QED
    BY <1>1, <1>2, <2>1, PlainPopTracks
<1>3. CASE ~PlainPop(c)
  <2> SUFFICES Tracks(d, e, c.key)
    OBVIOUS
  <2>1. CASE c.op = "SET"
    BY <1>1, <2>1, SetTracks DEF Dispatch
  <2>2. CASE c.op = "DEL"
    BY <1>1, <2>2, DeleteTracks DEF Dispatch
  <2>3. CASE c.op = "INCR"
    BY <1>1, <2>3, IncrTracks DEF Dispatch
  <2>4. CASE c.op = "RPUSH" \/ c.op = "LPUSH"
    BY <1>1, <2>4, PushTracks DEF Dispatch
  <2>5. CASE c.op = "LPOP" \/ c.op = "RPOP"
    BY <1>1, <1>3, <2>5, CountedPopTracks DEF Dispatch, PlainPop
  <2>6. CASE c.op = "XADD"
    BY <1>1, <2>6, XAddTracks DEF Dispatch, XAddCommand
  <2>7. CASE c.op = "ZADD"
    BY <1>1, <2>7, ZSetsTrack DEF Dispatch
  <2>8. CASE c.op = "ZREM"
    BY <1>1, <2>8, ZSetsTrack DEF Dispatch
  <2>9. \/ c.op = "SET" \/ c.op = "DEL" \/ c.op = "INCR"
        \/ c.op = "RPUSH" \/ c.op = "LPUSH" \/ c.op = "LPOP" \/ c.op = "RPOP"
        \/ c.op = "XADD" \/ c.op = "ZADD" \/ c.op = "ZREM"
    BY DEF Writers
  <2> QED
    BY <2>1, <2>2, <2>3, <2>4, <2>5, <2>6, <2>7, <2>8, <2>9
<1> QED
  BY <1>2, <1>3

LEMMA DispatchFollows ==
  ASSUME NEW d, WellFormed(d), NEW t \in Nat, NEW c \in Command, NEW j \in Key,
         c.op = "XADD" => Dispatch(d, t, c).reply # Raise
  PROVE  Follows(d, Dispatch(d, t, c).db, j, Popped(c))
<1> DEFINE e == Dispatch(d, t, c).db
<1>1. CASE c.op \in Readers
  <2>1. c.key \in Key
    BY <1>1, ArgumentTypes
  <2>2. e = Purge(d, t, c.key)
    BY <1>1, ReadersOnlyPurge
  <2> QED
    BY <2>1, <2>2, PurgeTracks, TracksFollows
<1>2. CASE c.op \in Writers
  <2>1. c.key \in Key
    BY <1>2, ArgumentTypes
  <2>2. \/ Tracks(d, e, c.key)
        \/ PlainPop(c) /\ PopsQuietly(d, e, c.key)
    BY <1>2, WritersTrack
  <2> QED
    BY <2>1, <2>2, TracksFollows DEF PopsQuietly, SameBut, Follows, Popped
<1>3. CASE c.op \notin Readers /\ c.op \notin Writers
  <2>1. e = d
    BY <1>3, OthersKeepTheKeyspace
  <2> QED
    BY <2>1 DEF Follows, Same
<1> QED
  BY <1>1, <1>2, <1>3

(* An XADD that raises leaves a new stream behind, without a version.      *)
LEMMA VersionsNeverFall ==
  ASSUME NEW d, WellFormed(d), NEW t \in Nat, NEW c \in Command, NEW j \in Key
  PROVE  Dispatch(d, t, c).db.versions[j] >= d.versions[j]
<1> DEFINE e == Dispatch(d, t, c).db
<1>1. d.versions[j] \in Nat
  BY DEF WellFormed, DB
<1>2. CASE c.op = "XADD" => Dispatch(d, t, c).reply # Raise
  <2>1. Follows(d, e, j, Popped(c))
    BY <1>2, DispatchFollows
  <2>2. WellFormed(e)
    BY DispatchKeeps
  <2>3. e.versions[j] \in Nat
    BY <2>2 DEF WellFormed, DB
  <2> QED
    BY <1>1, <2>1, <2>3 DEF Follows, Same
<1>3. CASE c.op = "XADD" /\ Dispatch(d, t, c).reply = Raise
  <2> DEFINE p == Purge(d, t, c.key)
  <2>1. c.key \in Key
    BY <1>3, ArgumentTypes DEF Writers
  <2>2. PICK ms, seq : e = XAdd(d, t, c.key, ms, seq).db /\ XAdd(d, t, c.key, ms, seq).reply = Raise
    BY <1>3 DEF Dispatch, XAddCommand
  <2>3. PICK v : e = p \/ e = [p EXCEPT !.data[c.key] = v] \/ e = Bump([p EXCEPT !.data[c.key] = v], c.key)
    BY <2>2 DEF XAdd, Result
  <2>4. WellFormed(p) /\ Tracks(d, p, c.key)
    BY <2>1, PurgeTracks
  <2>5. p \in DB /\ p.versions \in [Key -> Nat]
    BY <2>4 DEF WellFormed, DB
  <2>6. p.versions[j] >= d.versions[j]
    BY <1>1, <2>4, <2>5 DEF Tracks, Same, SameBut
  <2>7. \A q : q = [p EXCEPT !.data[c.key] = v]
                 => q.versions = p.versions /\ Bump(q, c.key).versions = [p.versions EXCEPT ![c.key] = @ + 1]
    BY <2>5 DEF DB, Bump
  <2> QED
    BY <1>1, <2>1, <2>3, <2>5, <2>6, <2>7
<1> QED
  BY <1>2, <1>3

-----------------------------------------------------------------------------
(* What WATCH and EXEC see of a key: the version and the value after a     *)
(* purge.                                                                  *)

LEMMA Purged ==
  ASSUME NEW d, WellFormed(d), NEW t, NEW k \in Key
  PROVE  /\ GetVersion(d, t, k) \in Nat /\ d.versions[k] \in Nat
         /\ CASE d.data[k] # None /\ Expired(d, t, k) ->
                   /\ GetVersion(d, t, k) = d.versions[k] + 1
                   /\ Lookup(d, t, k) = None
                   /\ Purge(d, t, k).expires[k] = None
              [] OTHER ->
                   /\ GetVersion(d, t, k) = d.versions[k]
                   /\ Lookup(d, t, k) = d.data[k]
                   /\ Purge(d, t, k).expires[k] = d.expires[k]
<1> DEFINE x == [d EXCEPT !.data[k] = None, !.expires[k] = None]
<1>1. d \in DB /\ d.versions \in [Key -> Nat]
  BY DEF WellFormed, DB
<1>2. x.versions = d.versions /\ x.data[k] = None /\ x.expires[k] = None
  BY <1>1 DEF DB
<1>3. /\ Bump(x, k).versions = [d.versions EXCEPT ![k] = @ + 1]
      /\ Bump(x, k).data[k] = None
      /\ Bump(x, k).expires[k] = None
  BY <1>1, <1>2 DEF Bump, DB
<1> QED
  BY <1>1, <1>3 DEF GetVersion, Lookup, Purge

(* After a command, WATCH sees no older version, and a newer one than the  *)
(* counter held if it sees another value.                                  *)
LEMMA FollowsShows ==
  ASSUME NEW d, WellFormed(d), NEW e, WellFormed(e), NEW t \in Nat,
         NEW quiet, NEW j \in Key, Follows(d, e, j, quiet)
  PROVE  /\ GetVersion(e, t, j) >= GetVersion(d, t, j)
         /\ Lookup(e, t, j) # Lookup(d, t, j) /\ j \notin quiet
              => GetVersion(e, t, j) > d.versions[j]
<1>1. CASE Same(d, e, j)
  BY <1>1, Purged DEF Same, Expired
<1>2. CASE e.versions[j] > d.versions[j]
  BY <1>2, Purged
<1>3. CASE /\ j \in quiet
           /\ HasType(d.data[j], "list")
           /\ e.expires[j] = d.expires[j]
           /\ e.versions[j] = d.versions[j]
  <2>1. ~Expired(d, t, j) /\ ~Expired(e, t, j)
    BY <1>3 DEF Expired, WellFormed, DeadlinesOnStrings, HasType
  <2> QED
    BY <1>3, <2>1, Purged
<1> QED
  BY <1>1, <1>2, <1>3 DEF Follows

(* The same when the clock moves: an expired key shows its next version.   *)
LEMMA TickShows ==
  ASSUME NEW d, WellFormed(d), NEW t \in Nat, NEW j \in Key
  PROVE  /\ GetVersion(d, t + 1, j) >= GetVersion(d, t, j)
         /\ Lookup(d, t + 1, j) # Lookup(d, t, j) => GetVersion(d, t + 1, j) > d.versions[j]
<1>1. d.expires[j] \in Int \cup {None}
  BY DEF WellFormed, DB
<1>2. Expired(d, t, j) => Expired(d, t + 1, j)
  BY <1>1, SentinelsAreApart DEF Expired, Str
<1> QED
  BY <1>2, Purged

(* Purging shows what was there.                                           *)
LEMMA PurgeKeysShows ==
  ASSUME NEW d, WellFormed(d), NEW t \in Nat, NEW S
  PROVE  LET e == PurgeKeys(d, t, S)
         IN  /\ WellFormed(e)
             /\ \A j \in Key : /\ GetVersion(e, t, j) = GetVersion(d, t, j)
                               /\ Lookup(e, t, j) = Lookup(d, t, j)
                               /\ e.versions[j] >= d.versions[j]
<1> DEFINE e == PurgeKeys(d, t, S)
           At(k) == IF k \in S THEN Purge(d, t, k) ELSE d
<1>1. d \in DB
  BY DEF WellFormed
<1>2. /\ e.data = [k \in Key |-> At(k).data[k]]
      /\ e.expires = [k \in Key |-> At(k).expires[k]]
      /\ e.versions = [k \in Key |-> At(k).versions[k]]
      /\ e.zsets = d.zsets
  <2>1. \A A, B, C :
          LET f == [d EXCEPT !.data = A, !.expires = B, !.versions = C]
          IN  f.data = A /\ f.expires = B /\ f.versions = C /\ f.zsets = d.zsets
    BY <1>1 DEF DB
  <2> QED
    BY <2>1 DEF PurgeKeys
<1>3. \A k \in Key : WellFormed(At(k))
  BY PurgeKeeps
<1>4. WellFormed(e)
  <2>1. \A k \in Key : /\ At(k).data[k] \in Value \cup {None}
                       /\ At(k).expires[k] \in Int \cup {None}
                       /\ At(k).versions[k] \in Nat
    BY <1>3 DEF WellFormed, DB
  <2>2. e \in DB
    <3>1. \A A \in [Key -> Value \cup {None}], B \in [Key -> Int \cup {None}],
             C \in [Key -> Nat] :
            [d EXCEPT !.data = A, !.expires = B, !.versions = C] \in DB
      BY <1>1 DEF DB
    <3>2. /\ [k \in Key |-> At(k).data[k]] \in [Key -> Value \cup {None}]
          /\ [k \in Key |-> At(k).expires[k]] \in [Key -> Int \cup {None}]
          /\ [k \in Key |-> At(k).versions[k]] \in [Key -> Nat]
      BY <2>1
    <3> QED
      BY <3>1, <3>2 DEF PurgeKeys
  <2>3. \A k \in Key : e.data[k] = At(k).data[k] /\ e.expires[k] = At(k).expires[k]
    BY <1>2
  <2>4. DeadlinesOnStrings(e)
    BY <1>3, <2>3 DEF WellFormed, DeadlinesOnStrings
  <2>5. ListsNotEmpty(e)
    BY <1>3, <2>3 DEF WellFormed, ListsNotEmpty
  <2>6. StreamsOrdered(e)
    BY <1>3, <2>3 DEF WellFormed, StreamsOrdered
  <2>7. ZSetsNotEmpty(e) /\ ZSetsFinite(e)
    BY <1>2 DEF WellFormed, ZSetsNotEmpty, ZSetsFinite
  <2> QED
    BY <2>2, <2>4, <2>5, <2>6, <2>7 DEF WellFormed
<1>5. ASSUME NEW j \in Key
      PROVE  /\ GetVersion(e, t, j) = GetVersion(d, t, j)
             /\ Lookup(e, t, j) = Lookup(d, t, j)
             /\ e.versions[j] >= d.versions[j]
  <2>1. /\ e.data[j] = At(j).data[j]
        /\ e.expires[j] = At(j).expires[j]
        /\ e.versions[j] = At(j).versions[j]
    BY <1>2
  <2>2. CASE j \in S /\ d.data[j] # None /\ Expired(d, t, j)
    <3>1. e.data[j] = None /\ e.versions[j] = d.versions[j] + 1
      BY <2>1, <2>2, Purged DEF GetVersion, Lookup
    <3> QED
      BY <1>4, <2>2, <3>1, Purged
  <2>3. CASE ~(j \in S /\ d.data[j] # None /\ Expired(d, t, j))
    <3>1. Same(d, e, j)
      BY <2>1, <2>3 DEF Purge, Same
    <3> QED
      BY <1>4, <3>1, Purged DEF Same, Expired
  <2> QED
    BY <2>2, <2>3
<1> QED
  BY <1>4, <1>5

-----------------------------------------------------------------------------
(* What a command that achieves nothing leaves of a key.                   *)

(* Purging a key does not change what WATCH reads of any key.              *)
LEMMA PurgeIsUnseen ==
  ASSUME NEW d, WellFormed(d), NEW t, NEW k \in Key, NEW j \in Key
  PROVE  GetVersion(Purge(d, t, k), t, j) = GetVersion(d, t, j)
<1> DEFINE p == Purge(d, t, k)
<1>1. WellFormed(p) /\ Tracks(d, p, k)
  BY PurgeTracks
<1>2. CASE Same(d, p, j)
  BY <1>1, <1>2, Purged DEF Same, Expired
<1>3. CASE j = k
  <2>1. CASE d.data[k] # None /\ Expired(d, t, k)
    <3>1. p.data[k] = None /\ p.versions[k] = d.versions[k] + 1
      BY <2>1, Purged DEF Lookup, GetVersion
    <3> QED
      BY <1>1, <1>3, <2>1, <3>1, Purged
  <2>2. CASE ~(d.data[k] # None /\ Expired(d, t, k))
    BY <1>3, <2>2 DEF Purge
  <2> QED
    BY <2>1, <2>2
<1> QED
  BY <1>1, <1>2, <1>3 DEF Tracks, SameBut

(* A write that is answered with an error has at most purged its key.      *)
LEMMA RefusedWritesOnlyPurge ==
  ASSUME NEW d, NEW t, NEW c \in Command, c.op \in WriteCommands,
         Dispatch(d, t, c).reply = Error
  PROVE  \/ Dispatch(d, t, c).db = d
         \/ Dispatch(d, t, c).db = Purge(d, t, c.key)
<1> USE DEF Result, Dispatch, Error
<1>1. CASE c.op = "SET"
  BY <1>1 DEF Set, Ok
<1>2. CASE c.op = "DEL"
  BY <1>2 DEF Delete, Number
<1>3. CASE c.op = "INCR"
  BY <1>3 DEF Incr, Number
<1>4. CASE c.op = "RPUSH"
  BY <1>4 DEF RPush, Number
<1>5. CASE c.op = "LPUSH"
  BY <1>5 DEF LPush, Number
<1>6. CASE c.op = "LPOP"
  BY <1>6 DEF LPop, Nil, Bulk, Array
<1>7. CASE c.op = "RPOP"
  BY <1>7 DEF RPop, Nil, Bulk, Array
<1>8. CASE c.op = "XADD"
  BY <1>8 DEF XAddCommand, XAdd, Raise, EntryId
<1> QED
  BY <1>1, <1>2, <1>3, <1>4, <1>5, <1>6, <1>7, <1>8 DEF WriteCommands

(* Only a successful write that names a key, or a plain pop, changes what  *)
(* WATCH reads of it.                                                      *)
LEMMA OthersAreUnseen ==
  ASSUME NEW d, WellFormed(d), NEW t \in Nat, NEW c \in Command, NEW j \in Key,
         Dispatch(d, t, c).reply # Raise,
         j \notin Popped(c),
         c.op \in WriteCommands /\ Succeeds(d, t, c) => c.key # j
  PROVE  GetVersion(Dispatch(d, t, c).db, t, j) = GetVersion(d, t, j)
<1> DEFINE e == Dispatch(d, t, c).db
<1>1. CASE c.op \in Readers
  <2>1. c.key \in Key /\ e = Purge(d, t, c.key)
    BY <1>1, ArgumentTypes, ReadersOnlyPurge
  <2> QED
    BY <2>1, PurgeIsUnseen
<1>2. CASE c.op \in Writers
  <2>1. c.key \in Key
    BY <1>2, ArgumentTypes
  <2>2. CASE c.key # j
    <3>1. SameBut(d, e, c.key)
      BY <1>2, WritersTrack DEF Tracks, PopsQuietly
    <3>2. Same(d, e, j) /\ WellFormed(e)
      BY <2>2, <3>1, DispatchKeeps DEF SameBut
    <3> QED
      BY <3>2, Purged DEF Same, Expired
  <2>3. CASE c.key = j /\ c.op \in WriteCommands
    <3>1. Dispatch(d, t, c).reply = Error
      BY <2>3 DEF Succeeds
    <3>2. e = d \/ e = Purge(d, t, j)
      BY <2>3, <3>1, RefusedWritesOnlyPurge
    <3> QED
      BY <3>2, PurgeIsUnseen
  <2>4. CASE c.op = "ZADD" \/ c.op = "ZREM"
    <3>1. PICK z : e = [d EXCEPT !.zsets[c.key] = z]
      BY <2>4 DEF Dispatch, ZAdd, ZRem, Result
    <3>2. e.data = d.data /\ e.expires = d.expires /\ e.versions = d.versions
      BY <3>1 DEF WellFormed, DB
    <3>3. WellFormed(e)
      BY DispatchKeeps
    <3> QED
      BY <3>2, <3>3, Purged DEF Expired
  <2> QED
    BY <1>2, <2>2, <2>3, <2>4 DEF Writers, WriteCommands
<1>3. CASE c.op \notin Readers /\ c.op \notin Writers
  BY <1>3, OthersKeepTheKeyspace
<1> QED
  BY <1>1, <1>2, <1>3

-----------------------------------------------------------------------------
(* A write elsewhere: what a command that is passed on does to its key     *)
(* depends on the value of that key only, unless it counts from the clock. *)

(* Two keyspaces hold the same under k, and it does not expire.            *)
Agree(d, e, k) ==
  /\ e.data[k] = d.data[k]
  /\ d.expires[k] = None
  /\ e.expires[k] = None

LEMMA SameOutcome ==
  ASSUME NEW d, WellFormed(d), NEW e, WellFormed(e), NEW t, NEW u,
         NEW c, c.key \in Key, c.op \in WriteCommands, ~Relative(c),
         Agree(d, e, c.key)
  PROVE  /\ Agree(Dispatch(d, t, c).db, Dispatch(e, u, c).db, c.key)
         /\ Dispatch(d, t, c).reply = Dispatch(e, u, c).reply
<1> DEFINE k == c.key
           Alike(r, q) == Agree(r.db, q.db, k) /\ r.reply = q.reply
<1>1. /\ Purge(d, t, k) = d /\ Purge(e, u, k) = e
      /\ Items(d, k) = Items(e, k)
      /\ d.data[k] = e.data[k]
  BY DEF Purge, Expired, Items, Agree
<1>2. /\ Agree(d, e, k)
      /\ \A v : /\ Agree([d EXCEPT !.data[k] = v], [e EXCEPT !.data[k] = v], k)
                /\ Agree(Bump([d EXCEPT !.data[k] = v], k),
                         Bump([e EXCEPT !.data[k] = v], k), k)
                /\ Agree([d EXCEPT !.data[k] = v, !.expires[k] = None],
                         [e EXCEPT !.data[k] = v, !.expires[k] = None], k)
                /\ Agree(Bump([d EXCEPT !.data[k] = v, !.expires[k] = None], k),
                         Bump([e EXCEPT !.data[k] = v, !.expires[k] = None], k), k)
  BY DEF WellFormed, DB, Bump, Agree
<1>3. ASSUME NEW x, NEW y, NEW f, Agree(x, y, k)
      PROVE  Alike(Result(x, f), Result(y, f))
  BY <1>3 DEF Result
<1>4. /\ \A x : Alike(Result(d, x), Result(e, x))
      /\ \A v, x : Alike(Result([d EXCEPT !.data[k] = v], x),
                         Result([e EXCEPT !.data[k] = v], x))
      /\ \A v, x : Alike(Result(Bump([d EXCEPT !.data[k] = v], k), x),
                         Result(Bump([e EXCEPT !.data[k] = v], k), x))
      /\ \A v, x : Alike(Result([d EXCEPT !.data[k] = v, !.expires[k] = None], x),
                         Result([e EXCEPT !.data[k] = v, !.expires[k] = None], x))
      /\ \A v, x : Alike(Result(Bump([d EXCEPT !.data[k] = v, !.expires[k] = None], k), x),
                         Result(Bump([e EXCEPT !.data[k] = v, !.expires[k] = None], k), x))
  <2> HIDE DEF k, Alike
  <2> QED
    BY <1>2, <1>3, Zenon
<1> SUFFICES Alike(Dispatch(d, t, c), Dispatch(e, u, c))
  OBVIOUS
<1> HIDE DEF Alike, k
<1>5. CASE c.op = "SET"
  <2> DEFINE S(x) == Result(Bump([x EXCEPT !.data[k] = StrOf(c.val), !.expires[k] = None], k), Ok)
  <2>1. c.ttl = None
    BY <1>5 DEF Relative
  <2>2. Dispatch(d, t, c) = S(d) /\ Dispatch(e, u, c) = S(e)
    BY <1>5, <2>1 DEF Dispatch, Set, k
  <2>3. Alike(S(d), S(e))
    BY <1>4
  <2> QED
    BY <2>2, <2>3
<1>6. CASE c.op = "DEL"
  <2> DEFINE G(x) == [x EXCEPT !.data[k] = None, !.expires[k] = None]
             D(x) == IF x.data[k] # None THEN Result(Bump(G(x), k), Number(1))
                                         ELSE Result(G(x), Number(0))
  <2>1. Dispatch(d, t, c) = D(d) /\ Dispatch(e, u, c) = D(e)
    BY <1>1, <1>6 DEF Dispatch, Delete, k
  <2>2. /\ Alike(Result(Bump(G(d), k), Number(1)), Result(Bump(G(e), k), Number(1)))
        /\ Alike(Result(G(d), Number(0)), Result(G(e), Number(0)))
    BY <1>4
  <2> HIDE DEF G
  <2>3. Alike(D(d), D(e))
    BY <1>1, <2>2
  <2> QED
    BY <2>1, <2>3
<1>7. CASE c.op = "INCR"
  BY <1>1, <1>4, <1>7 DEF Dispatch, Incr, k
<1>8. CASE c.op = "RPUSH" \/ c.op = "LPUSH"
  BY <1>1, <1>4, <1>8 DEF Dispatch, RPush, LPush, WrongType, k
<1>9. CASE c.op = "LPOP"
  BY <1>1, <1>4, <1>9 DEF Dispatch, LPop, Replace, WrongType, k
<1>10. CASE c.op = "RPOP"
  BY <1>1, <1>4, <1>10 DEF Dispatch, RPop, Replace, WrongType, k
<1>11. CASE c.op = "XADD"
  BY <1>1, <1>4, <1>11 DEF Dispatch, XAddCommand, XAdd, WrongType, Relative, k
<1> QED
  BY <1>5, <1>6, <1>7, <1>8, <1>9, <1>10, <1>11 DEF WriteCommands

(* SET without a deadline, and DEL, give their key a value of their own.   *)
SettledAs(c) == IF c.op = "DEL" THEN None ELSE StrOf(c.val)

LEMMA Settled ==
  ASSUME NEW d, WellFormed(d), NEW t, NEW c, c.key \in Key, Settles(c)
  PROVE  /\ Dispatch(d, t, c).db.data[c.key] = SettledAs(c)
         /\ Dispatch(d, t, c).db.expires[c.key] = None
         /\ Dispatch(d, t, c).reply \notin {Error, Raise}
<1> DEFINE k == c.key
<1>1. WellFormed(Purge(d, t, k))
  BY PurgeKeeps
<1>2. \A p, v : WellFormed(p) =>
        LET e == [p EXCEPT !.data[k] = v, !.expires[k] = None]
        IN  /\ e.data[k] = v /\ e.expires[k] = None
            /\ Bump(e, k).data[k] = v /\ Bump(e, k).expires[k] = None
  BY DEF WellFormed, DB, Bump
<1>3. CASE c.op = "DEL"
  <2> DEFINE p == Purge(d, t, k)
             g == [p EXCEPT !.data[k] = None, !.expires[k] = None]
  <2>1. \/ Dispatch(d, t, c) = Result(Bump(g, k), Number(1))
        \/ Dispatch(d, t, c) = Result(g, Number(0))
    BY <1>3 DEF Dispatch, Delete
  <2>2. /\ g.data[k] = None /\ g.expires[k] = None
        /\ Bump(g, k).data[k] = None /\ Bump(g, k).expires[k] = None
    BY <1>1, <1>2
  <2> HIDE DEF g
  <2>3. SettledAs(c) = None
    BY <1>3 DEF SettledAs
  <2> QED
    BY <2>1, <2>2, <2>3 DEF Result, Number, Error, Raise
<1>4. CASE c.op = "SET" /\ c.ttl = None
  <2> DEFINE g == [d EXCEPT !.data[k] = StrOf(c.val), !.expires[k] = None]
  <2>1. Dispatch(d, t, c) = Result(Bump(g, k), Ok)
    BY <1>4 DEF Dispatch, Set
  <2>2. Bump(g, k).data[k] = StrOf(c.val) /\ Bump(g, k).expires[k] = None
    BY <1>2
  <2> HIDE DEF g
  <2>3. SettledAs(c) = StrOf(c.val)
    BY <1>4 DEF SettledAs
  <2> QED
    BY <2>1, <2>2, <2>3 DEF Result, Ok, Error, Raise
<1> QED
  BY <1>3, <1>4 DEF Settles

(* A key without a deadline is left alone by all that does not write it.   *)
LEMMA NotWritten ==
  ASSUME NEW d, WellFormed(d), NEW t \in Nat, NEW c \in Command, NEW k \in Key,
         d.expires[k] = None,
         Dispatch(d, t, c).reply # Raise,
         PassedOn(c, Dispatch(d, t, c).reply) => c.key # k
  PROVE  /\ Dispatch(d, t, c).db.data[k] = d.data[k]
         /\ Dispatch(d, t, c).db.expires[k] = None
<1> DEFINE e == Dispatch(d, t, c).db
<1>1. Purge(d, t, k) = d
  BY DEF Purge, Expired
<1>2. CASE c.op \in Readers
  <2>1. e = Purge(d, t, c.key) /\ c.key \in Key
    BY <1>2, ReadersOnlyPurge, ArgumentTypes
  <2>2. Tracks(d, Purge(d, t, c.key), c.key)
    BY <2>1, PurgeTracks
  <2> QED
    BY <1>1, <2>1, <2>2 DEF Tracks, SameBut, Same
<1>3. CASE c.op \in {"ZADD", "ZREM"}
  <2>1. PICK z : e = [d EXCEPT !.zsets[c.key] = z]
    BY <1>3 DEF Dispatch, ZAdd, ZRem, Result
  <2> QED
    BY <2>1 DEF WellFormed, DB
<1>4. CASE c.op \in WriteCommands /\ c.key # k
  <2>1. SameBut(d, e, c.key)
    BY <1>4, WritersTrack DEF Tracks, PopsQuietly, Writers, WriteCommands
  <2> QED
    BY <1>4, <2>1 DEF SameBut, Same
<1>5. CASE c.op \in WriteCommands /\ c.key = k
  <2>1. e = d \/ e = Purge(d, t, k)
    BY <1>5, RefusedWritesOnlyPurge DEF PassedOn
  <2> QED
    BY <1>1, <2>1
<1>6. CASE c.op \notin Readers \cup Writers
  BY <1>6, OthersKeepTheKeyspace
<1> QED
  BY <1>2, <1>3, <1>4, <1>5, <1>6 DEF Writers, WriteCommands

(* A write leaves the other keys alone, also one that raises.              *)
LEMMA WrittenElsewhere ==
  ASSUME NEW d, WellFormed(d), NEW t \in Nat, NEW c \in Command, NEW k \in Key,
         d.expires[k] = None, c.op \in WriteCommands, c.key # k
  PROVE  /\ Dispatch(d, t, c).db.data[k] = d.data[k]
         /\ Dispatch(d, t, c).db.expires[k] = None
<1> DEFINE e == Dispatch(d, t, c).db
<1>1. c.key \in Key /\ c.op \in Writers
  BY ArgumentTypes DEF Writers, WriteCommands
<1>2. CASE c.op # "XADD"
  <2>1. SameBut(d, e, c.key)
    BY <1>1, <1>2, WritersTrack DEF Tracks, PopsQuietly
  <2> QED
    BY <2>1 DEF SameBut, Same
<1>3. CASE c.op = "XADD"
  <2> DEFINE p == Purge(d, t, c.key)
  <2>1. WellFormed(p) /\ p.data[k] = d.data[k] /\ p.expires[k] = None
    BY <1>1, PurgeTracks DEF Tracks, SameBut, Same
  <2>2. PICK v : \/ e = p
                 \/ e = [p EXCEPT !.data[c.key] = v]
                 \/ e = Bump([p EXCEPT !.data[c.key] = v], c.key)
    <3>1. PICK ms, seq : e = XAdd(d, t, c.key, ms, seq).db
      BY <1>3 DEF Dispatch, XAddCommand
    <3> QED
      BY <3>1 DEF XAdd, Result
  <2> HIDE DEF p, e
  <2>3. p \in DB
    BY <2>1 DEF WellFormed
  <2> QED
    BY <1>1, <2>1, <2>2, <2>3 DEF DB, Bump, e
<1> QED
  BY <1>2, <1>3

(* What rebuilds a key: the outcome w of x, wherever the value is v.       *)
Rebuilds(v, x, w, k) ==
  \A e, u :
    WellFormed(e) /\ u \in Nat /\ e.data[k] = v /\ e.expires[k] = None
      => /\ Dispatch(e, u, x).db.data[k] = w
         /\ Dispatch(e, u, x).db.expires[k] = None
         /\ x.key = k => Dispatch(e, u, x).reply # Raise

(* A write that is passed on rebuilds a key that stays clean.              *)
LEMMA CleanIsRebuilt ==
  ASSUME NEW d, WellFormed(d), NEW t \in Nat, NEW c \in Command,
         PassedOn(c, Dispatch(d, t, c).reply),
         NEW clean, NEW k \in Key, k \in CleanAfter(clean, c),
         k \in clean => d.expires[k] = None
  PROVE  /\ Dispatch(d, t, c).db.expires[k] = None
         /\ \/ /\ Settles(c) /\ c.key = k
               /\ Dispatch(d, t, c).db.data[k] = SettledAs(c)
            \/ /\ k \in clean
               /\ Rebuilds(d.data[k], c, Dispatch(d, t, c).db.data[k], k)
<1>1. c.key \in Key /\ c.op \in WriteCommands
  BY ArgumentTypes DEF PassedOn, WriteCommands, Writers
<1>2. CASE Settles(c) /\ c.key = k
  BY <1>2, Settled
<1>3. CASE ~(Settles(c) /\ c.key = k)
  <2>1. k \in clean /\ d.expires[k] = None
    BY <1>3 DEF CleanAfter
  <2>2. CASE c.key # k
    <3>1. /\ Dispatch(d, t, c).db.expires[k] = None
          /\ Dispatch(d, t, c).db.data[k] = d.data[k]
      BY <1>1, <2>1, <2>2, WrittenElsewhere
    <3>2. \A e, u :
            WellFormed(e) /\ u \in Nat /\ e.expires[k] = None
              => /\ Dispatch(e, u, c).db.data[k] = e.data[k]
                 /\ Dispatch(e, u, c).db.expires[k] = None
      BY <1>1, <2>2, WrittenElsewhere
    <3>3. Rebuilds(d.data[k], c, d.data[k], k)
      BY <2>2, <3>2, Zenon DEF Rebuilds
    <3> QED
      BY <2>1, <3>1, <3>3
  <2>3. CASE c.key = k
    <3>1. ~Relative(c)
      BY <1>3, <2>1, <2>3 DEF CleanAfter
    <3>2. Agree(d, d, k)
      BY <2>1 DEF Agree
    <3>3. Dispatch(d, t, c).db.expires[k] = None
      BY <1>1, <2>3, <3>1, <3>2, SameOutcome DEF Agree
    <3>4. Dispatch(d, t, c).reply # Raise
      BY DEF PassedOn
    <3>5. Rebuilds(d.data[k], c, Dispatch(d, t, c).db.data[k], k)
      <4>1. \A e, u : WellFormed(e) /\ e.data[k] = d.data[k] /\ e.expires[k] = None
                      => /\ Agree(Dispatch(d, t, c).db, Dispatch(e, u, c).db, k)
                         /\ Dispatch(d, t, c).reply = Dispatch(e, u, c).reply
        <5>1. \A e : e.data[k] = d.data[k] /\ e.expires[k] = None => Agree(d, e, k)
          BY <2>1 DEF Agree
        <5> QED
          BY <1>1, <2>3, <3>1, <5>1, SameOutcome
      <4> QED
        BY <3>4, <4>1, Zenon DEF Agree, Rebuilds
    <3> QED
      BY <2>1, <3>3, <3>5
  <2> QED
    BY <2>2, <2>3
<1> QED
  BY <1>2, <1>3

-----------------------------------------------------------------------------
(* Queues.                                                                 *)

LEMMA InToSet ==
  ASSUME NEW S, NEW s \in Seq(S), NEW x
  PROVE  x \in ToSet(s) <=> \E i \in 1..Len(s) : s[i] = x
BY DEF ToSet

LEMMA AppendKeepsMembers ==
  ASSUME NEW S, NEW s \in Seq(S), NEW x \in S
  PROVE  /\ Append(s, x) \in Seq(S)
         /\ x \in ToSet(Append(s, x))
         /\ ToSet(s) \subseteq ToSet(Append(s, x))
<1> DEFINE a == Append(s, x)
<1>1. /\ a \in Seq(S)
      /\ Len(a) = Len(s) + 1
      /\ a[Len(s) + 1] = x
      /\ \A i \in 1..Len(s) : a[i] = s[i]
  BY AppendProperties
<1>2. Len(s) \in Nat
  BY LenProperties
<1> HIDE DEF a
<1>3. x \in ToSet(a)
  BY <1>1, <1>2, InToSet
<1>4. ASSUME NEW y \in ToSet(s)
      PROVE  y \in ToSet(a)
  <2>1. PICK i \in 1..Len(s) : s[i] = y
    BY InToSet
  <2>2. i \in 1..Len(a) /\ a[i] = y
    BY <1>1, <1>2, <2>1
  <2> QED
    BY <1>1, <2>2, InToSet
<1> QED
  BY <1>1, <1>3, <1>4 DEF a

LEMMA TailKeepsOthers ==
  ASSUME NEW S, NEW s \in Seq(S), s # <<>>
  PROVE  /\ Tail(s) \in Seq(S)
         /\ \A x \in ToSet(s) : x # Head(s) => x \in ToSet(Tail(s))
<1>1. /\ Tail(s) \in Seq(S)
      /\ Len(Tail(s)) = Len(s) - 1
      /\ \A i \in 1..Len(Tail(s)) : Tail(s)[i] = s[i + 1]
      /\ Head(s) = s[1]
      /\ Len(s) \in Nat /\ Len(s) > 0
  BY HeadTailProperties, EmptySeq, LenProperties
<1>2. ASSUME NEW x \in ToSet(s), x # Head(s)
      PROVE  x \in ToSet(Tail(s))
  <2>1. PICK i \in 1..Len(s) : s[i] = x
    BY InToSet
  <2>2. i # 1
    BY <1>1, <1>2, <2>1
  <2>3. i - 1 \in 1..Len(Tail(s)) /\ Tail(s)[i - 1] = x
    BY <1>1, <2>1, <2>2
  <2> QED
    BY <1>1, <2>3, InToSet
<1> QED
  BY <1>1, <1>2

(* RemoveFirst leaves out one element, or nothing.                         *)
Without(s, r, m) ==
  /\ m \in 1..Len(s)
  /\ Len(r) = Len(s) - 1
  /\ \A i \in 1..Len(r) : r[i] = IF i < m THEN s[i] ELSE s[i + 1]

LEMMA RemoveFirstShape ==
  ASSUME NEW S, NEW s \in Seq(S), NEW e
  PROVE  /\ RemoveFirst(s, e) \in Seq(S)
         /\ \/ e \notin ToSet(s) /\ RemoveFirst(s, e) = s
            \/ \E m \in 1..Len(s) : s[m] = e /\ Without(s, RemoveFirst(s, e), m)
<1>1. CASE ~ \E i \in 1..Len(s) : s[i] = e
  BY <1>1, InToSet DEF RemoveFirst
<1>2. CASE \E i \in 1..Len(s) : s[i] = e
  <2> DEFINE I == {i \in 1..Len(s) : s[i] = e}
             m == Min(I)
             l == SubSeq(s, 1, m - 1)
             r == SubSeq(s, m + 1, Len(s))
  <2>1. m \in I
    <3>1. I \subseteq Nat /\ I # {}
      BY <1>2
    <3>2. PICK n \in I : \A j \in I : n <= j
      BY <3>1, LeastNatural
    <3> QED
      BY <3>2 DEF Min
  <2>2. RemoveFirst(s, e) = l \o r
    BY <1>2 DEF RemoveFirst, RemoveAt, SelectInSeq
  <2>3. m \in 1..Len(s) /\ s[m] = e /\ Len(s) \in Nat
    BY <2>1, LenProperties
  <2> HIDE DEF I, m
  <2>4. /\ l \in Seq(S) /\ r \in Seq(S)
        /\ Len(l) = m - 1 /\ Len(r) = Len(s) - m
        /\ \A i \in 1..(m - 1) : l[i] = s[i]
        /\ \A i \in 1..(Len(s) - m) : r[i] = s[m + i]
    <3>1. \A i \in 1..Len(s) : s[i] \in S
      BY ElementOfSeq
    <3> QED
      BY <2>3, <3>1, LenProperties
  <2> HIDE DEF l, r
  <2>5. /\ l \o r \in Seq(S)
        /\ Len(l \o r) = Len(s) - 1
        /\ \A i \in 1..(Len(s) - 1) :
             (l \o r)[i] = IF i <= m - 1 THEN s[i] ELSE s[i + 1]
    <3>1. /\ l \o r \in Seq(S)
          /\ Len(l \o r) = Len(l) + Len(r)
          /\ \A i \in 1..(Len(l) + Len(r)) :
               (l \o r)[i] = IF i <= Len(l) THEN l[i] ELSE r[i - Len(l)]
      BY <2>4, ConcatProperties
    <3>2. \A i \in 1..(Len(s) - 1) :
            IF i <= m - 1 THEN l[i] = s[i]
                          ELSE i - (m - 1) \in 1..(Len(s) - m)
      BY <2>3, <2>4
    <3>3. \A i \in 1..(Len(s) - 1) : i > m - 1 => r[i - (m - 1)] = s[i + 1]
      BY <2>3, <2>4, <3>2
    <3>4. Len(l) + Len(r) = Len(s) - 1 /\ Len(l) = m - 1
      BY <2>3, <2>4
    <3>5. ASSUME NEW i \in 1..(Len(s) - 1)
          PROVE  (l \o r)[i] = IF i <= m - 1 THEN s[i] ELSE s[i + 1]
      <4>1. (l \o r)[i] = IF i <= m - 1 THEN l[i] ELSE r[i - (m - 1)]
        BY <3>1, <3>4
      <4>2. CASE i <= m - 1
        BY <3>2, <4>1, <4>2
      <4>3. CASE ~(i <= m - 1)
        <5>1. i > m - 1
          BY <2>3, <4>3
        <5> QED
          BY <3>3, <4>1, <4>3, <5>1
      <4> QED
        BY <4>2, <4>3
    <3> QED
      BY <3>1, <3>4, <3>5
  <2>6. Without(s, l \o r, m)
    <3>1. \A i \in 1..(Len(s) - 1) : i <= m - 1 <=> i < m
      BY <2>3
    <3>2. \A i \in 1..Len(l \o r) :
            (l \o r)[i] = IF i < m THEN s[i] ELSE s[i + 1]
      BY <2>5, <3>1
    <3> QED
      BY <2>3, <2>5, <3>2 DEF Without
  <2>7. \E n \in 1..Len(s) : s[n] = e /\ Without(s, l \o r, n)
    BY <2>3, <2>6
  <2>8. /\ RemoveFirst(s, e) \in Seq(S)
        /\ \E n \in 1..Len(s) : s[n] = e /\ Without(s, RemoveFirst(s, e), n)
    BY <2>2, <2>5, <2>7
  <2> QED
    BY <2>8
<1> QED
  BY <1>1, <1>2

LEMMA RemoveFirstKeepsOthers ==
  ASSUME NEW S, NEW s \in Seq(S), NEW e
  PROVE  /\ RemoveFirst(s, e) \in Seq(S)
         /\ \A x \in ToSet(s) : x # e => x \in ToSet(RemoveFirst(s, e))
<1> DEFINE r == RemoveFirst(s, e)
<1>1. /\ r \in Seq(S)
      /\ r = s \/ \E m \in 1..Len(s) : s[m] = e /\ Without(s, r, m)
  BY RemoveFirstShape
<1>2. Len(s) \in Nat
  BY LenProperties
<1> HIDE DEF r
<1>3. ASSUME NEW m \in 1..Len(s), s[m] = e, Without(s, r, m),
             NEW x \in ToSet(s), x # e
      PROVE  x \in ToSet(r)
  <2>1. PICK i \in 1..Len(s) : s[i] = x
    BY InToSet
  <2>2. CASE i < m
    <3>1. i \in 1..Len(r) /\ r[i] = x
      BY <1>2, <1>3, <2>1, <2>2 DEF Without
    <3> QED
      BY <1>1, <3>1, InToSet
  <2>3. CASE i > m
    <3>1. i - 1 \in 1..Len(r) /\ ~(i - 1 < m) /\ (i - 1) + 1 = i
      BY <1>2, <1>3, <2>1, <2>3 DEF Without
    <3>2. r[i - 1] = x
      BY <1>3, <2>1, <3>1 DEF Without
    <3> QED
      BY <1>1, <3>1, <3>2, InToSet
  <2>4. i # m
    BY <1>3, <2>1
  <2> QED
    BY <1>2, <2>1, <2>2, <2>3, <2>4
<1> QED
  BY <1>1, <1>3 DEF r

-----------------------------------------------------------------------------
(* Who stands before whom in a queue.                                      *)

Before(s, x, y) == \E i, j \in 1..Len(s) : i < j /\ s[i] = x /\ s[j] = y

LEMMA BeforeNeedsBoth ==
  ASSUME NEW S, NEW s \in Seq(S), NEW x, NEW y, Before(s, x, y)
  PROVE  x \in ToSet(s) /\ y \in ToSet(s)
BY InToSet DEF Before

(* Whoever joins comes after those who are there.                          *)
LEMMA AppendIsLast ==
  ASSUME NEW S, NEW s \in Seq(S), NEW e \in S
  PROVE  /\ ToSet(Append(s, e)) = ToSet(s) \cup {e}
         /\ \A x : x \in ToSet(s) => Before(Append(s, e), x, e)
         /\ \A x, y : Before(s, x, y) => Before(Append(s, e), x, y)
         /\ \A x, y : Before(Append(s, e), x, y) =>
                        Before(s, x, y) \/ (x \in ToSet(s) /\ y = e)
<1> DEFINE a == Append(s, e)
<1>1. /\ a \in Seq(S)
      /\ Len(a) = Len(s) + 1
      /\ a[Len(s) + 1] = e
      /\ \A i \in 1..Len(s) : a[i] = s[i]
  BY AppendProperties
<1>2. Len(s) \in Nat
  BY LenProperties
<1> HIDE DEF a
<1>3. ToSet(a) \subseteq ToSet(s) \cup {e}
  <2> SUFFICES ASSUME NEW y \in ToSet(a), y # e
               PROVE  y \in ToSet(s)
    OBVIOUS
  <2>1. PICK i \in 1..Len(a) : a[i] = y
    BY <1>1, InToSet
  <2>2. i \in 1..Len(s) /\ s[i] = y
    BY <1>1, <1>2, <2>1
  <2> QED
    BY <2>2, InToSet
<1>4. ASSUME NEW x, x \in ToSet(s)
      PROVE  Before(a, x, e)
  <2>1. PICK i \in 1..Len(s) : s[i] = x
    BY <1>4, InToSet
  <2>2. i \in 1..Len(a) /\ Len(s) + 1 \in 1..Len(a) /\ i < Len(s) + 1 /\ a[i] = x
    BY <1>1, <1>2, <2>1
  <2> QED
    BY <1>1, <2>2 DEF Before
<1>5. ASSUME NEW x, NEW y, Before(s, x, y)
      PROVE  Before(a, x, y)
  BY <1>1, <1>2, <1>5 DEF Before
<1>6. ASSUME NEW x, NEW y, Before(a, x, y)
      PROVE  Before(s, x, y) \/ (x \in ToSet(s) /\ y = e)
  <2>1. PICK i, j \in 1..Len(a) : i < j /\ a[i] = x /\ a[j] = y
    BY <1>6 DEF Before
  <2>2. i \in 1..Len(s) /\ s[i] = x
    BY <1>1, <1>2, <2>1
  <2>3. CASE j = Len(s) + 1
    BY <1>1, <2>1, <2>2, <2>3, InToSet
  <2>4. CASE j # Len(s) + 1
    <3>1. j \in 1..Len(s) /\ s[j] = y
      BY <1>1, <1>2, <2>1, <2>4
    <3> QED
      BY <2>1, <2>2, <3>1 DEF Before
  <2> QED
    BY <2>3, <2>4
<1> QED
  BY <1>1, <1>3, <1>4, <1>5, <1>6, AppendKeepsMembers DEF a

(* The head stands before all others; when it leaves, nobody changes       *)
(* places.                                                                 *)
LEMMA TailKeepsOrder ==
  ASSUME NEW S, NEW s \in Seq(S), s # <<>>
  PROVE  /\ ToSet(Tail(s)) \subseteq ToSet(s)
         /\ \A x, y : Before(Tail(s), x, y) => Before(s, x, y)
         /\ \A x : x \in ToSet(s) /\ x # Head(s) => Before(s, Head(s), x)
         /\ \A x : x \in ToSet(Tail(s)) /\ x = Head(s) => Before(s, x, x)
<1> DEFINE t == Tail(s)
<1>1. /\ t \in Seq(S)
      /\ Len(t) = Len(s) - 1
      /\ \A i \in 1..Len(t) : t[i] = s[i + 1]
      /\ Head(s) = s[1]
      /\ Len(s) \in Nat /\ Len(s) > 0
  BY HeadTailProperties, EmptySeq, LenProperties
<1> HIDE DEF t
<1>2. ASSUME NEW x \in ToSet(t)
      PROVE  \E i \in 2..Len(s) : s[i] = x
  <2>1. PICK i \in 1..Len(t) : t[i] = x
    BY <1>1, InToSet
  <2>2. i + 1 \in 2..Len(s) /\ s[i + 1] = x
    BY <1>1, <2>1
  <2> QED
    BY <2>2
<1>3. ASSUME NEW x \in ToSet(t)
      PROVE  x \in ToSet(s) /\ (x = Head(s) => Before(s, x, x))
  <2>1. PICK i \in 2..Len(s) : s[i] = x
    BY <1>2
  <2>2. i \in 1..Len(s) /\ 1 \in 1..Len(s) /\ 1 < i
    BY <1>1
  <2> QED
    BY <1>1, <2>1, <2>2, InToSet DEF Before
<1>4. ASSUME NEW x, NEW y, Before(t, x, y)
      PROVE  Before(s, x, y)
  <2>1. PICK i, j \in 1..Len(t) : i < j /\ t[i] = x /\ t[j] = y
    BY <1>4 DEF Before
  <2>2. /\ i + 1 \in 1..Len(s) /\ j + 1 \in 1..Len(s) /\ i + 1 < j + 1
        /\ s[i + 1] = x /\ s[j + 1] = y
    BY <1>1, <2>1
  <2> QED
    BY <2>2 DEF Before
<1>5. ASSUME NEW x, x \in ToSet(s), x # Head(s)
      PROVE  Before(s, Head(s), x)
  <2>1. PICK i \in 1..Len(s) : s[i] = x
    BY <1>5, InToSet
  <2>2. i # 1 /\ 1 \in 1..Len(s)
    BY <1>1, <1>5, <2>1
  <2>3. 1 < i
    BY <1>1, <2>2
  <2> QED
    BY <1>1, <2>1, <2>2, <2>3 DEF Before
<1> QED
  BY <1>3, <1>4, <1>5 DEF t

(* RemoveFirst changes no places either, and what stood there once is gone.*)
LEMMA RemoveFirstKeepsOrder ==
  ASSUME NEW S, NEW s \in Seq(S), NEW e
  PROVE  LET r == RemoveFirst(s, e)
         IN  /\ ToSet(r) \subseteq ToSet(s)
             /\ \A x, y : Before(r, x, y) => Before(s, x, y)
             /\ \A x, y : Before(s, x, y) /\ x # e /\ y # e => Before(r, x, y)
             /\ e \in ToSet(r) => Before(s, e, e)
<1> DEFINE r == RemoveFirst(s, e)
<1>1. /\ r \in Seq(S)
      /\ \/ e \notin ToSet(s) /\ r = s
         \/ \E m \in 1..Len(s) : s[m] = e /\ Without(s, r, m)
  BY RemoveFirstShape
<1>2. Len(s) \in Nat
  BY LenProperties
<1> HIDE DEF r
<1>3. ASSUME NEW m \in 1..Len(s), s[m] = e, Without(s, r, m)
      PROVE  /\ ToSet(r) \subseteq ToSet(s)
             /\ \A x, y : Before(r, x, y) => Before(s, x, y)
             /\ \A x, y : Before(s, x, y) /\ x # e /\ y # e => Before(r, x, y)
             /\ e \in ToSet(r) => Before(s, e, e)
  <2> DEFINE old(i) == IF i < m THEN i ELSE i + 1
             new(i) == IF i < m THEN i ELSE i - 1
  <2>1. \A i \in 1..Len(r) :
          old(i) \in 1..Len(s) /\ old(i) # m /\ s[old(i)] = r[i]
    BY <1>2, <1>3 DEF Without
  <2>2. \A i \in 1..Len(s) : i # m => new(i) \in 1..Len(r) /\ old(new(i)) = i
    BY <1>2, <1>3 DEF Without
  <2>3. \A i, j \in 1..Len(r) : i < j => old(i) < old(j)
    BY <1>2, <1>3
  <2>4. \A i, j \in 1..Len(s) : i # m /\ j # m /\ i < j => new(i) < new(j)
    BY <1>2, <1>3
  <2> HIDE DEF old, new
  <2>5. ToSet(r) \subseteq ToSet(s)
    <3> SUFFICES ASSUME NEW x \in ToSet(r)
                 PROVE  x \in ToSet(s)
      OBVIOUS
    <3>1. PICK i \in 1..Len(r) : r[i] = x
      BY <1>1, InToSet
    <3> QED
      BY <2>1, <3>1, InToSet
  <2>6. ASSUME NEW x, NEW y, Before(r, x, y)
        PROVE  Before(s, x, y)
    BY <2>1, <2>3, <2>6 DEF Before
  <2>7. ASSUME NEW x, NEW y, Before(s, x, y), x # e, y # e
        PROVE  Before(r, x, y)
    <3>1. PICK i, j \in 1..Len(s) : i < j /\ s[i] = x /\ s[j] = y
      BY <2>7 DEF Before
    <3>2. i # m /\ j # m
      BY <1>3, <2>7, <3>1
    <3>3. /\ new(i) \in 1..Len(r) /\ new(j) \in 1..Len(r) /\ new(i) < new(j)
          /\ r[new(i)] = x /\ r[new(j)] = y
      BY <2>1, <2>2, <2>4, <3>1, <3>2
    <3> QED
      BY <3>3 DEF Before
  <2>8. ASSUME e \in ToSet(r)
        PROVE  Before(s, e, e)
    <3>1. PICK i \in 1..Len(r) : r[i] = e
      BY <1>1, <2>8, InToSet
    <3>2. old(i) \in 1..Len(s) /\ old(i) # m /\ s[old(i)] = e
      BY <2>1, <3>1
    <3>3. old(i) < m \/ m < old(i)
      BY <1>2, <3>2
    <3> QED
      BY <1>3, <3>2, <3>3 DEF Before
  <2> QED
    BY <2>5, <2>6, <2>7, <2>8
<1> QED
  BY <1>1, <1>3 DEF r

-----------------------------------------------------------------------------
(* What is stored under a key.                                             *)

(* What a write leaves under its key.                                      *)
Stores(e, k, v) == e.data[k] = v

LEMMA WriteStores ==
  ASSUME NEW d, WellFormed(d), NEW k \in Key, NEW v, NEW x
  PROVE  /\ Stores([d EXCEPT !.data[k] = v], k, v)
         /\ Stores([d EXCEPT !.data[k] = v, !.expires[k] = x], k, v)
         /\ Stores(Bump([d EXCEPT !.data[k] = v], k), k, v)
         /\ Stores(Bump([d EXCEPT !.data[k] = v, !.expires[k] = x], k), k, v)
<1> DEFINE e == [d EXCEPT !.data[k] = v]
           f == [d EXCEPT !.data[k] = v, !.expires[k] = x]
<1>1. d \in DB
  BY DEF WellFormed
<1>2. e.data[k] = v /\ f.data[k] = v
  BY <1>1 DEF DB
<1>3. Bump(e, k).data = e.data /\ Bump(f, k).data = f.data
  BY <1>1 DEF Bump, DB
<1> QED
  BY <1>2, <1>3 DEF Stores

LEMMA PurgeOnlyRemoves ==
  ASSUME NEW d, WellFormed(d), NEW t, NEW k \in Key, NEW j \in Key
  PROVE  Purge(d, t, k).data[j] = d.data[j] \/ Purge(d, t, k).data[j] = None
<1>1. CASE j # k
  BY <1>1, PurgeTracks DEF Tracks, SameBut, Same
<1>2. CASE j = k
  BY <1>2, Purged DEF Lookup
<1> QED
  BY <1>1, <1>2

=============================================================================
