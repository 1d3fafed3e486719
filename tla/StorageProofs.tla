--------------------------- MODULE StorageProofs ---------------------------
(***************************************************************************)
(* The safety invariants of Storage, for every set of keys, members and    *)
(* commands.  They are inductive only together: that no list inherits a    *)
(* deadline is needed to see that a push keeps deadlines on strings, and   *)
(* the type of a stream's IDs to see that XADD keeps their order.  From    *)
(* them: counted pops, the versions WATCH rests on, the deadlines a write  *)
(* keeps, and that the store, lazy as it is, implements EagerStore.        *)
(***************************************************************************)
EXTENDS Storage, KeyspaceProofs

IInv ==
  /\ WellFormed(db)
  /\ now \in Nat
  /\ up \in BOOLEAN

LEMMA InitIInv == Init => IInv
BY EmptyIsWellFormed DEF Init, IInv

LEMMA NextIInv == IInv /\ [Next]_vars => IInv'
<1> SUFFICES ASSUME IInv, [Next]_vars
             PROVE  IInv'
  OBVIOUS
<1>1. ASSUME NEW c \in Workload, Run(c)
      PROVE  IInv'
  <2>1. c \in Command
    BY WorkloadIsCommands
  <2>2. WellFormed(Dispatch(db, now, c).db)
    BY <2>1, DispatchKeeps DEF IInv
  <2>3. WellFormed(db')
    BY <1>1, <2>2 DEF Run
  <2> QED
    BY <1>1, <2>3 DEF Run, IInv
<1>2. CASE Tick
  BY <1>2 DEF Tick, IInv
<1>3. CASE Restart
  BY <1>3, EmptyIsWellFormed DEF Restart, IInv
<1>4. CASE UNCHANGED vars
  BY <1>4 DEF vars, IInv
<1> QED
  BY <1>1, <1>2, <1>3, <1>4 DEF Next

THEOREM Invariance == Spec => []IInv
BY InitIInv, NextIInv, PTL DEF Spec

(* Every dict of Storage keeps its type (storage.py:16-19).                *)
THEOREM TypeCorrect == Spec => []TypeOK
<1>1. IInv => TypeOK
  BY DEF IInv, WellFormed, TypeOK
<1> QED
  BY <1>1, Invariance, PTL

(* No list, stream or missing key ever carries a deadline, so the methods  *)
(* that leave _expires alone never make one vanish (storage.py:120-222).   *)
THEOREM DeadlinesStayOnStrings == Spec => []OnlyStringsExpire
<1>1. IInv => OnlyStringsExpire
  BY DEF IInv, WellFormed, OnlyStringsExpire
<1> QED
  BY <1>1, Invariance, PTL

(* A key exists only while its list has an element (storage.py:120-185).   *)
THEOREM ListsHaveElements == Spec => []NoEmptyList
<1>1. IInv => NoEmptyList
  BY DEF IInv, WellFormed, NoEmptyList
<1> QED
  BY <1>1, Invariance, PTL

(* A sorted set exists only while it has a member (commands.py:226-314).   *)
THEOREM ZSetsHaveMembers == Spec => []NoEmptyZSet
<1>1. IInv => NoEmptyZSet
  BY DEF IInv, WellFormed, NoEmptyZSet
<1> QED
  BY <1>1, Invariance, PTL

(* Entries of every stream are in strict order of ID and last_id is the    *)
(* newest one, for every mix of explicit and automatic IDs                 *)
(* (storage.py:188-222).                                                   *)
THEOREM StreamsStayInOrder == Spec => []StreamsInOrder
<1>1. IInv => StreamsInOrder
  BY DEF IInv, WellFormed, StreamsInOrder
<1> QED
  BY <1>1, Invariance, PTL

-----------------------------------------------------------------------------
(* Counted pops.                                                           *)

LEMMA SplitAt ==
  ASSUME NEW S, NEW s \in Seq(S), NEW i \in 0..Len(s)
  PROVE  SubSeq(s, 1, i) \o SubSeq(s, i + 1, Len(s)) = s
<1>1. Len(s) \in Nat /\ SubSeq(s, 1, Len(s)) = s
  BY LenProperties, SubSeqFull
<1>2. SubSeq(s, 1, i) \o SubSeq(s, i + 1, Len(s)) = SubSeq(s, 1, Len(s))
  <2>1. 1 \in 1..(Len(s) + 1) /\ i \in (1 - 1)..Len(s) /\ Len(s) \in i..Len(s)
    BY <1>1
  <2> QED
    BY <2>1, ConcatAdjacentSubSeq
<1> QED
  BY <1>1, <1>2

LEMMA ReverseTwice ==
  ASSUME NEW s \in Seq(Str)
  PROVE  Reverse(Reverse(s)) = s
<1> DEFINE r == Reverse(s)
<1>1. r \in Seq(Str) /\ Len(r) = Len(s) /\ Len(s) \in Nat
  BY ReverseType, LenProperties
<1>2. Reverse(r) \in Seq(Str) /\ Len(Reverse(r)) = Len(r)
  BY <1>1, ReverseType
<1>3. ASSUME NEW i \in 1..Len(s)
      PROVE  Reverse(r)[i] = s[i]
  <2>1. Reverse(r)[i] = r[(Len(s) - i) + 1]
    BY <1>1 DEF Reverse
  <2>2. (Len(s) - i) + 1 \in 1..Len(s)
    BY <1>1
  <2>3. r[(Len(s) - i) + 1] = s[(Len(s) - ((Len(s) - i) + 1)) + 1]
    BY <2>2 DEF Reverse
  <2>4. (Len(s) - ((Len(s) - i) + 1)) + 1 = i
    BY <1>1
  <2> QED
    BY <2>1, <2>3, <2>4
<1> HIDE DEF r
<1> QED
  BY <1>1, <1>2, <1>3, SeqEqual DEF r

(* What Replace leaves.                                                    *)
LEMMA ReplaceShows ==
  ASSUME NEW d \in DB, NEW k \in Key, NEW rest \in Seq(Str)
  PROVE  Items(Bump(Replace(d, k, rest), k), k) = rest
<1>1. Replace(d, k, rest).data[k] = IF rest = <<>> THEN None ELSE ListOf(rest)
  BY DEF Replace, DB
<1>2. Bump(Replace(d, k, rest), k).data = Replace(d, k, rest).data
  BY DEF Bump, Replace, DB
<1>3. ListOf(rest) # None /\ ListOf(rest).items = rest
  BY SentinelsAreApart DEF ListOf, Value, ListValue
<1> QED
  BY <1>1, <1>2, <1>3 DEF Items

(* A counted pop takes min(count, length) elements off one end, in the     *)
(* order of that end, and leaves the others (storage.py:151-185).          *)
THEOREM PopsSplit == Spec => []PopsSplitTheList
<1>1. IInv => PopsSplitTheList
  <2> SUFFICES ASSUME IInv, NEW k \in Key, HasType(db.data[k], "list"),
                      NEW n \in 0..(Len(db.data[k].items) + 1)
               PROVE  LET s == db.data[k].items
                          l == LPop(db, now, k, n)
                          r == RPop(db, now, k, n)
                      IN  /\ Len(l.reply.items) = Lesser(n, Len(s))
                          /\ Len(r.reply.items) = Lesser(n, Len(s))
                          /\ l.reply.items \o Items(l.db, k) = s
                          /\ Items(r.db, k) \o Reverse(r.reply.items) = s
    BY DEF PopsSplitTheList
  <2> DEFINE s == db.data[k].items
             m == Lesser(n, Len(s))
             taken == SubSeq(s, 1, m)
             rest == SubSeq(s, m + 1, Len(s))
             kept == SubSeq(s, 1, Len(s) - m)
             last == SubSeq(s, Len(s) - m + 1, Len(s))
  <2>1. WellFormed(db) /\ now \in Nat /\ db \in DB
    BY DEF IInv, WellFormed
  <2>2. /\ Purge(db, now, k) = db
        /\ ~WrongType(db.data[k], "list")
        /\ Items(db, k) = s /\ s # <<>> /\ s \in Seq(Str)
    <3>1. ~WrongType(db.data[k], "list") /\ Items(db, k) = s
      BY DEF WrongType, HasType, Items
    <3>2. s \in Seq(Str) /\ db.expires[k] = None
      BY <2>1, <3>1, ItemsType
    <3>3. s # <<>>
      BY <2>1 DEF WellFormed, ListsNotEmpty
    <3> QED
      BY <3>1, <3>2, <3>3 DEF Purge, Expired
  <2> HIDE DEF s
  <2>3. /\ Len(s) \in Nat /\ n \in Nat /\ n # None
        /\ m \in 0..Len(s)
    BY <2>2, LenProperties, SentinelsAreApart DEF s, Lesser, Str
  <2> HIDE DEF m
  <2>4. /\ taken \in Seq(Str) /\ Len(taken) = m /\ taken \o rest = s
        /\ last \in Seq(Str) /\ Len(last) = m /\ kept \o last = s
        /\ rest \in Seq(Str) /\ kept \in Seq(Str)
    <3>1. \A i \in 1..Len(s) : s[i] \in Str
      BY <2>2, ElementOfSeq
    <3>2. taken \in Seq(Str) /\ Len(taken) = m /\ last \in Seq(Str) /\ Len(last) = m
      BY <2>2, <2>3, <3>1, SubSeqProperties
    <3>3. taken \o rest = s
      BY <2>2, <2>3, SplitAt
    <3>4. kept \o last = s
      <4>1. Len(s) - m \in 0..Len(s)
        BY <2>3
      <4> QED
        BY <2>2, <4>1, SplitAt
    <3>5. rest \in Seq(Str) /\ kept \in Seq(Str)
      BY <2>2, <2>3, <3>1, SubSeqProperties
    <3> QED
      BY <3>2, <3>3, <3>4, <3>5
  <2> HIDE DEF taken, rest, kept, last
  <2>5. LPop(db, now, k, n) = Result(Bump(Replace(db, k, rest), k), Array(taken))
    BY <2>2, <2>3 DEF LPop, m, rest, taken
  <2>6. LPop(db, now, k, n).reply.items = taken /\ Items(LPop(db, now, k, n).db, k) = rest
    BY <2>1, <2>4, <2>5, ReplaceShows DEF Result, Array
  <2>7. Lesser(n, Len(s)) = m
    BY DEF m
  <2>8. CASE m = 0
    <3>1. RPop(db, now, k, n) = Result(db, Array(<<>>))
      BY <2>2, <2>3, <2>8 DEF RPop, m
    <3>2. Reverse(<<>>) = <<>> /\ s \o <<>> = s
      BY <2>2, ConcatEmptySeq, ReverseType, EmptySeq
    <3>3. RPop(db, now, k, n).reply.items = <<>> /\ Items(RPop(db, now, k, n).db, k) = s
      BY <2>2, <3>1 DEF Result, Array
    <3> QED
      BY <2>4, <2>8, <2>6, <2>7, <3>2, <3>3, EmptySeq DEF s
  <2>9. CASE m # 0
    <3>1. RPop(db, now, k, n) = Result(Bump(Replace(db, k, kept), k), Array(Reverse(last)))
      BY <2>2, <2>3, <2>9 DEF RPop, m, kept, last
    <3>2. Reverse(Reverse(last)) = last /\ Len(Reverse(last)) = Len(last)
      BY <2>4, ReverseTwice, ReverseType
    <3>3. /\ RPop(db, now, k, n).reply.items = Reverse(last)
          /\ Items(RPop(db, now, k, n).db, k) = kept
      BY <2>1, <2>4, <3>1, ReplaceShows DEF Result, Array
    <3> QED
      BY <2>4, <2>6, <2>7, <3>2, <3>3 DEF s
  <2> QED
    BY <2>8, <2>9
<1> QED
  BY <1>1, Invariance, PTL

-----------------------------------------------------------------------------
(* Ranges by index.                                                        *)

(* The elements at positions lo to hi, counted from 0.                     *)
Stretch(s, lo, hi) == [i \in 1..(IF lo > hi THEN 0 ELSE hi - lo + 1) |-> s[lo + i]]

(* The positions a range picks are an interval, and its elements those of  *)
(* the interval in order.                                                  *)
LEMMA BetweenIsInterval ==
  ASSUME NEW S, NEW s \in Seq(S), NEW lo \in Nat, NEW hi \in Int,
         NEW start, NEW stop,
         lo..hi \subseteq 0..(Len(s) - 1),
         \A p \in 0..(Len(s) - 1) :
           p \in lo..hi <=> /\ (IF start < 0 THEN Len(s) + start ELSE start) <= p
                           /\ p <= (IF stop < 0 THEN Len(s) + stop ELSE stop)
  PROVE  Between(s, start, stop) = Stretch(s, lo, hi)
<1> DEFINE From(x) == IF x < 0 THEN Len(s) + x ELSE x
           picked == {p \in 0..(Len(s) - 1) : From(start) <= p /\ p <= From(stop)}
           n == IF lo > hi THEN 0 ELSE hi - lo + 1
           At(i) == CHOOSE p \in picked : Cardinality({q \in picked : q < p}) = i - 1
<1>1. picked = lo..hi
  OBVIOUS
<1>2. Between(s, start, stop) = [i \in 1..Cardinality(picked) |-> s[1 + At(i)]]
  BY DEF Between
<1> HIDE DEF picked
<1>3. Cardinality(picked) = n
  <2>1. Cardinality(lo..hi) = IF lo > hi THEN 0 ELSE hi - lo + 1
    BY FS_Interval
  <2> QED
    BY <1>1, <2>1
<1>4. ASSUME NEW i \in 1..n
      PROVE  At(i) = lo + i - 1
  <2>1. n = hi - lo + 1 /\ lo + i - 1 \in lo..hi
    BY <1>4
  <2>2. ASSUME NEW p \in lo..hi
        PROVE  Cardinality({q \in picked : q < p}) = p - lo
    <3>1. {q \in picked : q < p} = lo..(p - 1)
      BY <1>1
    <3>2. Cardinality(lo..(p - 1)) = p - lo
      <4>1. Cardinality(lo..(p - 1)) = IF lo > p - 1 THEN 0 ELSE (p - 1) - lo + 1
        BY FS_Interval
      <4> QED
        BY <4>1
    <3> QED
      BY <3>1, <3>2
  <2>3. \A p \in lo..hi : Cardinality({q \in picked : q < p}) = i - 1 => p = lo + i - 1
    <3>1. SUFFICES ASSUME NEW p \in lo..hi, Cardinality({q \in picked : q < p}) = i - 1
                   PROVE  p = lo + i - 1
      OBVIOUS
    <3>2. p - lo = i - 1
      BY <2>2, <3>1
    <3> QED
      BY <1>4, <3>1, <3>2
  <2>4. Cardinality({q \in picked : q < lo + i - 1}) = i - 1
    BY <2>1, <2>2
  <2> QED
    BY <1>1, <2>1, <2>3, <2>4
<1> HIDE DEF At, n
<1>5. ASSUME NEW i \in 1..n
      PROVE  s[1 + At(i)] = s[lo + i]
  <2>1. n \in Nat
    BY DEF n
  <2>2. 1 + At(i) = lo + i
    BY <1>4, <2>1
  <2> QED
    BY <2>2
<1> QED
  BY <1>2, <1>3, <1>5 DEF n, Stretch

(* A slice of positions in range.                                          *)
LEMMA SliceIsInterval ==
  ASSUME NEW S, NEW s \in Seq(S), NEW lo \in 0..(Len(s) - 1), NEW j \in Int, lo <= j
  PROVE  LET hi == IF j < Len(s) THEN j ELSE Len(s) - 1
         IN  Slice(s, lo, j) = Stretch(s, lo, hi)
<1> DEFINE hi == IF j < Len(s) THEN j ELSE Len(s) - 1
<1>1. Len(s) \in Nat /\ hi \in lo..(Len(s) - 1)
  BY LenProperties
<1>2. Slice(s, lo, j) = SubSeq(s, lo + 1, hi + 1)
  BY <1>1 DEF Slice
<1> HIDE DEF hi
<1>3. SubSeq(s, lo + 1, hi + 1) = [i \in 1..(hi - lo + 1) |-> s[lo + i]]
  <2> DEFINE t == SubSeq(s, lo + 1, hi + 1)
  <2>1. \A i \in (lo + 1)..(hi + 1) : s[i] \in S
    BY <1>1, ElementOfSeq
  <2>2. /\ t \in Seq(S) /\ Len(t) = hi - lo + 1
        /\ \A i \in 1..((hi + 1) - (lo + 1) + 1) : t[i] = s[(lo + 1) + i - 1]
    BY <1>1, <2>1, SubSeqProperties
  <2> HIDE DEF t
  <2>3. (hi + 1) - (lo + 1) + 1 = hi - lo + 1
    BY <1>1
  <2>4. ASSUME NEW i \in 1..(hi - lo + 1)
        PROVE  t[i] = s[lo + i]
    <3>1. (lo + 1) + i - 1 = lo + i
      BY <1>1
    <3> QED
      BY <2>2, <2>3, <3>1
  <2>5. t = [i \in 1..Len(t) |-> t[i]]
    BY <2>2
  <2> QED
    BY <2>2, <2>4, <2>5 DEF t
<1>4. (IF lo > hi THEN 0 ELSE hi - lo + 1) = hi - lo + 1
  BY <1>1
<1> QED
  BY <1>2, <1>3, <1>4 DEF hi, Stretch

LEMMA RangesAreExact ==
  ASSUME NEW S, NEW s \in Seq(S), NEW start \in Int, NEW stop \in Int
  PROVE  /\ RangeOfList(s, start, stop) = Between(s, start, stop)
         /\ RangeOfZSet(s, start, stop) = Between(s, start, stop)
<1> DEFINE n == Len(s)
           i == IF start < 0 THEN (IF n + start > 0 THEN n + start ELSE 0) ELSE start
           t == IF stop < 0 THEN n + stop ELSE stop
           j == IF t < n - 1 THEN t ELSE n - 1
<1>1. n \in Nat
  BY LenProperties
<1>2. i \in Nat /\ t \in Int /\ j \in Int
  BY <1>1
<1>3. /\ i..j \subseteq 0..(n - 1)
      /\ \A p \in 0..(n - 1) :
           p \in i..j <=> /\ (IF start < 0 THEN Len(s) + start ELSE start) <= p
                         /\ p <= (IF stop < 0 THEN Len(s) + stop ELSE stop)
  BY <1>1
<1>4. Between(s, start, stop) = Stretch(s, i, j)
  <2> HIDE DEF i, j
  <2> QED
    BY <1>2, <1>3, BetweenIsInterval
<1>5. CASE i <= j
  <2>1. i \in 0..(n - 1) /\ i <= t /\ i < n
    BY <1>1, <1>2, <1>5
  <2>2. /\ (IF j < n THEN j ELSE n - 1) = j
        /\ (IF t < n THEN t ELSE n - 1) = j
    BY <1>1, <1>2
  <2>3. RangeOfList(s, start, stop) = Slice(s, i, j) /\ RangeOfZSet(s, start, stop) = Slice(s, i, t)
    BY <1>1, <1>2, <1>5, <2>1 DEF RangeOfList, RangeOfZSet
  <2> HIDE DEF i, j, t
  <2>4. Slice(s, i, j) = Stretch(s, i, j) /\ Slice(s, i, t) = Stretch(s, i, j)
    BY <1>1, <1>2, <1>5, <2>1, <2>2, SliceIsInterval
  <2> QED
    BY <1>4, <2>3, <2>4
<1>6. CASE i > j
  <2>1. i > t \/ i >= n
    BY <1>1, <1>2, <1>6
  <2>2. RangeOfList(s, start, stop) = <<>> /\ RangeOfZSet(s, start, stop) = <<>>
    BY <1>6, <2>1 DEF RangeOfList, RangeOfZSet
  <2> HIDE DEF i, j
  <2>3. Stretch(s, i, j) = <<>>
    BY <1>2, <1>6 DEF Stretch
  <2> QED
    BY <1>4, <2>2, <2>3
<1> QED
  BY <1>2, <1>5, <1>6

(* LRANGE returns the elements whose position lies between its indexes     *)
(* (storage.py:138-148).                                                   *)
THEOREM ListRangesExact == Spec => []ListRangesAreExact
<1>1. IInv => ListRangesAreExact
  <2> SUFFICES ASSUME IInv, NEW k \in Key, HasType(db.data[k], "list"),
                      NEW i \in Indexes(db.data[k].items),
                      NEW j \in Indexes(db.data[k].items)
               PROVE  RangeOfList(db.data[k].items, i, j)
                        = Between(db.data[k].items, i, j)
    BY DEF ListRangesAreExact
  <2> DEFINE s == db.data[k].items
  <2>1. s \in Seq(Str)
    BY ItemsType DEF IInv, Items, WrongType, HasType
  <2>2. i \in Int /\ j \in Int
    BY <2>1, LenProperties DEF Indexes
  <2> QED
    BY <2>1, <2>2, RangesAreExact
<1> QED
  BY <1>1, Invariance, PTL

(* ZRANGE does, over the members in order of score and name                *)
(* (commands.py:256-262).                                                  *)
THEOREM ZSetRangesExact == Spec => []ZSetRangesAreExact
<1>1. IInv => ZSetRangesAreExact
  <2> SUFFICES ASSUME IInv, NEW k \in Key, db.zsets[k] # None,
                      NEW i \in Indexes(Ranked(db.zsets[k])),
                      NEW j \in Indexes(Ranked(db.zsets[k]))
               PROVE  RangeOfZSet(Ranked(db.zsets[k]), i, j)
                        = Between(Ranked(db.zsets[k]), i, j)
    BY DEF ZSetRangesAreExact
  <2> DEFINE s == Ranked(db.zsets[k])
             n == Cardinality(MembersOf(db.zsets[k]))
             S == {s[x] : x \in 1..n}
  <2>1. n \in Nat
    BY FS_CardinalityType DEF IInv, WellFormed, ZSetsFinite
  <2>2. s = [x \in 1..n |-> s[x]]
    BY DEF Ranked
  <2> HIDE DEF s, n
  <2>3. s \in [1..n -> S]
    BY <2>2
  <2> HIDE DEF S
  <2>4. s \in Seq(S)
    BY <2>1, <2>3
  <2>5. i \in Int /\ j \in Int
    BY <2>4, LenProperties DEF Indexes, s
  <2> QED
    BY <2>4, <2>5, RangesAreExact DEF s
<1> QED
  BY <1>1, Invariance, PTL

-----------------------------------------------------------------------------
(* Pages of a stream.                                                      *)

LEMMA SuffixType ==
  ASSUME NEW A, NEW s \in Seq(A), NEW a \in 0..Len(s)
  PROVE  /\ SubSeq(s, a + 1, Len(s)) \in Seq(A)
         /\ Len(SubSeq(s, a + 1, Len(s))) = Len(s) - a
         /\ \A i \in 1..(Len(s) - a) : SubSeq(s, a + 1, Len(s))[i] = s[a + i]
<1> DEFINE n == Len(s)
           m == a + 1
           p == SubSeq(s, m, n)
<1>1. n \in Nat /\ m \in Int /\ n \in Int /\ \A i \in m..n : s[i] \in A
  BY LenProperties, ElementOfSeq
<1> HIDE DEF n, m
<1>2. /\ p \in Seq(A)
      /\ Len(p) = IF m <= n THEN n - m + 1 ELSE 0
      /\ \A i \in 1..(n - m + 1) : p[i] = s[m + i - 1]
  BY <1>1, SubSeqProperties
<1> HIDE DEF p
<1>3. /\ p \in Seq(A) /\ Len(p) = n - a
      /\ \A i \in 1..(n - a) : p[i] = s[a + i]
  BY <1>1, <1>2 DEF m, n
<1> QED
  BY <1>3 DEF p, m, n

LEMMA SuffixOfSuffix ==
  ASSUME NEW A, NEW s \in Seq(A), NEW a \in 0..Len(s), NEW m \in 0..(Len(s) - a)
  PROVE  LET r == SubSeq(s, a + 1, Len(s))
         IN  SubSeq(r, m + 1, Len(r)) = SubSeq(s, a + m + 1, Len(s))
<1> DEFINE n == Len(s)
           b == a + m
           r == SubSeq(s, a + 1, n)
           x == SubSeq(r, m + 1, Len(r))
           y == SubSeq(s, b + 1, n)
<1>1. n \in Nat /\ b \in 0..n /\ m \in Nat /\ a \in Nat
  BY LenProperties
<1>2. r \in Seq(A) /\ Len(r) = n - a /\ \A i \in 1..(n - a) : r[i] = s[a + i]
  BY SuffixType
<1> HIDE DEF r, b
<1>3. x \in Seq(A) /\ Len(x) = Len(r) - m /\ \A i \in 1..(Len(r) - m) : x[i] = r[m + i]
  BY <1>2, SuffixType
<1>4. y \in Seq(A) /\ Len(y) = n - b /\ \A i \in 1..(n - b) : y[i] = s[b + i]
  BY <1>1, SuffixType
<1> HIDE DEF x, y, n
<1>5. Len(x) = Len(y)
  BY <1>1, <1>2, <1>3, <1>4 DEF b
<1>6. ASSUME NEW i \in 1..Len(x)
      PROVE  x[i] = y[i]
  <2>1. m + i \in 1..(n - a) /\ i \in 1..(n - b) /\ i \in 1..(Len(r) - m) /\ a + (m + i) = b + i
    BY <1>1, <1>2, <1>3, <1>4 DEF b
  <2> QED
    BY <1>2, <1>3, <1>4, <2>1
<1>7. x = y
  BY <1>3, <1>4, <1>5, <1>6, SeqEqual
<1> QED
  BY <1>7 DEF x, y, r, b, n

LEMMA IdOrder ==
  ASSUME NEW a \in StreamId, NEW b \in StreamId
  PROVE  /\ ~IdLeq(b, a) <=> IdLess(a, b)
         /\ IdLess(a, b) => ~IdLess(b, a)
         /\ ~IdLess(a, a)
         /\ <<0, 0>> \in StreamId
<1>1. None \notin Int
  BY SentinelsAreApart DEF Str
<1>2. /\ a = <<a[1], a[2]>> /\ a[1] \in Nat /\ a[2] \in Int
      /\ b = <<b[1], b[2]>> /\ b[1] \in Nat /\ b[2] \in Int
  BY DEF StreamId
<1> QED
  BY <1>1, <1>2 DEF IdLess, IdLeq, StreamId

(* What an ordered stream holds after one of its IDs, or after 0-0.        *)
LEMMA LaterIsSuffix ==
  ASSUME NEW es \in Seq(StreamId),
         \A i, j \in DOMAIN es : i < j => IdLess(es[i], es[j])
  PROVE  /\ \A b \in 1..Len(es) : IsFrom(es, Newer(es, es[b]), b)
         /\ \E b \in 0..Len(es) : IsFrom(es, Newer(es, <<0, 0>>), b)
<1> DEFINE n == Len(es)
<1>1. /\ n \in Nat /\ DOMAIN es = 1..n
      /\ \A i \in 1..n : es[i] \in StreamId /\ es[i] \in ToSet(es)
  BY LenProperties, ElementOfSeq DEF ToSet
<1>2. \A start, i : i \in 1..n =>
        (es[i] \in Newer(es, start) <=> ~IdLeq(es[i], start))
  BY <1>1 DEF Newer
<1>3. ASSUME NEW b \in 1..n
      PROVE  IsFrom(es, Newer(es, es[b]), b)
  <2>1. ASSUME NEW i \in 1..n
        PROVE  es[i] \in Newer(es, es[b]) <=> i > b
    <3>1. es[i] \in Newer(es, es[b]) <=> IdLess(es[b], es[i])
      BY <1>1, <1>2, IdOrder
    <3>2. CASE i > b
      BY <1>1, <3>1, <3>2
    <3>3. CASE i = b
      BY <1>1, <3>1, <3>3, IdOrder
    <3>4. CASE i < b
      <4>1. IdLess(es[i], es[b]) /\ ~(i > b)
        BY <1>1, <3>4
      <4> QED
        BY <1>1, <3>1, <4>1, IdOrder
    <3> QED
      BY <1>1, <3>2, <3>3, <3>4
  <2> QED
    BY <2>1 DEF IsFrom
<1>4. \E b \in 0..n : IsFrom(es, Newer(es, <<0, 0>>), b)
  <2> DEFINE S == {i \in 1..n : ~IdLeq(es[i], <<0, 0>>)}
  <2>1. CASE S = {}
    <3>1. IsFrom(es, Newer(es, <<0, 0>>), n)
      BY <1>1, <1>2, <2>1 DEF IsFrom
    <3> QED
      BY <1>1, <3>1
  <2>2. CASE S # {}
    <3>1. PICK x \in S : \A y \in S : x <= y
      <4>1. S \in SUBSET Nat
        BY <1>1
      <4> HIDE DEF S
      <4> QED
        BY <2>2, <4>1, LeastNatural
    <3>2. ASSUME NEW i \in 1..n
          PROVE  es[i] \in Newer(es, <<0, 0>>) <=> i > x - 1
      <4>1. x \in 1..n /\ i \in Int /\ x \in Int /\ IdLess(<<0, 0>>, es[x])
        BY <1>1, IdOrder
      <4>2. CASE i < x
        <5>1. i \notin S /\ ~(i > x - 1)
          BY <3>1, <4>1, <4>2
        <5> QED
          BY <1>2, <5>1
      <4>3. CASE i = x
        BY <1>2, <4>1, <4>3
      <4>4. CASE i > x
        <5>1. IdLess(es[x], es[i]) /\ <<0, 0>> \in StreamId
          BY <1>1, <4>1, <4>4, IdOrder
        <5>2. IdLess(<<0, 0>>, es[i])
          BY <1>1, <4>1, <5>1, IdLessIsTransitive
        <5> QED
          BY <1>1, <1>2, <4>1, <4>4, <5>1, <5>2, IdOrder
      <4> QED
        BY <4>1, <4>2, <4>3, <4>4
    <3>3. x - 1 \in 0..n /\ IsFrom(es, Newer(es, <<0, 0>>), x - 1)
      BY <1>1, <3>1, <3>2 DEF IsFrom
    <3> QED
      BY <3>3
  <2> QED
    BY <2>1, <2>2
<1> QED
  BY <1>3, <1>4

(* The page a reader is given, and what it is given after its last ID.     *)
LEMMA PageThenRest ==
  ASSUME NEW es \in Seq(StreamId),
         \A i, j \in DOMAIN es : i < j => IdLess(es[i], es[j]),
         NEW n \in 1..Len(es), NEW start \in {<<0, 0>>} \cup ToSet(es),
         After(es, start, n) # <<>>
  PROVE  LET page == After(es, start, n)
         IN  page \o After(es, page[Len(page)], None) = After(es, start, None)
<1> DEFINE l == Len(es)
<1>1. PICK a \in 0..l : IsFrom(es, Newer(es, start), a)
  <2>1. CASE start = <<0, 0>>
    BY <2>1, LaterIsSuffix
  <2>2. CASE start \in ToSet(es)
    <3>1. PICK b \in 1..l : start = es[b]
      BY <2>2, LenProperties DEF ToSet
    <3> QED
      BY <3>1, LaterIsSuffix, LenProperties
  <2> QED
    BY <2>1, <2>2
<1> DEFINE r == SubSeq(es, a + 1, l)
           m == Lesser(n, Len(r))
           page == SubSeq(r, 1, m)
<1>2. l \in Nat /\ n \in Nat /\ n > 0 /\ n # None
  BY LenProperties, SentinelsAreApart DEF Str
<1>3. r \in Seq(StreamId) /\ Len(r) = l - a /\ \A i \in 1..(l - a) : r[i] = es[a + i]
  BY SuffixType
<1>4. Only(es, Newer(es, start)) = r
  BY <1>1, OnlyOfSuffix
<1>5. After(es, start, None) = r /\ After(es, start, n) = page
  <2>1. \A x : After(es, start, x) = Limited(r, x)
    BY <1>4 DEF After
  <2> HIDE DEF r
  <2> QED
    BY <1>2, <2>1 DEF Limited
<1> HIDE DEF r
<1>6. m \in 0..Len(r)
  BY <1>2, <1>3 DEF Lesser
<1> HIDE DEF m
<1>7. m # 0
  BY <1>5, SubSeqEmpty
<1>8. Len(page) = m /\ page[m] = es[a + m]
  <2>1. \A i \in 1..m : r[i] \in StreamId
    BY <1>3, <1>6, ElementOfSeq
  <2>2. 1 \in Int /\ m \in Int
    BY <1>6
  <2>3. /\ Len(page) = IF 1 <= m THEN m - 1 + 1 ELSE 0
        /\ \A i \in 1..(m - 1 + 1) : page[i] = r[1 + i - 1]
    BY <2>1, <2>2, SubSeqProperties
  <2> HIDE DEF page
  <2>4. Len(page) = m /\ page[m] = r[m]
    BY <1>6, <1>7, <2>3
  <2>5. m \in 1..(l - a)
    BY <1>2, <1>3, <1>6, <1>7
  <2> QED
    BY <1>3, <2>4, <2>5
<1>9. a + m \in 1..l /\ m \in 0..(l - a)
  BY <1>2, <1>3, <1>6, <1>7
<1>10. After(es, es[a + m], None) = SubSeq(es, a + m + 1, l)
  <2>1. IsFrom(es, Newer(es, es[a + m]), a + m)
    BY <1>9, LaterIsSuffix
  <2>2. a + m \in 0..l
    BY <1>9
  <2>3. Only(es, Newer(es, es[a + m])) = SubSeq(es, a + m + 1, l)
    BY <2>1, <2>2, OnlyOfSuffix
  <2> QED
    BY <2>3 DEF After, Limited
<1>11. SubSeq(es, a + m + 1, l) = SubSeq(r, m + 1, Len(r))
  BY <1>9, SuffixOfSuffix DEF r
<1>12. page \o SubSeq(r, m + 1, Len(r)) = r
  BY <1>3, <1>6, SplitAt
<1> HIDE DEF page
<1> QED
  BY <1>5, <1>8, <1>10, <1>11, <1>12

(* A reader that goes on from the last ID it was given meets every entry   *)
(* once, in order, whatever COUNT it uses (storage.py:251-266).            *)
THEOREM PagesAreJoined == Spec => []PagesJoin
<1>1. IInv => PagesJoin
  <2> SUFFICES ASSUME IInv, NEW k \in Key, HasType(db.data[k], "stream")
               PROVE  LET es == db.data[k].entries
                      IN  \A n \in 1..Len(es), start \in {<<0, 0>>} \cup ToSet(es) :
                            LET page == After(es, start, n)
                            IN  page # <<>> =>
                                  page \o After(es, page[Len(page)], None)
                                    = After(es, start, None)
    BY DEF PagesJoin
  <2> DEFINE es == db.data[k].entries
  <2>1. db.data[k] \in StreamValue
    BY DEF IInv, WellFormed, DB, HasType, Value, StrValue, ListValue, StreamValue
  <2>2. es \in Seq(StreamId)
    BY <2>1 DEF StreamValue
  <2>3. \A i, j \in DOMAIN es : i < j => IdLess(es[i], es[j])
    BY DEF IInv, WellFormed, StreamsOrdered, StreamOrdered
  <2> HIDE DEF es
  <2>4. \A n \in 1..Len(es), start \in {<<0, 0>>} \cup ToSet(es) :
          LET page == After(es, start, n)
          IN  page # <<>> =>
                page \o After(es, page[Len(page)], None) = After(es, start, None)
    BY <2>2, <2>3, PageThenRest
  <2> QED
    BY <2>4 DEF es
<1> QED
  BY <1>1, Invariance, PTL

-----------------------------------------------------------------------------
(* Whatever a command changes in _data it moves the version of, but for    *)
(* the element a plain pop takes (storage.py:35-222): what WATCH rests on. *)
THEOREM VersionsMove == Spec => VersionMovesWithData
<1> DEFINE Moves(c) ==
      Run(c) /\ up' =>
        \A k \in Key : db'.data[k] # db.data[k] =>
          \/ db'.versions[k] > db.versions[k]
          \/ PlainPop(c) /\ HasType(db.data[k], "list")
<1>1. ASSUME IInv, NEW c \in Workload
      PROVE  Moves(c)
  <2> SUFFICES ASSUME Run(c), up', NEW k \in Key, db'.data[k] # db.data[k]
               PROVE  \/ db'.versions[k] > db.versions[k]
                      \/ PlainPop(c) /\ HasType(db.data[k], "list")
    OBVIOUS
  <2>1. /\ Dispatch(db, now, c).reply # Raise
        /\ db' = Dispatch(db, now, c).db
    BY DEF Run
  <2>2. c \in Command /\ WellFormed(db) /\ now \in Nat
    BY <1>1, WorkloadIsCommands DEF IInv
  <2>3. Follows(db, db', k, Popped(c))
    BY <2>1, <2>2, DispatchFollows
  <2> QED
    BY <2>3 DEF Follows, Same, Popped
<1>2. IInv /\ [Next]_vars => [\A c \in Workload : Moves(c)]_vars
  BY <1>1
<1> QED
  BY <1>2, Invariance, PTL DEF Spec, VersionMovesWithData

-----------------------------------------------------------------------------
(* No command but SET and DEL writes _expires, other than by a purge.      *)
LEMMA DeadlinesOnlyPurged ==
  ASSUME NEW d, WellFormed(d), NEW t \in Nat, NEW c \in Command,
         c.op \notin {"SET", "DEL"}
  PROVE  LET e == Dispatch(d, t, c).db
         IN  \/ e.expires = d.expires
             \/ c.key \in Key /\ e.expires = Purge(d, t, c.key).expires
<1> DEFINE e == Dispatch(d, t, c).db
           k == c.key
           p == Purge(d, t, k)
<1>1. CASE c.op \in Readers
  BY <1>1, ArgumentTypes, ReadersOnlyPurge
<1>2. CASE c.op \notin Readers /\ c.op \notin Writers
  BY <1>2, OthersKeepTheKeyspace
<1>3. CASE c.op \in Writers
  <2>1. k \in Key /\ WellFormed(p) /\ d \in DB /\ p \in DB
    BY <1>3, ArgumentTypes, PurgeKeeps DEF WellFormed
  <2> HIDE DEF k, p
  <2>2. /\ \A v : [p EXCEPT !.data[k] = v].expires = p.expires
        /\ \A v : Bump([p EXCEPT !.data[k] = v], k).expires = p.expires
        /\ \A z : [d EXCEPT !.zsets[k] = z].expires = d.expires
    BY <2>1 DEF DB, Bump
  <2> USE DEF Dispatch, Result
  <2>3. CASE c.op = "INCR"
    BY <2>1, <2>2, <2>3 DEF Incr, k, p
  <2>4. CASE c.op = "RPUSH" \/ c.op = "LPUSH"
    BY <2>1, <2>2, <2>4 DEF RPush, LPush, k, p
  <2>5. CASE c.op = "LPOP" \/ c.op = "RPOP"
    BY <2>1, <2>2, <2>5, ZenonT(40) DEF LPop, RPop, Replace, k, p
  <2>6. CASE c.op = "XADD"
    BY <2>1, <2>2, <2>6, ZenonT(40) DEF XAddCommand, XAdd, k, p
  <2>7. CASE c.op = "ZADD" \/ c.op = "ZREM"
    BY <2>1, <2>2, <2>7 DEF ZAdd, ZRem, k
  <2> QED
    BY <1>3, <2>3, <2>4, <2>5, <2>6, <2>7 DEF Writers
<1> QED
  BY <1>1, <1>2, <1>3

(* A live key keeps its deadline through every command but SET and DEL     *)
(* (storage.py:35-222).                                                    *)
THEOREM DeadlinesAreKept == Spec => DeadlineIsKept
<1> DEFINE Keeps(c) ==
      Run(c) /\ c.op \notin {"SET", "DEL"} =>
        \A k \in Key : Lookup(db, now, k) # None /\ Lookup(db', now, k) # None
                         => db'.expires[k] = db.expires[k]
<1>1. ASSUME IInv, NEW c \in Workload
      PROVE  Keeps(c)
  <2> SUFFICES ASSUME Run(c), c.op \notin {"SET", "DEL"},
                      NEW k \in Key, Lookup(db, now, k) # None
               PROVE  db'.expires[k] = db.expires[k]
    OBVIOUS
  <2>1. c \in Command /\ WellFormed(db) /\ now \in Nat
    BY <1>1, WorkloadIsCommands DEF IInv
  <2>2. \/ db'.expires = db.expires
        \/ c.key \in Key /\ db'.expires = Purge(db, now, c.key).expires
    BY <2>1, DeadlinesOnlyPurged DEF Run
  <2>3. CASE c.key \in Key /\ db'.expires = Purge(db, now, c.key).expires
    <3>1. CASE c.key = k
      BY <2>1, <2>3, <3>1, Purged
    <3>2. CASE c.key # k
      BY <2>1, <2>3, <3>2, PurgeTracks DEF Tracks, SameBut, Same
    <3> QED
      BY <3>1, <3>2
  <2> QED
    BY <2>2, <2>3
<1>2. IInv /\ [Next]_vars => [\A c \in Workload : Keeps(c)]_vars
  BY <1>1
<1> QED
  BY <1>2, Invariance, PTL DEF Spec, DeadlineIsKept

-----------------------------------------------------------------------------
(* Lazy removal.  Two keyspaces look alike at t when they show the same of *)
(* every key; the proof follows d and Alive(d, t) through every method.    *)

Shown(d, t, k) ==
  IF d.data[k] # None /\ Expired(d, t, k) THEN <<None, None>>
                                          ELSE <<d.data[k], d.expires[k]>>

LooksLike(d, e, t) ==
  /\ d.zsets = e.zsets
  /\ \A k \in Key : Shown(d, t, k) = Shown(e, t, k)

LEMMA LookAlive ==
  ASSUME NEW d, NEW e, NEW t, LooksLike(d, e, t)
  PROVE  Alive(d, t) = Alive(e, t)
<1>1. \A f : \A k \in Key :
        /\ Alive(f, t).data[k] = Shown(f, t, k)[1]
        /\ Alive(f, t).expires[k] = Shown(f, t, k)[2]
  BY DEF Alive, Shown
<1>2. /\ Alive(d, t).data = [k \in Key |-> Alive(d, t).data[k]]
      /\ Alive(d, t).expires = [k \in Key |-> Alive(d, t).expires[k]]
      /\ Alive(e, t).data = [k \in Key |-> Alive(e, t).data[k]]
      /\ Alive(e, t).expires = [k \in Key |-> Alive(e, t).expires[k]]
  BY DEF Alive
<1>3. /\ Alive(d, t).data = Alive(e, t).data
      /\ Alive(d, t).expires = Alive(e, t).expires
  BY <1>1, <1>2 DEF LooksLike
<1>4. /\ Alive(d, t).zsets = Alive(e, t).zsets
      /\ Alive(d, t).versions = Alive(e, t).versions
  BY DEF Alive, LooksLike
<1>5. \A f : Alive(f, t) = [data |-> Alive(f, t).data, expires |-> Alive(f, t).expires,
                            versions |-> Alive(f, t).versions, zsets |-> Alive(f, t).zsets]
  BY DEF Alive
<1> QED
  BY <1>3, <1>4, <1>5

(* The live part of a keyspace is a keyspace without dead keys.            *)
LEMMA AliveIsLive ==
  ASSUME NEW d, WellFormed(d), NEW t \in Nat
  PROVE  LET a == Alive(d, t)
         IN  /\ WellFormed(a)
             /\ LooksLike(d, a, t)
             /\ \A k \in Key : Purge(a, t, k) = a
<1> DEFINE a == Alive(d, t)
<1>1. d \in DB
  BY DEF WellFormed
<1>2. a.zsets = d.zsets /\ a \in DB
  BY <1>1 DEF Alive, DB
<1>3. \A k \in Key : /\ a.data[k] = Shown(d, t, k)[1]
                     /\ a.expires[k] = Shown(d, t, k)[2]
  BY DEF Alive, Shown
<1> HIDE DEF a
<1>4. \A k \in Key : \/ a.data[k] = d.data[k] /\ a.expires[k] = d.expires[k]
                     \/ a.data[k] = None /\ a.expires[k] = None
  BY <1>3 DEF Shown
<1>5. WellFormed(a)
  <2>1. DeadlinesOnStrings(a)
    BY <1>4 DEF WellFormed, DeadlinesOnStrings, HasType
  <2>2. ListsNotEmpty(a) /\ StreamsOrdered(a)
    BY <1>4 DEF WellFormed, ListsNotEmpty, StreamsOrdered, HasType
  <2>3. ZSetsNotEmpty(a) /\ ZSetsFinite(a)
    BY <1>2 DEF WellFormed, ZSetsNotEmpty, ZSetsFinite
  <2> QED
    BY <1>2, <2>1, <2>2, <2>3 DEF WellFormed
<1>6. \A k \in Key : ~(a.data[k] # None /\ Expired(a, t, k))
  BY <1>3 DEF Shown, Expired
<1>7. \A k \in Key : Purge(a, t, k) = a /\ Shown(a, t, k) = <<a.data[k], a.expires[k]>>
  BY <1>6 DEF Purge, Shown
<1>8. \A k \in Key : Shown(d, t, k) = <<Shown(d, t, k)[1], Shown(d, t, k)[2]>>
  BY DEF Shown
<1> QED
  BY <1>2, <1>3, <1>5, <1>7, <1>8 DEF LooksLike, a

(* d, which may hold dead keys, and a, which does not, as a command on k   *)
(* finds them.                                                             *)
Twins(d, a, t, k) ==
  LET p == Purge(d, t, k)
  IN  /\ d \in DB /\ a \in DB /\ p \in DB
      /\ Purge(a, t, k) = a
      /\ LooksLike(d, a, t)
      /\ LooksLike(p, a, t)
      /\ p.data[k] = a.data[k]
      /\ p.expires[k] = a.expires[k]

LEMMA AliveIsTwin ==
  ASSUME NEW d, WellFormed(d), NEW t \in Nat, NEW k \in Key
  PROVE  Twins(d, Alive(d, t), t, k)
<1> DEFINE a == Alive(d, t)
           p == Purge(d, t, k)
<1>1. /\ WellFormed(a) /\ LooksLike(d, a, t) /\ Purge(a, t, k) = a
      /\ Shown(d, t, k) = Shown(a, t, k)
  BY AliveIsLive DEF LooksLike
<1>2. WellFormed(p) /\ Tracks(d, p, k)
  BY PurgeTracks
<1> HIDE DEF a
<1>3. p.zsets = d.zsets
  BY DEF Purge, Bump, WellFormed, DB
<1>4. ~(a.data[k] # None /\ Expired(a, t, k))
  <2>1. CASE a.data[k] # None /\ Expired(a, t, k)
    <3>1. Lookup(a, t, k) = None
      BY <1>1, <2>1, Purged
    <3> QED
      BY <1>1, <2>1, <3>1 DEF Lookup
  <2> QED
    BY <2>1
<1>5. Shown(d, t, k) = <<p.data[k], p.expires[k]>>
  BY Purged DEF Shown, Lookup
<1>6. Shown(a, t, k) = <<a.data[k], a.expires[k]>>
  BY <1>4 DEF Shown
<1> HIDE DEF p
<1>7. p.data[k] = a.data[k] /\ p.expires[k] = a.expires[k]
  <2>1. <<p.data[k], p.expires[k]>> = <<a.data[k], a.expires[k]>>
    BY <1>1, <1>5, <1>6
  <2> QED
    BY <2>1
<1>8. Shown(p, t, k) = Shown(a, t, k)
  BY <1>4, <1>7 DEF Shown, Expired
<1>9. \A j \in Key \ {k} : Shown(p, t, j) = Shown(d, t, j)
  BY <1>2 DEF Tracks, SameBut, Same, Shown, Expired
<1>10. LooksLike(p, a, t)
  BY <1>1, <1>3, <1>8, <1>9 DEF LooksLike
<1> QED
  BY <1>1, <1>2, <1>7, <1>10 DEF Twins, WellFormed, a, p

(* The same write to both.                                                 *)
LEMMA SameWrite ==
  ASSUME NEW p \in DB, NEW a \in DB, NEW t, NEW k \in Key, NEW v, NEW x,
         LooksLike(p, a, t)
  PROVE  /\ p.expires[k] = a.expires[k] =>
              /\ LooksLike([p EXCEPT !.data[k] = v], [a EXCEPT !.data[k] = v], t)
              /\ LooksLike(Bump([p EXCEPT !.data[k] = v], k),
                           Bump([a EXCEPT !.data[k] = v], k), t)
         /\ LooksLike([p EXCEPT !.data[k] = v, !.expires[k] = x],
                      [a EXCEPT !.data[k] = v, !.expires[k] = x], t)
         /\ LooksLike(Bump([p EXCEPT !.data[k] = v, !.expires[k] = x], k),
                      Bump([a EXCEPT !.data[k] = v, !.expires[k] = x], k), t)
         /\ LooksLike([p EXCEPT !.zsets[k] = v], [a EXCEPT !.zsets[k] = v], t)
<1> DEFINE W(d) == [d EXCEPT !.data[k] = v]
           B(d) == [d EXCEPT !.data[k] = v, !.expires[k] = x]
           Z(d) == [d EXCEPT !.zsets[k] = v]
<1>1. ASSUME NEW d \in DB
      PROVE  /\ W(d).data[k] = v /\ W(d).expires = d.expires /\ W(d).zsets = d.zsets
             /\ B(d).data[k] = v /\ B(d).expires[k] = x /\ B(d).zsets = d.zsets
             /\ Z(d).data = d.data /\ Z(d).expires = d.expires
             /\ Z(d).zsets = [d.zsets EXCEPT ![k] = v]
             /\ \A j \in Key \ {k} : /\ W(d).data[j] = d.data[j]
                                    /\ B(d).data[j] = d.data[j]
                                    /\ B(d).expires[j] = d.expires[j]
  BY DEF DB
<1>2. ASSUME NEW d
      PROVE  /\ Bump(d, k).data = d.data
             /\ Bump(d, k).expires = d.expires
             /\ Bump(d, k).zsets = d.zsets
  BY DEF Bump
<1> HIDE DEF W, B, Z
<1>3. ASSUME NEW d, NEW e, NEW j, d.data[j] = e.data[j], d.expires[j] = e.expires[j]
      PROVE  Shown(d, t, j) = Shown(e, t, j)
  BY <1>3 DEF Shown, Expired
<1>4. LooksLike(B(p), B(a), t)
  <2>1. B(p).zsets = B(a).zsets
    BY <1>1 DEF LooksLike
  <2>2. Shown(B(p), t, k) = Shown(B(a), t, k)
    <3>1. B(p).data[k] = B(a).data[k] /\ B(p).expires[k] = B(a).expires[k]
      BY <1>1
    <3> QED
      BY <1>3, <3>1
  <2>3. ASSUME NEW j \in Key, j # k
        PROVE  Shown(B(p), t, j) = Shown(B(a), t, j)
    <3>1. /\ B(p).data[j] = p.data[j] /\ B(p).expires[j] = p.expires[j]
          /\ B(a).data[j] = a.data[j] /\ B(a).expires[j] = a.expires[j]
      BY <1>1, <2>3
    <3>2. Shown(B(p), t, j) = Shown(p, t, j) /\ Shown(B(a), t, j) = Shown(a, t, j)
      BY <1>3, <3>1
    <3> QED
      BY <3>2 DEF LooksLike
  <2> QED
    BY <2>1, <2>2, <2>3 DEF LooksLike
<1>5. ASSUME p.expires[k] = a.expires[k]
      PROVE  LooksLike(W(p), W(a), t)
  <2>1. W(p).zsets = W(a).zsets
    BY <1>1 DEF LooksLike
  <2>2. Shown(W(p), t, k) = Shown(W(a), t, k)
    <3>1. W(p).data[k] = W(a).data[k] /\ W(p).expires[k] = W(a).expires[k]
      BY <1>1, <1>5
    <3> QED
      BY <1>3, <3>1
  <2>3. ASSUME NEW j \in Key, j # k
        PROVE  Shown(W(p), t, j) = Shown(W(a), t, j)
    <3>1. /\ W(p).data[j] = p.data[j] /\ W(p).expires[j] = p.expires[j]
          /\ W(a).data[j] = a.data[j] /\ W(a).expires[j] = a.expires[j]
      BY <1>1, <2>3
    <3>2. Shown(W(p), t, j) = Shown(p, t, j) /\ Shown(W(a), t, j) = Shown(a, t, j)
      BY <1>3, <3>1
    <3> QED
      BY <3>2 DEF LooksLike
  <2> QED
    BY <2>1, <2>2, <2>3 DEF LooksLike
<1>6. LooksLike(Z(p), Z(a), t)
  <2>1. \A j \in Key : /\ Shown(Z(p), t, j) = Shown(p, t, j)
                       /\ Shown(Z(a), t, j) = Shown(a, t, j)
    BY <1>1 DEF Shown, Expired
  <2>2. Z(p).zsets = Z(a).zsets
    <3>1. p.zsets = a.zsets
      BY DEF LooksLike
    <3>2. Z(p).zsets = [p.zsets EXCEPT ![k] = v] /\ Z(a).zsets = [a.zsets EXCEPT ![k] = v]
      BY <1>1
    <3> QED
      BY <3>1, <3>2
  <2> QED
    BY <2>1, <2>2 DEF LooksLike
<1>7. ASSUME NEW d, NEW e, LooksLike(d, e, t)
      PROVE  LooksLike(Bump(d, k), Bump(e, k), t)
  <2>1. \A j \in Key : /\ Shown(Bump(d, k), t, j) = Shown(d, t, j)
                       /\ Shown(Bump(e, k), t, j) = Shown(e, t, j)
    BY <1>2 DEF Shown, Expired
  <2> QED
    BY <1>2, <1>7, <2>1 DEF LooksLike
<1> QED
  BY <1>4, <1>5, <1>6, <1>7 DEF W, B, Z

(* What a command makes of twins: it keeps or purges both, or writes the   *)
(* same to both.                                                           *)
Matches(d, a, t, k, e, f) ==
  LET p == Purge(d, t, k)
  IN  \/ e = d /\ f = a
      \/ e = p /\ f = a
      \/ \E v : /\ e = [p EXCEPT !.data[k] = v]
                /\ f = [a EXCEPT !.data[k] = v]
      \/ \E v : /\ e = Bump([p EXCEPT !.data[k] = v], k)
                /\ f = Bump([a EXCEPT !.data[k] = v], k)
      \/ \E v, x : /\ e = [p EXCEPT !.data[k] = v, !.expires[k] = x]
                   /\ f = [a EXCEPT !.data[k] = v, !.expires[k] = x]
      \/ \E v, x : /\ \/ e = Bump([d EXCEPT !.data[k] = v, !.expires[k] = x], k)
                      \/ e = Bump([p EXCEPT !.data[k] = v, !.expires[k] = x], k)
                   /\ f = Bump([a EXCEPT !.data[k] = v, !.expires[k] = x], k)
      \/ \E z : /\ e = [d EXCEPT !.zsets[k] = z]
                /\ f = [a EXCEPT !.zsets[k] = z]

LEMMA MatchesLook ==
  ASSUME NEW d, NEW a, NEW t, NEW k \in Key, Twins(d, a, t, k),
         NEW e, NEW f, Matches(d, a, t, k, e, f)
  PROVE  LooksLike(e, f, t)
<1> DEFINE p == Purge(d, t, k)
<1>1. /\ d \in DB /\ a \in DB /\ p \in DB
      /\ LooksLike(d, a, t) /\ LooksLike(p, a, t)
      /\ p.expires[k] = a.expires[k]
  BY DEF Twins
<1>2. /\ \A v, x : LooksLike(Bump([d EXCEPT !.data[k] = v, !.expires[k] = x], k),
                             Bump([a EXCEPT !.data[k] = v, !.expires[k] = x], k), t)
      /\ \A z : LooksLike([d EXCEPT !.zsets[k] = z], [a EXCEPT !.zsets[k] = z], t)
  BY <1>1, SameWrite
<1> HIDE DEF p
<1>3. \A v, x :
        /\ LooksLike([p EXCEPT !.data[k] = v], [a EXCEPT !.data[k] = v], t)
        /\ LooksLike(Bump([p EXCEPT !.data[k] = v], k),
                     Bump([a EXCEPT !.data[k] = v], k), t)
        /\ LooksLike([p EXCEPT !.data[k] = v, !.expires[k] = x],
                     [a EXCEPT !.data[k] = v, !.expires[k] = x], t)
        /\ LooksLike(Bump([p EXCEPT !.data[k] = v, !.expires[k] = x], k),
                     Bump([a EXCEPT !.data[k] = v, !.expires[k] = x], k), t)
  BY <1>1, SameWrite
<1>4. CASE (e = d \/ e = p) /\ f = a
  BY <1>1, <1>4
<1>5. ASSUME NEW v,
             \/ /\ e = [p EXCEPT !.data[k] = v]
                /\ f = [a EXCEPT !.data[k] = v]
             \/ /\ e = Bump([p EXCEPT !.data[k] = v], k)
                /\ f = Bump([a EXCEPT !.data[k] = v], k)
      PROVE  LooksLike(e, f, t)
  BY <1>3, <1>5
<1>6. ASSUME NEW v, NEW x,
             \/ /\ e = [p EXCEPT !.data[k] = v, !.expires[k] = x]
                /\ f = [a EXCEPT !.data[k] = v, !.expires[k] = x]
             \/ /\ \/ e = Bump([d EXCEPT !.data[k] = v, !.expires[k] = x], k)
                   \/ e = Bump([p EXCEPT !.data[k] = v, !.expires[k] = x], k)
                /\ f = Bump([a EXCEPT !.data[k] = v, !.expires[k] = x], k)
      PROVE  LooksLike(e, f, t)
  <2> DEFINE G(g) == [g EXCEPT !.data[k] = v, !.expires[k] = x]
  <2>1. LooksLike(Bump(G(d), k), Bump(G(a), k), t)
    BY <1>2
  <2>2. LooksLike(G(p), G(a), t) /\ LooksLike(Bump(G(p), k), Bump(G(a), k), t)
    BY <1>3
  <2>3. \/ e = G(p) /\ f = G(a)
        \/ (e = Bump(G(d), k) \/ e = Bump(G(p), k)) /\ f = Bump(G(a), k)
    BY <1>6
  <2> HIDE DEF G
  <2> QED
    BY <2>1, <2>2, <2>3
<1>7. ASSUME NEW z, e = [d EXCEPT !.zsets[k] = z], f = [a EXCEPT !.zsets[k] = z]
      PROVE  LooksLike(e, f, t)
  BY <1>2, <1>7
<1> QED
  BY <1>4, <1>5, <1>6, <1>7, Zenon DEF Matches, p

(* Every command of the table but KEYS answers twins alike.                *)
LEMMA TwinsAnswerAlike ==
  ASSUME NEW d, NEW a, NEW t \in Nat, NEW c \in Command, c.op # "KEYS",
         c.key \in Key,
         Twins(d, a, t, c.key)
  PROVE  /\ Matches(d, a, t, c.key, Dispatch(d, t, c).db, Dispatch(a, t, c).db)
         /\ Dispatch(d, t, c).reply = Dispatch(a, t, c).reply
<1> DEFINE k == c.key
           p == Purge(d, t, k)
           Alike(r, q) == Matches(d, a, t, k, r.db, q.db) /\ r.reply = q.reply
<1>1. /\ Purge(a, t, k) = a
      /\ p.data[k] = a.data[k]
      /\ d.zsets = a.zsets
  BY DEF Twins, LooksLike
<1>2. Items(p, k) = Items(a, k) /\ Entries(p, k) = Entries(a, k)
  BY <1>1 DEF Items, Entries
<1>3. ASSUME NEW e, NEW f, NEW x, Matches(d, a, t, k, e, f)
      PROVE  Alike(Result(e, x), Result(f, x))
  BY <1>3 DEF Result
<1>4. /\ \A x : Alike(Result(d, x), Result(a, x)) /\ Alike(Result(p, x), Result(a, x))
      /\ \A v, x : Alike(Result([p EXCEPT !.data[k] = v], x),
                         Result([a EXCEPT !.data[k] = v], x))
      /\ \A v, x : Alike(Result(Bump([p EXCEPT !.data[k] = v], k), x),
                         Result(Bump([a EXCEPT !.data[k] = v], k), x))
      /\ \A z, x : Alike(Result([d EXCEPT !.zsets[k] = z], x),
                         Result([a EXCEPT !.zsets[k] = z], x))
      /\ \A v, x, y : Alike(Result([p EXCEPT !.data[k] = v, !.expires[k] = x], y),
                            Result([a EXCEPT !.data[k] = v, !.expires[k] = x], y))
      /\ \A v, x, y : Alike(Result(Bump([p EXCEPT !.data[k] = v, !.expires[k] = x], k), y),
                            Result(Bump([a EXCEPT !.data[k] = v, !.expires[k] = x], k), y))
      /\ \A v, x, y : Alike(Result(Bump([d EXCEPT !.data[k] = v, !.expires[k] = x], k), y),
                            Result(Bump([a EXCEPT !.data[k] = v, !.expires[k] = x], k), y))
  <2>1. /\ Matches(d, a, t, k, d, a) /\ Matches(d, a, t, k, p, a)
        /\ \A v : Matches(d, a, t, k, [p EXCEPT !.data[k] = v], [a EXCEPT !.data[k] = v])
        /\ \A v : Matches(d, a, t, k, Bump([p EXCEPT !.data[k] = v], k),
                                     Bump([a EXCEPT !.data[k] = v], k))
        /\ \A z : Matches(d, a, t, k, [d EXCEPT !.zsets[k] = z], [a EXCEPT !.zsets[k] = z])
        /\ \A v, x : Matches(d, a, t, k, [p EXCEPT !.data[k] = v, !.expires[k] = x],
                                        [a EXCEPT !.data[k] = v, !.expires[k] = x])
        /\ \A v, x : Matches(d, a, t, k, Bump([p EXCEPT !.data[k] = v, !.expires[k] = x], k),
                                        Bump([a EXCEPT !.data[k] = v, !.expires[k] = x], k))
        /\ \A v, x : Matches(d, a, t, k, Bump([d EXCEPT !.data[k] = v, !.expires[k] = x], k),
                                        Bump([a EXCEPT !.data[k] = v, !.expires[k] = x], k))
    BY ZenonT(40) DEF Matches
  <2> HIDE DEF p, k, Alike
  <2> QED
    BY <1>3, <2>1, Zenon
<1> SUFFICES Alike(Dispatch(d, t, c), Dispatch(a, t, c))
  OBVIOUS
<1> HIDE DEF Alike, p, k
<1>5. CASE c.op = "SET"
  <2> DEFINE x == IF c.ttl = None THEN None ELSE t + c.ttl
             S(e) == Result(Bump([e EXCEPT !.data[k] = StrOf(c.val), !.expires[k] = x], k), Ok)
  <2>1. Dispatch(d, t, c) = S(d) /\ Dispatch(a, t, c) = S(a)
    BY <1>5 DEF Dispatch, Set, k
  <2>2. Alike(S(d), S(a))
    BY <1>4
  <2> QED
    BY <2>1, <2>2
<1>6. CASE c.op = "DEL"
  <2> DEFINE G(e) == [e EXCEPT !.data[k] = None, !.expires[k] = None]
             D(e) == IF e.data[k] # None THEN Result(Bump(G(e), k), Number(1))
                                         ELSE Result(G(e), Number(0))
  <2>1. Dispatch(d, t, c) = D(p) /\ Dispatch(a, t, c) = D(a)
    BY <1>1, <1>6 DEF Dispatch, Delete, k, p
  <2>2. /\ Alike(Result(Bump(G(p), k), Number(1)), Result(Bump(G(a), k), Number(1)))
        /\ Alike(Result(G(p), Number(0)), Result(G(a), Number(0)))
    BY <1>4
  <2> HIDE DEF G
  <2>3. Alike(D(p), D(a))
    BY <1>1, <2>2
  <2> QED
    BY <2>1, <2>3
<1>7. CASE c.op = "INCR"
  BY <1>1, <1>4, <1>7 DEF Dispatch, Incr, k, p
<1>8. CASE c.op = "RPUSH" \/ c.op = "LPUSH"
  BY <1>1, <1>2, <1>4, <1>8 DEF Dispatch, RPush, LPush, WrongType, k, p
<1>9. CASE c.op = "LPOP"
  BY <1>1, <1>2, <1>4, <1>9 DEF Dispatch, LPop, Replace, WrongType, k, p
<1>10. CASE c.op = "RPOP"
  BY <1>1, <1>2, <1>4, <1>10 DEF Dispatch, RPop, Replace, WrongType, k, p
<1>11. CASE c.op = "XADD"
  BY <1>1, <1>4, <1>11 DEF Dispatch, XAddCommand, XAdd, WrongType, k, p
<1>12. CASE c.op = "ZADD" \/ c.op = "ZREM"
  BY <1>1, <1>4, <1>12 DEF Dispatch, ZAdd, ZRem, Members, k
<1>13. CASE c.op \in Readers
  BY <1>1, <1>2, <1>4, <1>13
     DEF Dispatch, Readers, Get, LLen, LRange, GetType, XRange, XRead, WrongType,
         HasType, k, p
<1>14. CASE c.op \notin Readers \cup Writers
  BY <1>1, <1>4, <1>14
     DEF Dispatch, Readers, Writers, ZRange, ZRank, ZCard, ZScore, Members, k
<1> QED
  BY <1>5, <1>6, <1>7, <1>8, <1>9, <1>10, <1>11, <1>12, <1>13, <1>14 DEF Writers

LEMMA CommandsLook ==
  ASSUME NEW d, WellFormed(d), NEW t \in Nat, NEW c \in Command, c.op # "KEYS"
  PROVE  LET r == Dispatch(d, t, c)
             q == Dispatch(Alive(d, t), t, c)
         IN  Alive(r.db, t) = Alive(q.db, t) /\ r.reply = q.reply
<1> DEFINE a == Alive(d, t)
<1>1. LooksLike(d, a, t)
  BY AliveIsLive
<1>2. \A k \in Key : Twins(d, a, t, k)
  BY AliveIsTwin
<1> HIDE DEF a
<1>3. CASE c.op \in {"PING", "UNKNOWN"}
  <2>1. \A e : Dispatch(e, t, c) = Result(e, IF c.op = "PING" THEN Ok ELSE Error)
    BY <1>3 DEF Dispatch
  <2> QED
    BY <1>1, <2>1, LookAlive DEF Result, a
<1>4. CASE c.op \notin {"PING", "UNKNOWN"}
  <2>1. c.key \in Key
    BY <1>4 DEF Command, Keyed
  <2>2. /\ Matches(d, a, t, c.key, Dispatch(d, t, c).db, Dispatch(a, t, c).db)
        /\ Dispatch(d, t, c).reply = Dispatch(a, t, c).reply
    BY <1>2, <2>1, TwinsAnswerAlike
  <2>3. LooksLike(Dispatch(d, t, c).db, Dispatch(a, t, c).db, t)
    BY <1>2, <2>1, <2>2, MatchesLook
  <2> QED
    BY <2>2, <2>3, LookAlive DEF a
<1> QED
  BY <1>3, <1>4

(* Who is dead stays dead.                                                 *)
LEMMA LaterLook ==
  ASSUME NEW d, WellFormed(d), NEW t \in Nat
  PROVE  Alive(Alive(d, t), t + 1) = Alive(d, t + 1)
<1> DEFINE a == Alive(d, t)
<1>1. /\ d.expires \in [Key -> Int \cup {None}]
      /\ a.zsets = d.zsets
  BY DEF WellFormed, DB, Alive
<1>2. ASSUME NEW k \in Key
      PROVE  Shown(d, t + 1, k) = Shown(a, t + 1, k)
  <2>1. CASE d.data[k] # None /\ Expired(d, t, k)
    <3>1. a.data[k] = None /\ a.expires[k] = None
      BY <2>1 DEF Alive
    <3>2. Expired(d, t + 1, k)
      BY <1>1, <2>1 DEF Expired
    <3> QED
      BY <2>1, <3>1, <3>2 DEF Shown
  <2>2. CASE ~(d.data[k] # None /\ Expired(d, t, k))
    <3>1. a.data[k] = d.data[k] /\ a.expires[k] = d.expires[k]
      BY <2>2 DEF Alive
    <3> QED
      BY <3>1 DEF Shown, Expired
  <2> QED
    BY <2>1, <2>2
<1> HIDE DEF a
<1>3. LooksLike(d, a, t + 1)
  BY <1>1, <1>2 DEF LooksLike
<1> QED
  BY <1>3, LookAlive DEF a

(* The instance of EagerStore has copies of all operators of its own.      *)
LEMMA SameCopies ==
  /\ Eager!EmptyDB = EmptyDB
  /\ \A d, t : Eager!Alive(d, t) = Alive(d, t)
  /\ \A d : Eager!GetKeys(d) = GetKeys(d)
  /\ Eager!Ok = Ok /\ Eager!Raise = Raise
  /\ \A S : Eager!Names(S) = Names(S)
BY DEF Eager!EmptyDB, EmptyDB, Eager!Alive, Alive, Eager!Expired, Expired,
       Eager!GetKeys, GetKeys, Eager!Ok, Ok, Eager!Raise, Raise, Eager!Names, Names

LEMMA SameKeyspaceMethods ==
  ASSUME NEW d, NEW t, NEW k
  PROVE  /\ Eager!Purge(d, t, k) = Purge(d, t, k)
         /\ \A v, ttl : Eager!Set(d, t, k, v, ttl) = Set(d, t, k, v, ttl)
         /\ Eager!Get(d, t, k) = Get(d, t, k)
         /\ Eager!Delete(d, t, k) = Delete(d, t, k)
         /\ Eager!Incr(d, t, k) = Incr(d, t, k)
         /\ Eager!GetType(d, t, k) = GetType(d, t, k)
<1> USE DEF Eager!Purge, Purge, Eager!Expired, Expired, Eager!Bump, Bump,
            Eager!Result, Result, Eager!StrOf, StrOf, Eager!Number, Number
<1>1. Eager!Purge(d, t, k) = Purge(d, t, k)
  OBVIOUS
<1>2. \A v, ttl : Eager!Set(d, t, k, v, ttl) = Set(d, t, k, v, ttl)
  BY DEF Eager!Set, Set, Eager!Ok, Ok
<1>3. Eager!Get(d, t, k) = Get(d, t, k)
  BY DEF Eager!Get, Get, Eager!HasType, HasType, Eager!Bulk, Bulk, Eager!Nil, Nil
<1>4. Eager!Delete(d, t, k) = Delete(d, t, k)
  BY DEF Eager!Delete, Delete
<1>5. Eager!Incr(d, t, k) = Incr(d, t, k)
  BY DEF Eager!Incr, Incr, Eager!Error, Error
<1>6. Eager!GetType(d, t, k) = GetType(d, t, k)
  BY DEF Eager!GetType, GetType, Eager!TypeName, TypeName
<1> QED
  BY <1>1, <1>2, <1>3, <1>4, <1>5, <1>6

LEMMA SameListMethods ==
  ASSUME NEW d, NEW t, NEW k
  PROVE  /\ \A s : Eager!RPush(d, t, k, s) = RPush(d, t, k, s)
         /\ \A s : Eager!LPush(d, t, k, s) = LPush(d, t, k, s)
         /\ Eager!LLen(d, t, k) = LLen(d, t, k)
         /\ \A i, j : Eager!LRange(d, t, k, i, j) = LRange(d, t, k, i, j)
         /\ \A n : Eager!LPop(d, t, k, n) = LPop(d, t, k, n)
         /\ \A n : Eager!RPop(d, t, k, n) = RPop(d, t, k, n)
<1> USE DEF Eager!Purge, Purge, Eager!Expired, Expired, Eager!Bump, Bump,
            Eager!Result, Result, Eager!Number, Number, Eager!Error, Error,
            Eager!WrongType, WrongType, Eager!Items, Items, Eager!ListOf, ListOf,
            Eager!Array, Array, Eager!Lesser, Lesser, Eager!Replace, Replace,
            Eager!Nil, Nil, Eager!Bulk, Bulk, Eager!Reverse, Reverse
<1>1. /\ \A s : Eager!RPush(d, t, k, s) = RPush(d, t, k, s)
      /\ \A s : Eager!LPush(d, t, k, s) = LPush(d, t, k, s)
  BY DEF Eager!RPush, RPush, Eager!LPush, LPush
<1>2. Eager!LLen(d, t, k) = LLen(d, t, k)
  BY DEF Eager!LLen, LLen
<1>3. \A i, j : Eager!LRange(d, t, k, i, j) = LRange(d, t, k, i, j)
  BY DEF Eager!LRange, LRange, Eager!RangeOfList, RangeOfList, Eager!Slice, Slice
<1>4. \A n : Eager!LPop(d, t, k, n) = LPop(d, t, k, n)
  BY DEF Eager!LPop, LPop
<1>5. \A n : Eager!RPop(d, t, k, n) = RPop(d, t, k, n)
  BY DEF Eager!RPop, RPop, Eager!Front, Front, Eager!Last, Last
<1> QED
  BY <1>1, <1>2, <1>3, <1>4, <1>5

LEMMA SameOnly == \A s, S : Eager!Only(s, S) = Only(s, S)
BY DEF Eager!Only, Only, Eager!FoldLeft, FoldLeft, Eager!MapThenFoldSet, MapThenFoldSet,
       Eager!Max, Max

LEMMA SamePages ==
  /\ \A s, n : Eager!Limited(s, n) = Limited(s, n)
  /\ \A es, start : Eager!Newer(es, start) = Newer(es, start)
  /\ \A es, start, n : Eager!After(es, start, n) = After(es, start, n)
  /\ \A es, S, n : Eager!Trips(es, S, n) <=> Trips(es, S, n)
  /\ \A es, lo, hi :
       {id \in Eager!ToSet(es) : Eager!IdLeq(lo, id) /\ Eager!IdLeq(id, hi)}
         = {id \in ToSet(es) : IdLeq(lo, id) /\ IdLeq(id, hi)}
<1>1. \A s, n : Eager!Limited(s, n) = Limited(s, n)
  BY DEF Eager!Limited, Limited, Eager!Lesser, Lesser
<1>2. \A s : Eager!ToSet(s) = ToSet(s)
  BY DEF Eager!ToSet, ToSet
<1>3. \A x, y : Eager!IdLeq(x, y) <=> IdLeq(x, y)
  BY DEF Eager!IdLeq, IdLeq
<1>4. \A es, start : Eager!Newer(es, start) = Newer(es, start)
  BY <1>2, <1>3 DEF Eager!Newer, Newer
<1>5. \A es, start, n : Eager!After(es, start, n) = After(es, start, n)
  BY <1>1, <1>4, SameOnly DEF Eager!After, After
<1>6. ASSUME NEW es, NEW S, NEW n
      PROVE  Eager!Trips(es, S, n) <=> Trips(es, S, n)
  BY SameOnly DEF Eager!Trips, Trips, Eager!Readable, Readable
<1> QED
  BY <1>1, <1>2, <1>3, <1>4, <1>5, <1>6

LEMMA SameStreamMethods ==
  ASSUME NEW d, NEW t, NEW k
  PROVE  /\ \A m, n : Eager!XAdd(d, t, k, m, n) = XAdd(d, t, k, m, n)
         /\ \A l, h, n : Eager!XRange(d, t, k, l, h, n) = XRange(d, t, k, l, h, n)
         /\ \A s, n : Eager!XRead(d, t, k, s, n) = XRead(d, t, k, s, n)
<1> USE DEF Eager!Purge, Purge, Eager!Expired, Expired, Eager!Bump, Bump,
            Eager!Result, Result, Eager!Error, Error, Eager!Raise, Raise,
            Eager!WrongType, WrongType, Eager!Entries, Entries, Eager!Array, Array
<1>1. \A m, n : Eager!XAdd(d, t, k, m, n) = XAdd(d, t, k, m, n)
  <2>1. \A last, m, n : Eager!RequestedId(last, m, n) = RequestedId(last, m, n)
    BY DEF Eager!RequestedId, RequestedId, Eager!NextSeq, NextSeq
  <2>2. \A last, id : Eager!Accepted(last, id) <=> Accepted(last, id)
    <3>1. \A x, y : Eager!IdLess(x, y) <=> IdLess(x, y)
      BY DEF Eager!IdLess, IdLess, Eager!IdLeq, IdLeq
    <3> QED
      BY <3>1 DEF Eager!Accepted, Accepted
  <2>3. Eager!Purge(d, t, k) = Purge(d, t, k)
    OBVIOUS
  <2>4. \A e : Eager!Bump(e, k) = Bump(e, k)
    OBVIOUS
  <2> HIDE DEF Eager!Purge, Purge, Eager!Expired, Expired, Eager!Bump, Bump
  <2> SUFFICES ASSUME NEW m, NEW n
               PROVE  Eager!XAdd(d, t, k, m, n) = XAdd(d, t, k, m, n)
    OBVIOUS
  <2> DEFINE p == Purge(d, t, k)
             s == IF p.data[k] = None THEN NewStream ELSE p.data[k]
             id == RequestedId(s.last, m, n)
             Outcome(q, r, i, ok) ==
               IF WrongType(q.data[k], "stream") THEN Result(q, Error)
               ELSE IF ~ok THEN Result([q EXCEPT !.data[k] = r], Raise)
               ELSE Result(Bump([q EXCEPT !.data[k] =
                                   [r EXCEPT !.entries = Append(@, i), !.last = i]], k),
                           EntryId(i))
             q == Eager!Purge(d, t, k)
             r == IF q.data[k] = None THEN Eager!NewStream ELSE q.data[k]
             i == Eager!RequestedId(r.last, m, n)
  <2>5. XAdd(d, t, k, m, n) = Outcome(p, s, id, Accepted(s.last, id))
    BY DEF XAdd
  <2>6. Eager!XAdd(d, t, k, m, n) = Outcome(q, r, i, Eager!Accepted(r.last, i))
    <3>1. \A x : Eager!EntryId(x) = EntryId(x)
      BY DEF Eager!EntryId, EntryId
    <3> HIDE DEF q, r, i
    <3>2. Eager!XAdd(d, t, k, m, n) =
            IF Eager!WrongType(q.data[k], "stream") THEN Eager!Result(q, Eager!Error)
            ELSE IF ~Eager!Accepted(r.last, i)
              THEN Eager!Result([q EXCEPT !.data[k] = r], Eager!Raise)
              ELSE Eager!Result(Eager!Bump([q EXCEPT !.data[k] =
                       [r EXCEPT !.entries = Append(@, i), !.last = i]], k), Eager!EntryId(i))
      BY DEF Eager!XAdd, q, r, i
    <3> QED
      BY <2>4, <3>1, <3>2
  <2> HIDE DEF Outcome
  <2>7. q = p
    BY <2>3
  <2>8. r = s
    BY <2>7 DEF Eager!NewStream, NewStream
  <2> HIDE DEF p, q, r, s
  <2>9. i = id
    BY <2>1, <2>8
  <2> HIDE DEF i, id
  <2> QED
    BY <2>2, <2>5, <2>6, <2>7, <2>8, <2>9, Zenon
<1>2. \A l, h, n : Eager!XRange(d, t, k, l, h, n) = XRange(d, t, k, l, h, n)
  <2> TAKE l, h, n
  <2> DEFINE p == Purge(d, t, k)
             A == {id \in Eager!ToSet(Entries(p, k)) : Eager!IdLeq(l, id) /\ Eager!IdLeq(id, h)}
             B == {id \in ToSet(Entries(p, k)) : IdLeq(l, id) /\ IdLeq(id, h)}
             es == Entries(p, k)
             Outcome(trips, page) ==
               IF WrongType(p.data[k], "stream") \/ trips THEN Result(p, Raise)
               ELSE Result(p, Array(page))
  <2>1. A = B
    BY SamePages
  <2>2. XRange(d, t, k, l, h, n) = Outcome(Trips(es, B, n), Limited(Only(es, B), n))
    BY DEF XRange
  <2>3. Eager!XRange(d, t, k, l, h, n)
          = Outcome(Eager!Trips(es, A, n), Eager!Limited(Eager!Only(es, A), n))
    BY DEF Eager!XRange
  <2> HIDE DEF A, B, es, Outcome
  <2> QED
    BY <2>1, <2>2, <2>3, SameOnly, SamePages
<1>3. \A s, n : Eager!XRead(d, t, k, s, n) = XRead(d, t, k, s, n)
  <2> TAKE s, n
  <2> DEFINE p == Purge(d, t, k)
             es == Entries(p, k)
             Outcome(trips, page) ==
               IF WrongType(p.data[k], "stream") THEN Result(p, Error)
               ELSE IF trips THEN Result(p, Raise)
               ELSE Result(p, Array(page))
  <2>1. XRead(d, t, k, s, n) = Outcome(Trips(es, Newer(es, s), n), After(es, s, n))
    BY DEF XRead
  <2>2. Eager!XRead(d, t, k, s, n)
          = Outcome(Eager!Trips(es, Eager!Newer(es, s), n), Eager!After(es, s, n))
    BY DEF Eager!XRead
  <2> HIDE DEF es, Outcome
  <2> QED
    BY <2>1, <2>2, SamePages
<1> QED
  BY <1>1, <1>2, <1>3

LEMMA SameZSetMethods ==
  ASSUME NEW d, NEW k
  PROVE  /\ \A s : Eager!ZAdd(d, k, s) = ZAdd(d, k, s)
         /\ \A i, j : Eager!ZRange(d, k, i, j) = ZRange(d, k, i, j)
         /\ \A m : Eager!ZRank(d, k, m) = ZRank(d, k, m)
         /\ Eager!ZCard(d, k) = ZCard(d, k)
         /\ \A m : Eager!ZScore(d, k, m) = ZScore(d, k, m)
         /\ \A S : Eager!ZRem(d, k, S) = ZRem(d, k, S)
<1> USE DEF Eager!Result, Result, Eager!Number, Number, Eager!Raise, Raise, Eager!Nil, Nil,
            Eager!Members, Members, Eager!MembersOf, MembersOf,
            Eager!Cardinality, Cardinality
<1>1. \A s : Eager!ZAdd(d, k, s) = ZAdd(d, k, s)
  BY DEF Eager!ZAdd, ZAdd, Eager!SelectLastInSeq, SelectLastInSeq, Eager!Max, Max
<1>2. \A i, j : Eager!ZRange(d, k, i, j) = ZRange(d, k, i, j)
  BY DEF Eager!ZRange, ZRange, Eager!RangeOfZSet, RangeOfZSet, Eager!Ranked, Ranked,
         Eager!Rank, Rank, Eager!ZBefore, ZBefore, Eager!Slice, Slice, Eager!Array, Array
<1>3. \A m : Eager!ZRank(d, k, m) = ZRank(d, k, m)
  BY DEF Eager!ZRank, ZRank, Eager!Rank, Rank, Eager!ZBefore, ZBefore
<1>4. Eager!ZCard(d, k) = ZCard(d, k)
  BY DEF Eager!ZCard, ZCard
<1>5. \A m : Eager!ZScore(d, k, m) = ZScore(d, k, m)
  BY DEF Eager!ZScore, ZScore
<1>6. \A S : Eager!ZRem(d, k, S) = ZRem(d, k, S)
  BY DEF Eager!ZRem, ZRem
<1> QED
  BY <1>1, <1>2, <1>3, <1>4, <1>5, <1>6

LEMMA SameDispatch ==
  ASSUME NEW d, NEW t, NEW c
  PROVE  Eager!Dispatch(d, t, c) = Dispatch(d, t, c)
BY SameKeyspaceMethods, SameListMethods, SameStreamMethods, SameZSetMethods, ZenonT(60)
   DEF Eager!Dispatch, Dispatch, Eager!XAddCommand, XAddCommand, Eager!Result, Result,
       Eager!Names, Names, Eager!GetKeys, GetKeys, Eager!Ok, Ok, Eager!Raise, Raise,
       Eager!Error, Error

(* Removing keys lazily is not observable: replies and live keys are those *)
(* of a store that removes every key at its deadline (storage.py:35-39).   *)
THEOREM LazyImplementsEager == Spec => RemovesLazily
<1>1. Init => Eager!Init
  <2>1. \A t : Alive(EmptyDB, t) = EmptyDB
    BY DEF Alive, EmptyDB
  <2> QED
    BY <2>1, SameCopies DEF Init, Eager!Init
<1>2. ASSUME IInv, [Next]_vars
      PROVE  [Eager!Next]_(Eager!vars)
  <2>1. WellFormed(db) /\ now \in Nat
    BY <1>2 DEF IInv
  <2>2. ASSUME NEW c \in Workload, Run(c), c.op # "KEYS"
        PROVE  Eager!Run(c)
    <3>1. c \in Command
      BY WorkloadIsCommands
    <3>2. /\ Alive(db', now) = Alive(Dispatch(Alive(db, now), now, c).db, now)
          /\ reply' = Dispatch(Alive(db, now), now, c).reply
      BY <2>1, <2>2, <3>1, CommandsLook DEF Run
    <3> QED
      BY <2>2, <3>2, SameDispatch, SameCopies DEF Run, Eager!Run
  <2>3. ASSUME NEW c \in Workload, Run(c), c.op = "KEYS"
        PROVE  Eager!Run(c)
    <3> DEFINE a == Alive(db, now)
    <3>1. /\ Dispatch(db, now, c) = Result(db, Names(GetKeys(db)))
          /\ Dispatch(a, now, c) = Result(a, Names(GetKeys(a)))
      BY <2>3 DEF Dispatch
    <3>2. /\ GetKeys(db) \in SUBSET Key
          /\ GetKeys(a) \subseteq GetKeys(db)
      BY DEF GetKeys, Alive
    <3>3. Alive(a, now) = a
      <4>1. LooksLike(db, a, now)
        BY <2>1, AliveIsLive
      <4> QED
        BY <4>1, LookAlive
    <3>4. Names(GetKeys(db)) # Raise /\ Names(GetKeys(a)) # Raise
      BY DEF Names, Raise
    <3> HIDE DEF a
    <3>5. /\ up /\ up' = (Dispatch(db, now, c).reply # Raise)
          /\ db' = Dispatch(db, now, c).db
          /\ reply' = Dispatch(db, now, c).reply
          /\ UNCHANGED now
      BY <2>3 DEF Run
    <3>6. /\ Dispatch(db, now, c).db = db
          /\ Dispatch(db, now, c).reply = Names(GetKeys(db))
          /\ Dispatch(a, now, c).db = a
          /\ Dispatch(a, now, c).reply = Names(GetKeys(a))
      BY <3>1 DEF Result
    <3>7. /\ up /\ up' = TRUE /\ UNCHANGED <<db, now>>
          /\ reply' = Names(GetKeys(db))
      BY <3>4, <3>5, <3>6
    <3>8. /\ Alive(db, now)' = a
          /\ a = Alive(Dispatch(a, now, c).db, now)
      BY <3>3, <3>6, <3>7 DEF a
    <3>9. \E ks \in SUBSET Key : GetKeys(a) \subseteq ks /\ reply' = Names(ks)
      BY <3>2, <3>7
    <3>10. up' = (Dispatch(a, now, c).reply # Raise)
      BY <3>4, <3>6, <3>7
    <3> QED
      BY <2>3, <3>7, <3>8, <3>9, <3>10, SameDispatch, SameCopies DEF Eager!Run, a
  <2>4. CASE Tick
    <3>1. Alive(db, now + 1) = Alive(Alive(db, now), now + 1)
      BY <2>1, LaterLook
    <3> QED
      BY <2>4, <3>1, SameCopies DEF Tick, Eager!Next, Eager!Tick
  <2>5. CASE Restart
    <3>1. Alive(EmptyDB, now) = EmptyDB
      BY DEF Alive, EmptyDB
    <3> QED
      BY <2>5, <3>1, SameCopies DEF Restart, Eager!Next, Eager!Restart
  <2>6. CASE UNCHANGED vars
    BY <2>6 DEF vars, Eager!vars
  <2> QED
    BY <1>2, <2>2, <2>3, <2>4, <2>5, <2>6 DEF Next, Eager!Next
<1> QED
  BY <1>1, <1>2, Invariance, PTL DEF Spec, RemovesLazily, Eager!Spec

=============================================================================
