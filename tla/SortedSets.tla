----------------------------- MODULE SortedSets -----------------------------
(***************************************************************************)
(* The sorted-set commands of src/src/commands.py.  They work on the dict  *)
(* Storage.sorted_sets directly: no expiry, no version, no type check, and *)
(* a key may hold a sorted set and another value at the same time.         *)
(*                                                                         *)
(* A dictionary lookup of a missing key raises KeyError, which no handler  *)
(* catches.                                                                *)
(***************************************************************************)
EXTENDS Keyspace

MembersOf(z) == {m \in Member : z[m] # None}
Members(d, k) == IF d.zsets[k] = None THEN {} ELSE MembersOf(d.zsets[k])

(* ZADD of a sequence of <<score, member>> pairs, the last one of a member *)
(* counting.                                                               *)
ZAdd(d, k, pairs) ==
  LET old == Members(d, k)
      new == {pairs[i][2] : i \in DOMAIN pairs}
      LastOf(m) == SelectLastInSeq(pairs, LAMBDA p : p[2] = m)
      scored == [m \in Member |-> IF m \in new THEN pairs[LastOf(m)][1]
                                 ELSE IF m \in old THEN d.zsets[k][m] ELSE None]
  IN  Result([d EXCEPT !.zsets[k] = scored], Number(Cardinality(new \ old)))

(* Members are ranked by score, and by name among equal scores.            *)
ZBefore(z, m, n) == z[m] < z[n] \/ (z[m] = z[n] /\ m < n)

Rank(z, m) == Cardinality({n \in MembersOf(z) : ZBefore(z, n, m)})

Ranked(z) ==
  [i \in 1..Cardinality(MembersOf(z)) |->
     CHOOSE m \in MembersOf(z) : Rank(z, m) = i - 1]

(* Variant: a negative stop is taken as exclusive.                         *)
RangeOfZSetShort(members, start, stop) ==
  LET n == Len(members)
      i == IF start < 0 THEN (IF n + start > 0 THEN n + start ELSE 0) ELSE start
      j == IF stop < 0 THEN n + stop - 1 ELSE stop
  IN  IF i > j \/ i >= n THEN <<>> ELSE Slice(members, i, j)

(* ZRANGE does not clamp stop to the last index: the slice itself does.    *)
RangeOfZSet(members, start, stop) ==
  LET n == Len(members)
      i == IF start < 0 THEN (IF n + start > 0 THEN n + start ELSE 0) ELSE start
      j == IF stop < 0 THEN n + stop ELSE stop
  IN  IF i > j \/ i >= n THEN <<>> ELSE Slice(members, i, j)

ZRange(d, k, start, stop) ==
  Result(d, IF d.zsets[k] = None THEN Raise
            ELSE Array(RangeOfZSet(Ranked(d.zsets[k]), start, stop)))

ZRank(d, k, m) ==
  Result(d, IF d.zsets[k] = None THEN Raise
            ELSE IF m \notin Members(d, k) THEN Nil
            ELSE Number(Rank(d.zsets[k], m)))

ZCard(d, k) ==
  Result(d, IF d.zsets[k] = None THEN Raise
            ELSE Number(Cardinality(Members(d, k))))

(* ZSCORE of a present member indexes the set by the key it is stored      *)
(* under, data[key][member], and raises.                                   *)
ZScore(d, k, m) ==
  Result(d, IF d.zsets[k] = None \/ m \in Members(d, k) THEN Raise ELSE Nil)

(* Variant: the sorted set outlives its last member.                       *)
ZRemKeepingEmpty(d, k, ms) ==
  LET kept == Members(d, k) \ ms
      z == [m \in Member |-> IF m \in kept THEN d.zsets[k][m] ELSE None]
  IN  Result([d EXCEPT !.zsets[k] = IF d.zsets[k] = None THEN None ELSE z],
             Number(Cardinality(Members(d, k) \cap ms)))

(* ZREM drops the sorted set with its last member.                         *)
ZRem(d, k, ms) ==
  LET kept == Members(d, k) \ ms
      z == [m \in Member |-> IF m \in kept THEN d.zsets[k][m] ELSE None]
  IN  Result([d EXCEPT !.zsets[k] = IF kept = {} THEN None ELSE z],
             Number(Cardinality(Members(d, k) \cap ms)))

-----------------------------------------------------------------------------
(* A sorted set in the dict has a member: ZCARD, ZRANGE and ZRANK, which   *)
(* fail on a missing set, see one exactly when there is something to see.  *)
ZSetsNotEmpty(d) ==
  \A k \in Key : d.zsets[k] # None => MembersOf(d.zsets[k]) # {}

=============================================================================
