------------------------------ MODULE Keyspace ------------------------------
(***************************************************************************)
(* The keyspace kept by src/src/storage.py: strings and lists, their       *)
(* expiry times and the version counters WATCH compares.  Streams and      *)
(* sorted sets are added by the modules Streams and SortedSets.            *)
(*                                                                         *)
(* A keyspace is a value d \in DB, and every method of the class Storage   *)
(* is an operator that takes d (and the clock t where the method reads it) *)
(* and returns the keyspace after the call together with its reply:        *)
(*     [db |-> ..., reply |-> ...].                                        *)
(* The same operators then serve a direct command, a command run by EXEC,  *)
(* a command replayed from the append-only file and one sent by a master.  *)
(*                                                                         *)
(* A Python dict is a total function with None for an absent key, which is *)
(* what dict.get returns.  A str is an integer when int() accepts it and   *)
(* an uninterpreted member of Text when int() raises ValueError.           *)
(***************************************************************************)
EXTENDS Integers, Sequences, SequencesExt

CONSTANTS Key,   \* the key names clients use
          Text,  \* strings that int() does not accept
          Member, \* names of sorted-set members, as integers in their order
          None   \* Python's None: no such entry

Str == Text \cup Int

(* A stream ID is the pair (ms, seq); fields of an entry are abstracted.   *)
(* XADD splits "5--3" at its first "-", and int() accepts the "-3".        *)
StreamId == Nat \X Int

StrValue == [type : {"str"}, str : Str]
ListValue == [type : {"list"}, items : Seq(Str)]
StreamValue == [type : {"stream"}, entries : Seq(StreamId), last : StreamId]
Value == StrValue \cup ListValue \cup StreamValue

(* A sorted set gives each of its members a score, an integer ordered as   *)
(* the program orders floats (a NaN score is left out), and None to others.*)
ZSet == [Member -> Int \cup {None}]

DB == [data     : [Key -> Value \cup {None}],
       expires  : [Key -> Int \cup {None}],
       versions : [Key -> Nat],
       zsets    : [Key -> ZSet \cup {None}]]

ASSUME SentinelsAreApart ==
  /\ None \notin Str
  /\ None \notin Value
  /\ None \notin ZSet
  /\ \A s \in Text : s \notin Int

ASSUME MembersAreOrdered == Member \subseteq Int

EmptyDB == [data     |-> [k \in Key |-> None],
            expires  |-> [k \in Key |-> None],
            versions |-> [k \in Key |-> 0],
            zsets    |-> [k \in Key |-> None]]

StrOf(s) == [type |-> "str", str |-> s]
ListOf(s) == [type |-> "list", items |-> s]
(* Variant: a new stream starts below every ID with milliseconds.          *)
NewStreamBelow == [type |-> "stream", entries |-> <<>>, last |-> <<-1, 0>>]

NewStream == [type |-> "stream", entries |-> <<>>, last |-> <<0, 0>>]

HasType(v, type) == v # None /\ v.type = type
WrongType(v, type) == v # None /\ v.type # type

(* The elements of s that belong to S, in their order.                     *)
Only(s, S) == FoldLeft(LAMBDA r, x : IF x \in S THEN Append(r, x) ELSE r, <<>>, s)

-----------------------------------------------------------------------------
(* Replies.  What a client reads is reduced to its RESP kind and payload;  *)
(* "raise" stands for an exception that leaves the command handler.        *)

Result(d, reply) == [db |-> d, reply |-> reply]

Ok == [tag |-> "ok"]
Nil == [tag |-> "nil"]
Error == [tag |-> "error"]
Raise == [tag |-> "raise"]
Number(n) == [tag |-> "int", val |-> n]
Bulk(s) == [tag |-> "bulk", str |-> s]
Array(s) == [tag |-> "array", items |-> s]
EntryId(id) == [tag |-> "bulk", id |-> id]
TypeName(s) == [tag |-> "bulk", type |-> s]
Names(S) == [tag |-> "array", names |-> S]

-----------------------------------------------------------------------------
(* Expiry is lazy: a key past its time is removed by the next method that  *)
(* purges it first, and only then.                                         *)

Expired(d, t, k) == d.expires[k] # None /\ t >= d.expires[k]

Bump(d, k) == [d EXCEPT !.versions[k] = @ + 1]

(* Variant: the deadline of a purged key is left behind.                   *)
PurgeKeepingTTL(d, t, k) ==
  IF d.data[k] # None /\ Expired(d, t, k)
    THEN Bump([d EXCEPT !.data[k] = None], k)
    ELSE d

(* Variant: an expired key disappears without a new version.               *)
PurgeWithoutBump(d, t, k) ==
  IF d.data[k] # None /\ Expired(d, t, k)
    THEN [d EXCEPT !.data[k] = None, !.expires[k] = None]
    ELSE d

Purge(d, t, k) ==
  IF d.data[k] # None /\ Expired(d, t, k)
    THEN Bump([d EXCEPT !.data[k] = None, !.expires[k] = None], k)
    ELSE d

(* What a purging reader finds under k.                                    *)
Lookup(d, t, k) == Purge(d, t, k).data[k]

(* Variant: get_version does not purge.                                    *)
GetVersionUnpurged(d, t, k) == d.versions[k]

GetVersion(d, t, k) == Purge(d, t, k).versions[k]

(* The keys of S are looked at, and purged if they have expired.           *)
PurgeKeys(d, t, S) ==
  LET At(k) == IF k \in S THEN Purge(d, t, k) ELSE d
  IN  [d EXCEPT !.data = [k \in Key |-> At(k).data[k]],
                !.expires = [k \in Key |-> At(k).expires[k]],
                !.versions = [k \in Key |-> At(k).versions[k]]]

Exists(d, t, k) ==
  LET p == Purge(d, t, k)
  IN  Result(p, p.data[k] # None)

(* Variant: a deleted key takes its version with it.                       *)
DeleteForgettingVersion(d, t, k) ==
  LET p == Purge(d, t, k)
      gone == [p EXCEPT !.data[k] = None, !.expires[k] = None]
  IN  IF p.data[k] # None
        THEN Result([gone EXCEPT !.versions[k] = 0], Number(1))
        ELSE Result(gone, Number(0))

Delete(d, t, k) ==
  LET p == Purge(d, t, k)
      gone == [p EXCEPT !.data[k] = None, !.expires[k] = None]
  IN  IF p.data[k] # None
        THEN Result(Bump(gone, k), Number(1))
        ELSE Result(gone, Number(0))

GetType(d, t, k) ==
  LET p == Purge(d, t, k)
  IN  Result(p, TypeName(IF p.data[k] = None THEN "none" ELSE p.data[k].type))

(* get_keys lists the dict as it is: it does not purge.                    *)
GetKeys(d) == {k \in Key : d.data[k] # None}

-----------------------------------------------------------------------------
(* Strings.                                                                *)

(* set does not purge; it forgets any older deadline of k.                 *)
Set(d, t, k, s, ttl) ==
  Result(Bump([d EXCEPT !.data[k] = StrOf(s),
                        !.expires[k] = IF ttl = None THEN None ELSE t + ttl], k),
         Ok)

(* Variant: the reader does not purge first.                               *)
GetUnpurged(d, t, k) ==
  Result(d, IF HasType(d.data[k], "str") THEN Bulk(d.data[k].str) ELSE Nil)

Get(d, t, k) ==
  LET p == Purge(d, t, k)
  IN  Result(p, IF HasType(p.data[k], "str") THEN Bulk(p.data[k].str) ELSE Nil)

(* Variant: the number is stored with set, which forgets the deadline.     *)
IncrThroughSet(d, t, k) ==
  LET p == Purge(d, t, k)
      v == p.data[k]
      n == IF v = None THEN 1 ELSE v.str + 1
  IN  IF v = None \/ (v.type = "str" /\ v.str \in Int)
        THEN Result(Set(p, t, k, n, None).db, Number(n))
        ELSE Result(p, Error)

(* Variant: the version is bumped before int() may refuse the value.       *)
IncrBumpingFirst(d, t, k) ==
  LET p == Bump(Purge(d, t, k), k)
      v == p.data[k]
      n == IF v = None THEN 1 ELSE v.str + 1
  IN  IF v = None \/ (v.type = "str" /\ v.str \in Int)
        THEN Result([p EXCEPT !.data[k] = StrOf(n)], Number(n))
        ELSE Result(p, Error)

(* int() raises ValueError on text and TypeError on a list or a stream;    *)
(* incr_command answers both with an error.  The deadline of k is kept.    *)
Incr(d, t, k) ==
  LET p == Purge(d, t, k)
      v == p.data[k]
      n == IF v = None THEN 1 ELSE v.str + 1
  IN  IF v = None \/ (v.type = "str" /\ v.str \in Int)
        THEN Result(Bump([p EXCEPT !.data[k] = StrOf(n)], k), Number(n))
        ELSE Result(p, Error)

-----------------------------------------------------------------------------
(* Lists.                                                                  *)

Items(d, k) == IF d.data[k] = None THEN <<>> ELSE d.data[k].items

(* s[i:j+1] of a Python sequence for indexes 0 <= i <= j.                  *)
Slice(s, i, j) == SubSeq(s, i + 1, IF j < Len(s) THEN j + 1 ELSE Len(s))

(* Variant: RPUSH does not bump the version.                                *)
RPushWithoutBump(d, t, k, vals) ==
  LET p == Purge(d, t, k)
      items == Items(p, k) \o vals
  IN  IF vals = <<>> THEN Result(d, Error)
      ELSE IF WrongType(p.data[k], "list") THEN Result(p, Error)
        ELSE Result([p EXCEPT !.data[k] = ListOf(items)], Number(Len(items)))

(* A push without elements is refused for its arity, before any access.    *)
RPush(d, t, k, vals) ==
  LET p == Purge(d, t, k)
      items == Items(p, k) \o vals
  IN  IF vals = <<>> THEN Result(d, Error)
      ELSE IF WrongType(p.data[k], "list") THEN Result(p, Error)
        ELSE Result(Bump([p EXCEPT !.data[k] = ListOf(items)], k),
                    Number(Len(items)))

LPush(d, t, k, vals) ==
  LET p == Purge(d, t, k)
      items == Reverse(vals) \o Items(p, k)
  IN  IF vals = <<>> THEN Result(d, Error)
      ELSE IF WrongType(p.data[k], "list") THEN Result(p, Error)
        ELSE Result(Bump([p EXCEPT !.data[k] = ListOf(items)], k),
                    Number(Len(items)))

LLen(d, t, k) ==
  LET p == Purge(d, t, k)
  IN  Result(p, IF WrongType(p.data[k], "list")
                  THEN Error ELSE Number(Len(Items(p, k))))

(* The normalised indexes of LRANGE, and the slice they select.            *)
(* Variant: the slice ends before stop.                                    *)
RangeOfListShort(items, start, stop) ==
  LET n == Len(items)
      i == IF start < 0 THEN (IF n + start > 0 THEN n + start ELSE 0) ELSE start
      s == IF stop < 0 THEN n + stop ELSE stop
      j == IF s < n - 1 THEN s ELSE n - 1
  IN  IF i >= j \/ i >= n THEN <<>> ELSE Slice(items, i, j - 1)

RangeOfList(items, start, stop) ==
  LET n == Len(items)
      i == IF start < 0 THEN (IF n + start > 0 THEN n + start ELSE 0) ELSE start
      s == IF stop < 0 THEN n + stop ELSE stop
      j == IF s < n - 1 THEN s ELSE n - 1
  IN  IF i > j \/ i >= n THEN <<>> ELSE Slice(items, i, j)

LRange(d, t, k, start, stop) ==
  LET p == Purge(d, t, k)
  IN  Result(p, IF WrongType(p.data[k], "list")
                  THEN Error ELSE Array(RangeOfList(Items(p, k), start, stop)))

(* Variant: the emptied list stays in the dict as an empty list.           *)
ReplaceKeepingEmpty(d, k, rest) == [d EXCEPT !.data[k] = ListOf(rest)]

(* A list that a pop empties is removed from the dict, its deadline is not *)
(* looked at.                                                              *)
Replace(d, k, rest) ==
  [d EXCEPT !.data[k] = IF rest = <<>> THEN None ELSE ListOf(rest)]

Lesser(m, n) == IF m < n THEN m ELSE n

(* count = None is the plain LPOP: it removes the head and does not bump   *)
(* the version.  LPOP with a count bumps it even when the count is 0.      *)
LPop(d, t, k, count) ==
  LET p == Purge(d, t, k)
      items == Items(p, k)
      n == Lesser(count, Len(items))
  IN  IF WrongType(p.data[k], "list") THEN Result(p, Error)
      ELSE IF items = <<>>
        THEN Result(p, IF count = None THEN Nil ELSE Array(<<>>))
      ELSE IF count = None
        THEN Result(Replace(p, k, Tail(items)), Bulk(Head(items)))
        ELSE Result(Bump(Replace(p, k, SubSeq(items, n + 1, Len(items))), k),
                    Array(SubSeq(items, 1, n)))

(* Variant: RPOP k 0 uses the slice [-0:], which is the whole list.        *)
RPopWholeOnZero(d, t, k, count) ==
  LET p == Purge(d, t, k)
      items == Items(p, k)
      m == Lesser(count, Len(items))
      n == IF m = 0 THEN Len(items) ELSE m
      kept == SubSeq(items, 1, Len(items) - n)
  IN  IF WrongType(p.data[k], "list") THEN Result(p, Error)
      ELSE IF items = <<>>
        THEN Result(p, IF count = None THEN Nil ELSE Array(<<>>))
      ELSE IF count = None
        THEN Result(Replace(p, k, Front(items)), Bulk(Last(items)))
        ELSE Result(Bump(Replace(p, k, kept), k),
                    Array(Reverse(SubSeq(items, Len(items) - n + 1, Len(items)))))

(* RPOP bumps the version only when a positive count removed something.    *)
RPop(d, t, k, count) ==
  LET p == Purge(d, t, k)
      items == Items(p, k)
      n == Lesser(count, Len(items))
      kept == SubSeq(items, 1, Len(items) - n)
  IN  IF WrongType(p.data[k], "list") THEN Result(p, Error)
      ELSE IF items = <<>>
        THEN Result(p, IF count = None THEN Nil ELSE Array(<<>>))
      ELSE IF count = None
        THEN Result(Replace(p, k, Front(items)), Bulk(Last(items)))
      ELSE IF n = 0
        THEN Result(p, Array(<<>>))
        ELSE Result(Bump(Replace(p, k, kept), k),
                    Array(Reverse(SubSeq(items, Len(items) - n + 1, Len(items)))))

-----------------------------------------------------------------------------
(* d at time t with the dead keys removed; versions are internal.          *)
Alive(d, t) ==
  LET dead == {k \in Key : d.data[k] # None /\ Expired(d, t, k)}
      Without(f) == [k \in Key |-> IF k \in dead THEN None ELSE f[k]]
  IN  [data |-> Without(d.data), expires |-> Without(d.expires),
       versions |-> [k \in Key |-> 0], zsets |-> d.zsets]

-----------------------------------------------------------------------------
(* Well-formedness: what every reachable keyspace satisfies.               *)

(* Only a string carries a deadline.  A list or stream that inherited one  *)
(* would vanish although nobody set a TTL on it: pops, pushes and XADD do  *)
(* not touch _expires, so they rely on no deadline outliving its string.   *)
DeadlinesOnStrings(d) ==
  \A k \in Key : d.expires[k] # None => HasType(d.data[k], "str")

(* A list in the dict is never empty, so a key exists iff it holds data.   *)
ListsNotEmpty(d) ==
  \A k \in Key : HasType(d.data[k], "list") => d.data[k].items # <<>>

=============================================================================
