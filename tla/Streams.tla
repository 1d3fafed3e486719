------------------------------- MODULE Streams -------------------------------
(***************************************************************************)
(* The stream methods of the class Storage: XADD with explicit and         *)
(* automatic sequence numbers, XRANGE and XREAD over the entry IDs.        *)
(***************************************************************************)
EXTENDS Keyspace

(* The order Python gives to (ms, seq) tuples.  None is float("inf"), the  *)
(* upper end of an XRANGE given as "+" or without a sequence number.       *)
StreamEnd == (Nat \cup {None}) \X (Nat \cup {None})

IdLeq(a, b) ==
  \/ b[1] = None
  \/ b[1] # None /\ a[1] < b[1]
  \/ a[1] = b[1] /\ (b[2] = None \/ a[2] <= b[2])

IdLess(a, b) == IdLeq(a, b) /\ a # b

(* The IDs parse_stream_id accepts.  It splits at every "-", so it raises  *)
(* ValueError for an entry whose sequence number is negative.              *)
StartId == Nat \X Nat
Readable(id) == id[2] >= 0

(* x_range and x_read stop when the result has exactly count entries, so a *)
(* count of zero or less never stops them.                                 *)
Limited(s, count) ==
  IF count = None \/ count <= 0 THEN s
  ELSE SubSeq(s, 1, Lesser(count, Len(s)))

(* They parse the entries in turn up to there, those outside S included:   *)
(* one that cannot be parsed ends the process.                             *)
Trips(entries, S, count) ==
  \E i \in DOMAIN entries :
    /\ ~Readable(entries[i])
    /\ \/ count = None \/ count <= 0
       \/ Len(Only(SubSeq(entries, 1, i - 1), S)) < count

(* The sequence number "*" stands for: one after the top entry in the same *)
(* millisecond, zero in a later one.                                       *)
NextSeq(last, ms) == IF ms = last[1] THEN last[2] + 1 ELSE 0

(* The ID XADD asks for: seq = None is "*".                                *)
RequestedId(last, ms, seq) ==
  <<ms, IF seq = None THEN NextSeq(last, ms) ELSE seq>>

(* Variant: the ID is only required not to be smaller than the top item.   *)
AcceptedAlsoEqual(last, id) == id # <<0, 0>> /\ IdLeq(last, id)

Accepted(last, id) == id # <<0, 0>> /\ IdLess(last, id)

(* xadd stores the new, empty stream before it looks at the ID, so a       *)
(* refused ID leaves that stream in the dict.  StreamIDError is raised,    *)
(* and xadd_command's own "except storage.StreamIDError" evaluates an      *)
(* attribute the Storage object does not have: an AttributeError escapes.  *)
XAdd(d, t, k, ms, seq) ==
  LET p == Purge(d, t, k)
      s == IF p.data[k] = None THEN NewStream ELSE p.data[k]
      id == RequestedId(s.last, ms, seq)
      added == [s EXCEPT !.entries = Append(@, id), !.last = id]
  IN  IF WrongType(p.data[k], "stream") THEN Result(p, Error)
      ELSE IF ~Accepted(s.last, id)
        THEN Result([p EXCEPT !.data[k] = s], Raise)
        ELSE Result(Bump([p EXCEPT !.data[k] = added], k), EntryId(id))

Entries(d, k) == IF d.data[k] = None THEN <<>> ELSE d.data[k].entries

(* x_range_command has no handler for x_range's TypeError.                 *)
XRange(d, t, k, lo, hi, count) ==
  LET p == Purge(d, t, k)
      within == {id \in ToSet(Entries(p, k)) : IdLeq(lo, id) /\ IdLeq(id, hi)}
  IN  IF WrongType(p.data[k], "stream") \/ Trips(Entries(p, k), within, count)
        THEN Result(p, Raise)
      ELSE Result(p, Array(Limited(Only(Entries(p, k), within), count)))

(* Variant: an entry with the very ID the reader has seen is sent again.   *)
AfterInclusive(entries, start, count) ==
  Limited(Only(entries, {id \in ToSet(entries) : IdLeq(start, id)}), count)

(* The entries x_read returns: those with an ID after start.               *)
Newer(entries, start) == {id \in ToSet(entries) : ~IdLeq(id, start)}
After(entries, start, count) ==
  Limited(Only(entries, Newer(entries, start)), count)

(* One stream of an XREAD; the reply pairs the key with its new entries.   *)
XRead(d, t, k, start, count) ==
  LET p == Purge(d, t, k)
      es == Entries(p, k)
  IN  IF WrongType(p.data[k], "stream") THEN Result(p, Error)
      ELSE IF Trips(es, Newer(es, start), count) THEN Result(p, Raise)
      ELSE Result(p, Array(After(es, start, count)))

(* What "$" means at the start of a blocking XREAD.                        *)
LastStreamId(d, k) ==
  IF Entries(d, k) = <<>> THEN <<0, 0>> ELSE Last(Entries(d, k))

-----------------------------------------------------------------------------
(* Entries are in strictly increasing order of ID and last_id is the ID of *)
(* the newest one, so XREAD from the last ID seen neither repeats nor      *)
(* skips an entry.                                                         *)
StreamOrdered(s) ==
  /\ \A i, j \in DOMAIN s.entries : i < j => IdLess(s.entries[i], s.entries[j])
  /\ s.last = IF s.entries = <<>> THEN <<0, 0>> ELSE s.entries[Len(s.entries)]

StreamsOrdered(d) ==
  \A k \in Key : HasType(d.data[k], "stream") => StreamOrdered(d.data[k])

=============================================================================
