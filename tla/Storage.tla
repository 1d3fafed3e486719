------------------------------- MODULE Storage -------------------------------
(***************************************************************************)
(* One process serving stateless commands from its keyspace: the Storage   *)
(* object of src/src/storage.py driven through commands.dispatch while the *)
(* wall clock advances.  The server runs in a single thread, so a command  *)
(* is one step.  An exception that leaves a handler leaves the event loop  *)
(* too and ends the process; a new process starts from an empty keyspace   *)
(* (persistence is not part of this module).                               *)
(***************************************************************************)
EXTENDS Commands

CONSTANTS Workload,    \* the commands clients send
          MaxVersion,  \* bound: no key is written more often than this
          MaxTime      \* bound: the clock stops here

ASSUME WorkloadIsCommands == Workload \subseteq Command

VARIABLES db,    \* the Storage object
          now,   \* time.time(), in ticks; assumed not to run backwards
          up,    \* the process is running
          reply  \* the reply to the latest command

vars == <<db, now, up, reply>>

TypeOK ==
  /\ db \in DB
  /\ now \in Nat
  /\ up \in BOOLEAN

Init ==
  /\ db = EmptyDB
  /\ now = 0
  /\ up = TRUE
  /\ reply = Ok

(* Bound: writes stop when a version reaches MaxVersion; what a reader     *)
(* purges after that may raise it once more.                               *)
MayWrite == \A k \in Key : db.versions[k] < MaxVersion

Run(c) ==
  LET r == Dispatch(db, now, c)
  IN  /\ up
      /\ c.op \in WriteCommands => MayWrite
      /\ db' = r.db
      /\ reply' = r.reply
      /\ up' = (r.reply # Raise)
      /\ UNCHANGED now

Tick ==
  /\ now < MaxTime
  /\ now' = now + 1
  /\ UNCHANGED <<db, up, reply>>

Restart ==
  /\ ~up
  /\ db' = EmptyDB
  /\ up' = TRUE
  /\ reply' = Ok
  /\ UNCHANGED now

Next ==
  \/ \E c \in Workload : Run(c)
  \/ Tick
  \/ Restart

Spec == Init /\ [][Next]_vars

-----------------------------------------------------------------------------
(* Safety.                                                                 *)

(* Only a string carries a deadline, so the pops, pushes and XADD that     *)
(* leave _expires alone (storage.py:120-222) never inherit one.            *)
OnlyStringsExpire == DeadlinesOnStrings(db)

(* A key exists only while its list has an element: RPUSH, LPUSH and both  *)
(* pops (storage.py:120-185) keep empty lists out of the dict.             *)
NoEmptyList == ListsNotEmpty(db)

(* Sorted sets follow the same rule (commands.py:226-244, 299-314).        *)
NoEmptyZSet == ZSetsNotEmpty(db)

(* A stream is in strict order of ID and its last_id is its newest entry,  *)
(* whatever mix of explicit and automatic IDs XADD was given               *)
(* (storage.py:188-222).                                                   *)
StreamsInOrder == StreamsOrdered(db)

(* A reader that repeats XREAD from the last ID it was given meets every   *)
(* entry once, in order, whatever COUNT it uses (storage.py:251-266): the  *)
(* first page and the page after it make up a prefix of the stream.        *)
PagesJoin ==
  \A k \in Key : HasType(db.data[k], "stream") =>
    LET es == db.data[k].entries
    IN  \A n \in 1..Len(es), start \in {<<0, 0>>} \cup ToSet(es) :
          LET page == After(es, start, n)
          IN  page # <<>> =>
                page \o After(es, page[Len(page)], None) = After(es, start, None)

(* LRANGE and ZRANGE return the elements whose position lies between the   *)
(* two indexes, negative ones counting from the end (storage.py:138-148,   *)
(* commands.py:256-262), for every pair of indexes in and out of range.    *)
Between(s, start, stop) ==
  LET n == Len(s)
      From(x) == IF x < 0 THEN n + x ELSE x
      picked == {p \in 0..(n - 1) : From(start) <= p /\ p <= From(stop)}
  IN  [i \in 1..Cardinality(picked) |->
         s[1 + CHOOSE p \in picked : Cardinality({q \in picked : q < p}) = i - 1]]

Indexes(s) == (-(Len(s) + 2))..(Len(s) + 2)

ListRangesAreExact ==
  \A k \in Key : HasType(db.data[k], "list") =>
    LET s == db.data[k].items
    IN  \A i, j \in Indexes(s) : RangeOfList(s, i, j) = Between(s, i, j)

ZSetRangesAreExact ==
  \A k \in Key : db.zsets[k] # None =>
    LET s == Ranked(db.zsets[k])
    IN  \A i, j \in Indexes(s) : RangeOfZSet(s, i, j) = Between(s, i, j)

(* A counted pop takes min(count, length) elements off one end: together,  *)
(* in the order of that end, what it returned and what it left are the     *)
(* list it found (storage.py:151-185, where an RPOP of 0 must not become   *)
(* the slice [-0:], which is the whole list).                              *)
PopsSplitTheList ==
  \A k \in Key : HasType(db.data[k], "list") =>
    LET s == db.data[k].items
        Popped(r) == r.reply.items
    IN  \A n \in 0..(Len(s) + 1) :
          LET l == LPop(db, now, k, n)
              r == RPop(db, now, k, n)
          IN  /\ Len(Popped(l)) = Lesser(n, Len(s))
              /\ Len(Popped(r)) = Lesser(n, Len(s))
              /\ Popped(l) \o Items(l.db, k) = s
              /\ Items(r.db, k) \o Reverse(Popped(r)) = s

-----------------------------------------------------------------------------
(* Action properties.                                                      *)

(* Whatever a command changes in _data, including the removal of expired   *)
(* keys, it moves that key's version: only a plain LPOP or RPOP changes a  *)
(* list behind the version's back (storage.py:35-222).  A command that     *)
(* ends the process is not followed by any version check.                  *)
VersionMovesWithData ==
  [][\A c \in Workload : Run(c) /\ up' =>
       \A k \in Key : db'.data[k] # db.data[k] =>
         \/ db'.versions[k] > db.versions[k]
         \/ PlainPop(c) /\ HasType(db.data[k], "list")]_vars

(* A live key keeps its deadline through every command but SET and DEL:    *)
(* INCR rewrites the string and must leave its deadline alone.             *)
DeadlineIsKept ==
  [][\A c \in Workload : Run(c) /\ c.op \notin {"SET", "DEL"} =>
       \A k \in Key : Lookup(db, now, k) # None /\ Lookup(db', now, k) # None
                        => db'.expires[k] = db.expires[k]]_vars

-----------------------------------------------------------------------------
(* Removing keys lazily is not observable: replies and live keys are those *)
(* of a store that removes every key at its deadline (storage.py:35-39).   *)
Eager == INSTANCE EagerStore WITH view <- Alive(db, now)

RemovesLazily == Eager!Spec

-----------------------------------------------------------------------------
(* What documentation in the source says of the program.                   *)

(* "Each handler function [...] returns byte-string" (commands.py:3-4): no *)
(* well-formed command makes its handler raise instead.                    *)
HandlersReturn == reply # Raise

=============================================================================
