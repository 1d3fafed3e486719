---------------------------- MODULE StreamWaiters ----------------------------
(***************************************************************************)
(* XREAD BLOCK beside BLPOP (connection_state.py): clients that wait for   *)
(* entries of streams, the XADDs that answer them, and the sweep that      *)
(* times out both kinds of waiters.  Both kinds leave their dicts through  *)
(* the same functions, so this module has two instances of Blocking: Lists *)
(* for the dicts of BLPOP and Reads for those of XREAD.                    *)
(*                                                                         *)
(* XREAD names its streams once each.  COUNT is left out: it does not      *)
(* decide whether there is anything to read, and without it every entry of *)
(* a stream is parsed.                                                     *)
(***************************************************************************)
EXTENDS Connections

CONSTANTS KeyLists, Timeouts, Patient, MaxQueue,  \* those of Blocking
          ReadLists,  \* the streams of XREAD commands: pairs of a key and a
                      \* start: a StartId, NewOnly, or None
          NewOnly     \* the start "$"; None is text x_read cannot parse

VARIABLES blocked, order, waiters, resolving, expiring,  \* those of Blocking
          reading,    \* blocked_xread_clients
          readOrder,  \* its insertion order
          readers,    \* waiters_by_stream: key -> queue of clients
          serving,    \* the copy of a queue that an XADD has still to serve
          lapsing     \* the readers a sweep has still to time out

blockVars == <<blocked, order, waiters, resolving, expiring>>
readVars == <<reading, readOrder, readers, serving, lapsing>>
vars == <<loopVars, blockVars, readVars>>

Lists == INSTANCE Blocking
Reads == INSTANCE Blocking WITH
           blocked <- reading, order <- readOrder, waiters <- readers,
           resolving <- serving, expiring <- lapsing

ReadInfo == [keys : Seq(Key), from : Seq(StreamId \cup {None}),
             deadline : Int \cup {None}]

ASSUME ReadInputs ==
  /\ KeyLists \subseteq Seq(Key) /\ Timeouts \subseteq Int \cup {None}
  /\ Patient \subseteq Client
  /\ ReadLists \subseteq Seq(Key \X (StartId \cup {NewOnly, None}))
  /\ \A s \in ReadLists : \A i, j \in DOMAIN s : s[i][1] = s[j][1] => i = j
  /\ NewOnly \notin StreamId \cup {None}
  /\ None \notin StreamId

ASSUME NoneIsNoWaiter == None \notin ReadInfo /\ None \notin Lists!BlockInfo

TypeOK ==
  /\ Lists!TypeOK
  /\ reading \in [Client -> ReadInfo \cup {None}]
  /\ readOrder \in Seq(Client)
  /\ readers \in [Key -> Seq(Client)]
  /\ serving \in Seq(Client)
  /\ lapsing \subseteq Client

Init ==
  /\ Lists!Init
  /\ reading = [c \in Client |-> None]
  /\ readOrder = <<>>
  /\ readers = [k \in Key |-> <<>>]
  /\ serving = <<>>
  /\ lapsing = {}

Idle == Lists!Idle /\ serving = <<>> /\ lapsing = {}

MaySend(c) ==
  /\ Lists!MaySend(c)
  /\ Idle
  /\ c \in Patient => reading[c] = None

-----------------------------------------------------------------------------
(* What x_read finds for one key and start.  It parses the start and then  *)
(* every entry; the ID "$" stands for is that of an entry.                 *)

Alien(k) == WrongType(Lookup(db, now, k), "stream")

Unreadable(k, start) ==
  LET v == Lookup(db, now, k)
  IN  /\ HasType(v, "stream")
      /\ start = None \/ \E i \in DOMAIN v.entries : ~Readable(v.entries[i])
Unread(k, start) ==
  IF HasType(Lookup(db, now, k), "stream") /\ start # None
    THEN After(Lookup(db, now, k).entries, start, None)
    ELSE <<>>

(* What "$" stands for when the command arrives.                           *)
From(k, start) ==
  IF start # NewOnly THEN start
  ELSE LastStreamId(PurgeKeys(db, now, {k}), k)

KeysIn(s) == {s[i][1] : i \in DOMAIN s}
FirstAlien(s) ==
  CHOOSE i \in DOMAIN s : Alien(s[i][1]) /\ \A j \in 1..(i - 1) : ~Alien(s[j][1])
HasAlien(s) == \E k \in KeysIn(s) : Alien(k)

(* last_stream_id raises outside any handler, and x_read raises for an ID  *)
(* it cannot parse unless it meets a value of the wrong type first.        *)
Raising(s) ==
  \/ \E i \in DOMAIN s : s[i][2] = NewOnly /\ Alien(s[i][1])
  \/ \E i \in DOMAIN s : /\ Unreadable(s[i][1], s[i][2])
                         /\ \A j \in 1..i : ~Alien(s[j][1])

HasNews(s) == \E i \in DOMAIN s : Unread(s[i][1], From(s[i][1], s[i][2])) # <<>>

-----------------------------------------------------------------------------
(* XREAD BLOCK.  As in BLPOP the last reading of the clock stands for all: *)
(* streams do not expire, what was missing stays missing, and a live value *)
(* of another type ended the command at once.                              *)

XreadRaises(c, s) ==
  /\ MaySend(c)
  /\ Raising(s)
  /\ up' = FALSE
  /\ Answer(c, 0)
  /\ UNCHANGED <<db, now, turn, blockVars, readVars>>

XreadRefused(c, s) ==
  /\ MaySend(c)
  /\ ~Raising(s)
  /\ HasAlien(s)
  /\ db' = PurgeKeys(db, now,
       {s[i][1] : i \in {j \in DOMAIN s : j <= FirstAlien(s) \/ s[j][2] = NewOnly}})
  /\ Answer(c, 1)
  /\ UNCHANGED <<now, up, turn, blockVars, readVars>>

XreadAnswered(c, s) ==
  /\ MaySend(c)
  /\ ~Raising(s) /\ ~HasAlien(s)
  /\ HasNews(s)
  /\ db' = PurgeKeys(db, now, KeysIn(s))
  /\ Answer(c, 1)
  /\ UNCHANGED <<now, up, turn, blockVars, readVars>>

(* Variant: the client is only registered under the first stream.          *)
EnqueueFirst(c, s) ==
  readers' = [readers EXCEPT ![s[1][1]] = Append(@, c)]

Enqueue(c, s) ==
  readers' = [k \in Key |-> IF k \in KeysIn(s) THEN Append(readers[k], c)
                                               ELSE readers[k]]

(* Nothing to read: the client waits, with the position "$" has now.       *)
XreadWaits(c, s, timeout) ==
  /\ MaySend(c)
  /\ ~Raising(s) /\ ~HasAlien(s)
  /\ ~HasNews(s)
  /\ \A k \in KeysIn(s) : Len(readers[k]) < MaxQueue
  /\ db' = PurgeKeys(db, now, KeysIn(s))
  /\ reading' = [reading EXCEPT ![c] =
       [keys |-> [i \in DOMAIN s |-> s[i][1]],
        from |-> [i \in DOMAIN s |-> From(s[i][1], s[i][2])],
        deadline |-> IF timeout = 0 THEN None ELSE now + timeout]]
  /\ readOrder' = IF c \in ToSet(readOrder) THEN readOrder ELSE Append(readOrder, c)
  /\ Enqueue(c, s)
  /\ Answer(c, 0)
  /\ UNCHANGED <<now, up, turn, serving, lapsing, blockVars>>

(* A timeout that is negative or not an integer is refused, and only that. *)
XreadMalformed(c) ==
  /\ MaySend(c)
  /\ Answer(c, 1)
  /\ UNCHANGED <<db, now, up, turn, blockVars, readVars>>

Xread(c, s, timeout) ==
  IF timeout = None \/ timeout < 0 THEN XreadMalformed(c)
  ELSE \/ XreadRaises(c, s)
       \/ XreadRefused(c, s)
       \/ XreadAnswered(c, s)
       \/ XreadWaits(c, s, timeout)

-----------------------------------------------------------------------------
(* XADD and the readers it serves.                                         *)

(* on_write_command follows every stateless command that did not raise.    *)
(* After a push it works on the queue itself, after an XADD on a copy.     *)
Stateless(c, cmd) ==
  /\ MaySend(c)
  /\ Direct(c, cmd)
  /\ resolving' = IF up' /\ cmd.op \in {"RPUSH", "LPUSH"} THEN cmd.key ELSE None
  /\ serving' = IF up' /\ cmd.op = "XADD" THEN readers[cmd.key] ELSE <<>>
  /\ UNCHANGED <<blocked, order, waiters, expiring, reading, readOrder, readers, lapsing>>

Blpop(c, keys, timeout) ==
  /\ MaySend(c)
  /\ Lists!Blpop(c, keys, timeout)
  /\ UNCHANGED readVars

NewsFor(c) ==
  \E i \in DOMAIN reading[c].keys :
    Unread(reading[c].keys[i], reading[c].from[i]) # <<>>

Fails(c) ==
  \E i \in DOMAIN reading[c].keys :
    LET k == reading[c].keys[i]
    IN  Alien(k) \/ Unreadable(k, reading[c].from[i])

(* The next client of the copy has been answered since.                    *)
SkipReader ==
  /\ up
  /\ serving # <<>>
  /\ reading[Head(serving)] = None
  /\ serving' = Tail(serving)
  /\ UNCHANGED <<loopVars, blockVars, reading, readOrder, readers, lapsing>>

(* Variant: the first reader without news ends the loop.                   *)
PassReaderBreaks ==
  /\ up
  /\ serving # <<>>
  /\ reading[Head(serving)] # None
  /\ ~Fails(Head(serving)) /\ ~NewsFor(Head(serving))
  /\ db' = PurgeKeys(db, now, Reads!KeysOf(Head(serving)))
  /\ serving' = <<>>
  /\ UNCHANGED <<now, up, conn, turn, owed, blockVars, reading, readOrder, readers, lapsing>>

(* It has nothing to read yet: it keeps its places.                        *)
PassReader ==
  /\ up
  /\ serving # <<>>
  /\ reading[Head(serving)] # None
  /\ ~Fails(Head(serving)) /\ ~NewsFor(Head(serving))
  /\ db' = PurgeKeys(db, now, Reads!KeysOf(Head(serving)))
  /\ serving' = Tail(serving)
  /\ UNCHANGED <<now, up, conn, turn, owed, blockVars, reading, readOrder, readers, lapsing>>

(* It is sent the new entries of all its streams.                          *)
ServeReader ==
  /\ up
  /\ serving # <<>>
  /\ LET c == Head(serving)
     IN  /\ reading[c] # None
         /\ ~Fails(c) /\ NewsFor(c)
         /\ db' = PurgeKeys(db, now, Reads!KeysOf(c))
         /\ Reads!Unblock(c, readers)
         /\ owed' = [owed EXCEPT ![c] = @ - 1]
         /\ Write({c})
  /\ serving' = Tail(serving)
  /\ UNCHANGED <<now, up, turn, blockVars, lapsing>>

(* One of its streams is not a stream any more, or its start or an entry   *)
(* is no ID x_read can parse: nothing catches what it raises.              *)
ServeRaises ==
  /\ up
  /\ serving # <<>>
  /\ reading[Head(serving)] # None
  /\ Fails(Head(serving))
  /\ up' = FALSE
  /\ UNCHANGED <<db, now, conn, turn, owed, blockVars, readVars>>

-----------------------------------------------------------------------------
(* The sweep: BLPOP's clients, then XREAD's, by one reading of the clock   *)
(* here and two in the code, with no other handler in between.             *)

(* Variant: only BLPOP's dict is swept.                                    *)
SweepLists ==
  /\ up /\ turn = None /\ Idle
  /\ expiring' = Lists!TimedOut
  /\ lapsing' = {}
  /\ UNCHANGED <<loopVars, blocked, order, waiters, resolving,
                 reading, readOrder, readers, serving>>

Sweep ==
  /\ up /\ turn = None /\ Idle
  /\ expiring' = Lists!TimedOut
  /\ lapsing' = Reads!TimedOut
  /\ UNCHANGED <<loopVars, blocked, order, waiters, resolving,
                 reading, readOrder, readers, serving>>

TimeOutPop(c) == Lists!TimeOut(c) /\ UNCHANGED readVars
TimeOutRead(c) == expiring = {} /\ Reads!TimeOut(c) /\ UNCHANGED blockVars

Loop(c) == Idle /\ Lists!Loop(c) /\ UNCHANGED readVars

ResolvingList ==
  /\ Lists!SkipWaiter \/ Lists!ServeWaiter \/ Lists!Resolved \/ Lists!ResolveRaises
  /\ UNCHANGED readVars

ResolvingRead == SkipReader \/ PassReader \/ ServeReader \/ ServeRaises

Clock == Tick /\ UNCHANGED <<blockVars, readVars>>

Ended == ~up /\ UNCHANGED vars

Next ==
  \/ \E c \in Client : Loop(c) \/ TimeOutPop(c) \/ TimeOutRead(c)
  \/ \E c \in Client, cmd \in Workload : Stateless(c, cmd)
  \/ \E c \in Client, keys \in KeyLists, t \in Timeouts : Blpop(c, keys, t)
  \/ \E c \in Client, s \in ReadLists, t \in Timeouts : Xread(c, s, t)
  \/ ResolvingList
  \/ ResolvingRead
  \/ Sweep
  \/ Clock
  \/ Ended

Spec == Init /\ [][Next]_vars

(* As in Blocking: batches end, a sweep follows every round of reads, time *)
(* passes, and a handler that has begun goes on.                           *)
Fairness ==
  /\ \A c \in Client : SF_vars(Loop(c) /\ EndOfBatch(c))
  /\ SF_vars(Sweep)
  /\ \A c \in Client : WF_vars(TimeOutPop(c)) /\ WF_vars(TimeOutRead(c))
  /\ WF_vars(ResolvingList) /\ WF_vars(ResolvingRead)
  /\ WF_vars(Clock)

FairSpec == Spec /\ Fairness

-----------------------------------------------------------------------------
(* Safety.                                                                 *)

(* A reader stands in the queue of each of its streams, so no XADD can     *)
(* pass it by (connection_state.py:352-355, 418-449).                      *)
ReadersRegistered == Reads!Registered

(* No reader waits while one of its streams holds an entry after its start *)
(* - whether it was added since, under an ID below others, or to a stream  *)
(* that was deleted in between - once the XADD has gone through its copy   *)
(* of the queue (connection_state.py:318-355, 418-433).                    *)
NoMissedEntry ==
  up => \A c \in Client :
          reading[c] # None /\ c \notin ToSet(serving) => ~NewsFor(c)

(* A client that waits for its replies gets one for each command, from a   *)
(* push, an XADD or the sweep, whichever is first                          *)
(* (connection_state.py:318-473).                                          *)
OneReplyPerCommand ==
  up => \A c \in Patient :
          owed[c] = IF blocked[c] = None /\ reading[c] = None THEN 0 ELSE 1

-----------------------------------------------------------------------------
(* Liveness.                                                               *)

(* No wait with a timeout lasts for ever, though the two sweeps share one  *)
(* loop and either kind of waiter may be served, closed or re-registered   *)
(* meanwhile (connection_state.py:451-473).                                *)
PopTimeoutFires == Lists!TimeoutFires
ReadTimeoutFires == Reads!TimeoutFires

=============================================================================
