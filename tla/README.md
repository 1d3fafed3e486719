# redislite-python: TLA+ models, model checking and proofs

redislite-python is a small Redis-compatible server: one Python process, one thread, a
`select` loop over non-blocking sockets, and a keyspace in memory. This directory holds
TLA+ models of it, TLC configurations that check them on small instances, and proofs,
checked by TLAPS, of what holds for every value of the constants. All line numbers refer to
`src/src/`.

    tlasany M.tla                                # parse a module
    tlc -workers 2 -config server.cfg MCServer   # one run; PROJECT.json lists them all
    tlapm StorageProofs.tla                      # check the proofs of a module

Contents: [inventory](#1-inventory) · [hard behaviours](#2-what-is-hard-here) ·
[modules](#3-modules) · [runs](#4-runs) · [fairness](#5-fairness) · [proofs](#6-proofs) ·
[findings](#7-where-code-and-documentation-disagree) ·
[known behaviour](#8-behaviour-a-reader-of-the-models-should-know) ·
[limits](#9-what-is-left-out) · [plan](#10-plan)

## 1. Inventory

| component | source | state it keeps | operations | what makes it correct |
|---|---|---|---|---|
| Keyspace | `storage.py` | `_data`, `_expires`, `_versions` | SET, GET, DEL, INCR, pushes, pops, LRANGE, LLEN, TYPE, KEYS; lazy purge; versions for WATCH | an expired key is never seen; a list or stream never inherits a deadline; no empty list; every change moves a version |
| Streams | `storage.py:188-295` | `entries`, `last_id` of a stream value | XADD (explicit and automatic IDs), XRANGE, XREAD | IDs strictly increase; reading page by page meets each entry once |
| Sorted sets | `commands.py:206-314` | `storage.sorted_sets`, a dict beside `_data` | ZADD, ZRANGE, ZRANK, ZCARD, ZSCORE, ZREM | ranges are exact; no empty set |
| Command table | `commands.py` | none | parsing of arguments, `dispatch` | each handler answers with bytes |
| Event loop, connections | `server.py` | `client_sockets`, `readers`, `out_buffers` | accept, read a pipeline, write, disconnect, timeout sweep | one reply per command |
| BLPOP | `connection_state.py:355-412, 435-473` | `blocked_clients`, `waiters_by_key` | block, serve waiters after a push, time out | no waiter beside an element; oldest first; queues and entries agree; every wait with a timeout ends |
| Transactions | `connection_state.py:103-160, 240-285` | `transactions`, `watched_keys` | MULTI, queueing, EXEC, DISCARD, WATCH, UNWATCH | EXEC runs over unchanged keys only, is refused only with a cause, leaves no watch behind |
| Routing | `connection_state.py:44-237`, `server.py:286-318` | none | which of the parts a command goes to, `on_write_command` | a push serves the waiters of its key |
| XREAD BLOCK | `connection_state.py:287-355, 417-473` | `blocked_xread_clients`, `waiters_by_stream` | block at an ID or at `$`, serve after XADD, time out | no entry missed |
| Publish, subscribe | `connection_state.py:66-87, 131-146, 475-531` | `subscriptions` | SUBSCRIBE, UNSUBSCRIBE, PUBLISH, subscribed mode | only who may listens |
| AUTH and ACL | `connection_state.py:55-64, 157-228`, `storage.set_password` | `authenticated`, password hash | AUTH, ACL | nothing but AUTH passes before it |
| Append-only file | `server.py:72-82, 225-255, 316-317` | the file | append after a write, replay at start | replay runs the complete records in order, and rebuilds every key they determine |
| Replication | `server.py:148-211, 318-367` | `replica_sockets`, offset, `master_conn` | handshake, propagate, apply | a replica has run a prefix of what it was sent; both count the same bytes |
| RESP reader | `resp.py` | buffer and position | feed, parse a command from pieces | no byte lost, none read twice |
| RDB loader | `rdb.py` | none (reads a file once) | opcodes, lengths, expiry times | the keyspace of the snapshot |
| Configuration, start | `config.py`, `main.py` | none after the start | parse arguments | - |

**How they interact.** `server.py` reads a chunk of a client's pipeline, parses one command
after another and offers each to `ConnectionState.dispatch`. That one handles what depends on
the connection (BLPOP, MULTI, WATCH, SUBSCRIBE, ...), with calls to `Storage` for pops and
versions and to `queue_write` for replies. What it does not handle goes to
`commands.dispatch`, is answered, and is followed by `on_write_command`, which serves blocked
clients, and by the append to the file and the propagation to replicas. After each round of
reads `check_timeouts` sweeps the blocked clients. There are no threads: the shared state is
the one `Storage` object, and what interleaves is the commands of different clients, the
clock, and connections that break while they are written to. Several paths reach the
keyspace without `on_write_command`: EXEC, BLPOP's own pops, replay of the file, and the
commands of a master.

Not one test comes with the repository; its README holds a title.

## 2. What is hard here

- *Lazy expiry.* A key past its deadline stays in the dict until some method purges it, and
  only some methods touch `_expires`.
- *Versions compared for equality.* WATCH is sound only if every change bumps and no version
  returns to an earlier value, through expiry, DEL and emptied lists.
- *A client in several queues.* A push to one key, a timeout, or a second BLPOP have to keep
  the queues of the other keys and the entry of the client in step.
- *Answers that come later.* A BLPOP is answered by another client's push or by the sweep;
  its connection may have gone, and the client may have pipelined more commands behind it.
- *Exceptions.* Nothing catches an exception that leaves a handler: the process ends for all
  clients.
- *Two dicts of waiters, one set of functions.* BLPOP and XREAD BLOCK share `_unblock` and the
  sweep; the one loop pops from its queue, the other goes through a copy.
- *Bytes in pieces.* A command, a record of the file and the handshake with a master arrive cut
  anywhere; the reader has to keep its place.
- *Crashes.* The process may die between a write, its reply and its record, and within a record.
- *A second process.* A replica misses what was written before PSYNC (the snapshot it gets is
  empty), may lose its connection, and may be written to by its own clients.
- *Boundaries.* `val[-n:]` with n = 0, negative indexes, IDs ahead of the clock, lengths of 6, 14
  and 32 bits.

`PROJECT.json` lists every hazard with its line, and the properties that would catch it.

## 3. Modules

    Keyspace <- Streams, SortedSets <- Commands
    Commands <- Storage       <- MCStorage        (Storage implements EagerStore)
             <- Connections   <- Blocking       <- MCBlocking
                              <- Transactions   <- MCTransactions
                              <- Server         <- MCServer         (Blocking + Transactions)
                              <- StreamWaiters  <- MCStreamWaiters  (Blocking, twice)
             <- WriteLog      <- Sessions (+ Connections) <- Replication <- MCReplication
                              <- Persistence (+ RdbLoader <- RespReader) <- MCPersistence

(`A <- B`: B extends A. `Server` INSTANCEs `Blocking` and `Transactions`, `StreamWaiters` has two
instances of `Blocking`.)

| module | models | state | steps |
|---|---|---|---|
| `Keyspace` | `storage.py` without streams | none: a keyspace is a value `d` in `DB` | one operator per method, which returns the keyspace after the call and the reply |
| `Streams`, `SortedSets` | XADD, XRANGE, XREAD; the Z commands | as above | as above |
| `Commands` | the table and `dispatch` | none | `Dispatch(d, t, c)`; a command is a record of its parsed arguments |
| `Storage` | one process that serves stateless commands | `db`, `now`, `up`, `reply` | `Run`, `Tick`, `Restart` |
| `EagerStore` | abstract: keys disappear at their deadline | `view`, `now`, `up`, `reply` | the same |
| `Connections` | the loop around the handlers | `db`, `now`, `up`, `conn`, `turn`, `owed` | `Accept`, `Receive`, `HangUp`, `ProtocolError`, `ReaderRaises`, `EndOfBatch`, `Tick`, `Direct` |
| `Blocking` | BLPOP | `blocked`, `order`, `waiters`, `resolving`, `expiring` | `Blpop...`, `Stateless`, `SkipWaiter`, `ServeWaiter`, `Resolved`, `ResolveRaises`, `Sweep`, `TimeOut` |
| `Transactions` | MULTI to UNWATCH | `txn`, `watched`, `running`, `pending`, `fate` | `Multi`, `Queue`, `Stateless`, `Discard`, `Watch`, `Unwatch`, `Exec...` |
| `Server` | both on the same connections, with the routing of `dispatch` | all of these | steps of the two modules, conjoined |
| `StreamWaiters` | XREAD BLOCK beside BLPOP | that of `Blocking`, and `reading`, `readOrder`, `readers`, `serving`, `lapsing` | `Xread...`, `Stateless`, `SkipReader`, `PassReader`, `ServeReader`, `ServeRaises`, `Sweep`, `TimeOutPop`, `TimeOutRead` |
| `Sessions` | the gate of `dispatch`, AUTH, publish and subscribe | `requirepass`, `authenticated`, `subscriptions` | `Auth`, `Subscribe`, `Unsubscribe`, `Publish...`, `AnswerOnly` |
| `Replication` | a master and a replica | `replicas`, `moffset` of the one; `link`, `stage`, `asked`, `rdb`, `roffset` of the other; `flight`, `stuck` between them | `Stateless`, `ExecuteOnly`, `Handshake`, `Closing`; `ReplicaStarts`, `ReplicaReads`, `ReplicaApplies`, `ReplicaServes`, `ReplicaEnds` |
| `WriteLog` | what is appended and propagated, and what that can rebuild | none | `PassedOn`, `CleanAfter` |
| `RespReader` | `resp.py`, over bytes | none | `TryParse(buf)`: what one call returns and leaves; `Encode` |
| `RdbLoader` | `rdb.py`, over bytes | none | `LoadRdb(data)` |
| `Persistence` | the lives of a server with its file | `stage`, `log`, `chunk`, `offset`, `buf`, `pending` and the keyspace | `Start`, `Feed`, `Replay`, `ReplayRaises`, `Serve`, `Execute`, `ExecuteOnly`, `AppendToAof`, `AppendFails`, `Crash` |
| `...Proofs` | theorems | - | - |

**Correspondence.** A Python dict is a total function with `None` for an absent key. Because
the keyspace is a value and its methods are operators, a direct command, a command EXEC
runs, the pop of BLPOP, replay and a replica use the same definition. A command is one step, since one thread
runs it. Some handlers are taken apart into steps, with no other handler allowed between
them: the loop of `_resolve_waiters` (one waiter per step, while `resolving` names the key),
that of `_resolve_xread_waiters` (while `serving` holds the rest of the copied queue), and EXEC (one queued command per step, while `running` names the client), because each of
their turns reads the clock, writes to a different client, or may end the process. The sweep
reads clock and dict once, in `Sweep`, and then times out the clients of `expiring`.

`Blocking` is written once and instantiated twice in `StreamWaiters`, as `Lists` and `Reads`:
`_unblock` and the sweep are one piece of code for both dicts, and so they are in the model.

In `Persistence` commands are bytes: `Encode` writes a record, `TryParse` reads what chunks have
left in `buf`. A run of the server is a *life*, from `Start` to `Crash` (or an exception); the
write that has been executed and answered but not appended is `pending`. `clean` is the set of
keys whose value the records determine: an EXEC'd write or a pop of BLPOP, a TTL and an
automatic ID take a key out, a logged SET or DEL puts it back. `Replication` uses the same set for
what a replica was sent since PSYNC: the master's `ExecuteOnly` is a command of EXEC's queue, a pop of
BLPOP, or the pop for a waiter that a push serves (`connection_state.py:265, 382, 406`), which change the
master and are never sent; it takes the keys it changes out of `clean`. In both modules EXEC's queue is
taken one command at a time, and the commands of other clients may come between; that
adds behaviours and leaves none out.

Loops over several keys in one handler (WATCH, EXEC's comparison, BLPOP's first look, XREAD BLOCK's) read the
clock once per key in the code and once in the model. No outcome is lost. EXEC: a key
that shows its recorded version at one reading showed it at every earlier one and was not purged by the look, so an EXEC that
runs its queue is one that compared at its first reading, with the clock moving on before the queue; and one that refuses is one
that looked at its last reading, at the key that had moved and no other, which `Checked` allows. BLPOP and XREAD: a key that is missing or expired at one reading is so at all
later ones while no other command runs, so a client that blocks would block at the last reading, and
one that is answered is answered at the reading of the key that had something. WATCH: reading keys
one after another is what several WATCHes with ticks between them do, so the lists of keys a WATCH
may name are closed under their parts (`WatchedAreKeys`).

In `Replication` the replica is a second process, and to the master a client like any other;
`flight` is the stream of bytes to it, one element per message, the last `stuck` of which `send`
has not taken yet. When the connection closes, what is stuck is dropped and the rest may still
be read.

`turn` is the client whose pipeline is being executed: any number of its commands run before
another client's. `owed`, `fate`, `admitted`, `replayed`, `records`, `clean`,
`spoiled`, `base`, `shipped`, `applied` and `stray` are history variables. Guards read them
only to bound the model. `owed` counts commands less replies per client, `fate` what has happened to a
key since it was watched, `admitted` who had a command dispatched. A write may fail at any time and close its connection; everything a closed client
has in `connection_state.py` stays, as `_disconnect_client` leaves it.

Operators marked *Variant* are plausible mistakes in the definition they stand before. No
specification uses them: they are the mutants `PROJECT.json` lists, and each makes TLC
find the named property violated.

## 4. Runs

Passing runs; all other properties listed in a cfg are invariants or action properties.

| run | question | size |
|---|---|---|
| `storage_values` | every command on one key that holds each type in turn, beside a sorted set of three members; stream IDs with negative sequence numbers | 206 000 states |
| `storage_expiry` | strings with deadlines, lists and streams on two keys, and a moving clock; the refinement of `EagerStore` | 19 000 |
| `blocking_pipelined` | two clients that wait for BLPOP's reply and one that goes on sending while it is blocked; two keys, a BLPOP on both, timeouts 0, 1 and malformed | 2 290 000 |
| `blocking_timeouts` | BLPOP and XREAD BLOCK, of two streams and with `$`, by two clients; liveness under `FairSpec` | 439 000 |
| `transactions` | two clients, a string that expires and a list that is pushed and popped, watches of either key or both | 1 810 000 |
| `server` | BLPOP and transactions on the same key; commands that raise, also in EXEC's queue | 2 560 000 |
| `persistence` | a snapshot of five, two records, chunks of 11 bytes, appends cut at six places, crashes anywhere | 1 250 000 |
| `peers` | a master, one other client, a replica that connects twice; passwords, subscriptions; strings with and without TTL and pushes, sent or, by EXEC, not | 1 570 000 |

What the properties say:

- `storage_values`: `NoEmptyList`, `NoEmptyZSet` (a key exists iff it holds data);
  `ListRangesAreExact`, `ZSetRangesAreExact` (LRANGE and ZRANGE against a definition by
  positions, for all indexes from two below the range to two above); `PopsSplitTheList` (what
  a counted pop returns and leaves is what it found); `StreamsInOrder`; `PagesJoin`.
- `storage_expiry`: `OnlyStringsExpire`, `DeadlineIsKept` (only SET and DEL touch the deadline
  of a live key), `VersionMovesWithData`, and `RemovesLazily`: `Storage` implements
  `EagerStore` under the mapping that removes dead keys, so that no reply tells whether an
  expired key is still in the dict - with KEYS as the one exception.
- `blocking_pipelined`: `Registered` and `NoMissedPush` hold for every client, also one that
  re-issues BLPOP while it is blocked. `QueuesAgree` (each queue is the blocked clients of that
  key, in the order in which they blocked) and `OneReplyPerCommand` do not: stale places stay
  in queues, and one of two pending BLPOPs is never answered. They are stated for the patient
  clients, whom the other one must not disturb. `OldestFirst`: a served element goes to the
  patient client that has waited longest.
- `blocking_timeouts`: `ReadersRegistered`; `NoMissedEntry` (nobody waits while `x_read` of one of its
  streams would return something, though streams are deleted, overwritten, and begun again under
  lower IDs); `OneReplyPerCommand` over both kinds of waiting; `PopTimeoutFires` and
  `ReadTimeoutFires`, for open and closed connections alike.
- `transactions`: `WatchGuards`, `AbortsHaveCause`, `WatchEndsWithTransaction`,
  `OneReplyPerCommand`, `WatchedNotAhead`.
- `server`: `WatchGuards` with BLPOP's pops and served waiters around, and `PushServesAll`: when
  a push has been resolved nobody waits beside an element, including one an EXEC left there
  earlier.
- `persistence`: `ReplaysTheLog` (what `_load_aof` runs is a prefix of the records and, at the end
  of the file, all of them, whatever the chunks and even if the file ends in part of a record);
  `ReplayRebuilds` (after each record replayed, every clean key has the value it had when the
  record was written); `SnapshotIsLoaded` (files written by the format without auxiliary fields, with
  every length and integer encoding, against the data they were written from; a string with an expiry
  time may be there or gone; that it is there past its time is in section 7).
- `peers`: `GateHolds`; `ReplicaFollows` (the clean keys have at the replica the value they had at
  the master after the last command applied, unless its own clients wrote to them; a key that EXEC
  or BLPOP has changed is not clean until the next SET or DEL that is sent: `SET k 1`, an `INCR k` by EXEC
  and an `INCR k` leave 3 at the master and 2 at the replica, and `k` out of `clean`);
  `OffsetsAgree` (the replica's offset and the bytes on their way are the master's offset since
  PSYNC). `replica.cfg` checks `ReplicaFollows` with pops besides, sent by LPOP and unsent by BLPOP, and without
  channels (4 080 000 states, two minutes); it is not among the runs as the theorem covers it.

**Bounds, and why they suffice.** `MaxVersion` stops writes to a key after two or three
changes: enough for write, expiry, write again, which is where a stale deadline, a repeated
version or an emptied list shows; the versions a purge adds go past it. `MaxTime` gives a
deadline, an instant before it and one after it. `MaxQueue` lets a client stand twice in a
queue. `MaxDrift` allows a client to be one reply ahead or behind: properties that a second
one would break are already broken by the first. `MaxQueued` is one queued command, as EXEC's
commands do not interact but through the keyspace; a second EXEC by the other client supplies
the second command. Two keys are needed for a client in several queues and for a watch of
several keys; three clients for an order among waiters that a third one's push decides.
`MaxRecords` is two: one record that the next may continue, spoil or settle, over any number of
lives. `Cuts` cut a record in its header, in a length, in a line end, between two
bulk strings and within one; chunks of 11 bytes cut records of 18 to 35 bytes at changing
places. One append is torn, and nothing more is run when a record has been appended behind it.
`MaxShipped` is two, for the same reason as two records. The replica's two connections are
its two lives; the master has one other client, which may subscribe or publish but not both at a time: of publish
and subscribe the run checks the gate, and no delivery.
Every bound is a guard with a name, on the input side only: no bound keeps a step from
removing, timing out, answering, appending, replaying or crashing. Symmetry is used over clients, in runs without liveness.

**Deadlock** is checked in all runs: the stuttering step `Ended` is the process after an
exception, and `EmptyRound` and `Idles` the `select` that times out.

## 5. Fairness

Only `blocking_timeouts` uses fairness, in `StreamWaiters!FairSpec`.

- `SF(EndOfBatch)` per client: `recv` returns at most 4096 bytes, so every batch ends.
- `SF(Sweep)`: `check_timeouts` is called at the end of every round of the loop, and a round
  ends because it reads from each ready client once; `select` returns within a second. Weak
  fairness would not do, since `Sweep` is disabled while a batch runs.
- `WF(TimeOutPop)`, `WF(TimeOutRead)`, `WF(ResolvingList)`, `WF(ResolvingRead)`: a loop inside a
  handler goes on, be it to an exception.
- `WF(Clock)`: time passes.

No client is assumed to send, to read or to stay connected.

## 6. Proofs

All theorems hold for every set of keys, strings, members, clients and commands and for every
bound. They rest on named assumptions about the constants, which TLC evaluates in the runs:
`SentinelsAreApart`, `NoneIsNoClient`, `NoneIsNoInfo`, `NoneIsNoTransaction` and
`NoneIsNoWaiter` (None is a value of its own), `ServerInputs` (the same for the composed server, and that a
BLPOP names a sequence of keys),
`MembersAreOrdered` (members are integers, in their order), `WorkloadIsCommands`,
`WatchedAreKeys` (a WATCH names keys, and its parts may be named by another WATCH), `BlockingInputs` (BLPOP names at least one key and none twice), `ReadInputs` (XREAD
names no stream twice; `$` is not an ID; the patient are clients), `LinksAreClients`,
`ChannelsAreFinite` (PUBLISH writes to finitely many), `SizesAreNatural` (the length of a command),
`LogInputs` (a command is sent in words of bytes, at least one, and those words are taken for that
command again, which is what the parsers of `commands.py` are for) and `SnapshotInputs` (a pair of a
snapshot is loaded by a SET without TTL, as `load_rdb` does it). Two theorems,
marked in the table, assume `NoNegativeTimeout` besides: with one the reply count is wrong, which run
`blocking_negative` shows.

| module | theorem | says |
|---|---|---|
| `StorageProofs` | `TypeCorrect` | the keyspace has its type |
| | `DeadlinesStayOnStrings` | no list or stream has a deadline |
| | `ListsHaveElements`, `ZSetsHaveMembers` | nothing empty is kept |
| | `StreamsStayInOrder` | IDs strictly increase, whatever XADD is given |
| | `PopsSplit` | a counted pop takes the right elements, in order, and leaves the others |
| | `ListRangesExact`, `ZSetRangesExact` | LRANGE and ZRANGE return what lies between their indexes, for any length |
| | `PagesAreJoined` | reading on from the last ID of a page gives the rest of the stream, for any COUNT and length, where the reads return |
| | `VersionsMove` | every command that changes a key moves its version, LPOP and RPOP without a count excepted |
| | `DeadlinesAreKept` | only SET and DEL change the deadline of a live key |
| | `LazyImplementsEager` | `Storage` implements `EagerStore`: lazy removal is not observable |
| `BlockingProofs` | `TypeCorrect` | entries and queues have their types |
| | `WaitersAreRegistered` | a blocked client stands in each of its queues |
| | `NoPushIsMissed` | no client waits for a key that holds a list, unless that key is being resolved |
| | `OldestIsServed` | an element goes to the patient client that has waited longest for its key |
| | `QueuesAgreeWithDict` | the patient clients in a queue are those of the dict that wait for the key, in the dict's order |
| | `CommandsAreAnsweredOnce` | a patient client is owed one reply while it is blocked, else none (`NoNegativeTimeout`) |
| `TransactionsProofs` | `TypeCorrect` | queues, watches and a running EXEC have their types |
| | `WatchesStayBehind` | no version falls below one that was recorded |
| | `ExecIsGuarded` | EXEC begins only if no watched key was changed, LPOP and RPOP without a count excepted |
| | `RefusalsHaveCause` | EXEC refuses only if a write named a watched key, or the key expired |
| | `WatchesEnd` | the end of a transaction ends the watches of its client |
| | `CommandsAreAnsweredOnce` | every command is answered once, EXEC once for its whole queue |
| `ServerProofs` | `TypeCorrect` | the state of both modules keeps its types when they share one loop |
| | `ExecIsGuarded` | EXEC begins only if no watched key was changed, with BLPOP around; BLPOP's pops are excepted as well |
| | `ResolvedPushServesAll` | a resolved push leaves nobody waiting beside an element |
| `StreamWaitersProofs` | `TypeCorrect` | both dicts, their queues, a resolution and a sweep keep their types |
| | `ReadersAreRegistered` | a client blocked in XREAD stands in the queue of each of its streams |
| | `NoEntryIsMissed` | no reader waits beside an entry after its start, but one the running XADD has still to come to |
| | `CommandsAreAnsweredOnce` | the same as for BLPOP, for both kinds of waiters (`NoNegativeTimeout`) |
| `ReplicationProofs` | `PasswordIsNeeded` | with a password set, a connection without it was never admitted, subscribed or made a replica |
| | `TypeCorrect` | master, connection and replica have their types; the replica has run no more than was sent |
| | `ReplicaKeepsUp` | the replica has run the first of the commands sent since PSYNC and holds the values they rebuild, with EXEC and BLPOP changing other keys, or those until they are settled again, at the master |
| | `OffsetsKeepPace` | the offsets of both sides differ by the bytes on the way |
| `PersistenceProofs` | `RecordRead` | the reader asks for more of every beginning of a record, and gives the words of a whole one and leaves the rest |
| | `TypeCorrect` | data, file, buffer and commands have their types, while not `spoiled` |
| | `ReplaysEveryRecord` | a start runs the complete records, each once and in order, and all of them before it serves |
| | `ReplayRebuildsTheData` | each record replayed gives every clean key the value it had when the record was written |
| | `SnapshotRead` | the loader reads a snapshot written by the format without auxiliary fields in full, each pair once and in order |
| | `SnapshotsAreLoaded` | so a start loads the strings its snapshot holds, those without expiry time with no deadline, or fails if it cannot be read |

**Argument.**

`KeyspaceProofs` shows for each method that it preserves `WellFormed(d)`: types, deadlines on
strings only, no empty list or sorted set, streams in order, sorted sets finite (`ZSetsFinite`: without it
ZRANGE would have no last rank). These are inductive only
together. Pushes and XADD ignore `_expires`; that they store no list or stream under a
deadline follows because the key was missing after a purge, and a missing key has no
deadline; that in turn is `DeadlinesOnStrings`, which the purge and DEL must restore by
clearing both dicts. `DispatchKeeps` puts the methods together. The second half of the module shows that a command touches at most one key, and leaves it as it is or moves
its version forward (`Tracks`), a plain pop excepted (`PopsQuietly`). From that: versions never
fall, and what a reader sees of a key cannot change without its version, by a command, the
clock or a purge (`FollowsShows`, `TickShows`, `PurgeKeysShows`). That a list has no deadline
is needed here again: the one key whose version a pop leaves behind must not also expire
unnoticed.

The module also holds what the others need of folds, and of queues to which clients are appended and from which
one is removed. Where a statement is about sequences of any
length, it is proved for the set of the sequences that have it, whose complement would have a
least member (`Induction`, `SeqInduction`, from the well-foundedness of `<`). That gives `Only`, the
filter of a sequence, its type and its value on an appended element (`OnlyOfAppend`), from a
function that agrees with the fold on every prefix; and the ranks of a finite set of scored members.

`StorageProofs` uses `WellFormed(db)` as invariant. For the refinement, two keyspaces *look alike* at
a time (`LooksLike`) if they show the same of every key, where a dead key shows nothing; `db` and
`Alive(db, now)` do. A method that reads a key first purges it, after which both hold the same
there (`Twins`), so it answers both alike and leaves keyspaces that look alike again
(`TwinsAnswerAlike`, `CommandsLook`). What is dead stays dead, which covers `Tick` (`LaterLook`).
KEYS does not purge; `EagerStore` lets it name dead keys besides the live ones. The operators of the
instance `Eager` are shown to be the module's own (`SameDispatch`). A range by positions is shown
to be the slice the code takes after it has moved negative indexes (`SliceIsInterval`), for lists and
ranks alike. In a stream in order, the entries after an ID are a suffix (`LaterIsSuffix`), so a page
is a piece of it and the rest the suffix behind the page (`PageThenRest`).

`TransactionsProofs` needs a strengthening. `WatchGuards` speaks of a key that was changed at
some time; EXEC sees one number. `Noticed` says that a key marked as changed since a client
watched it already shows a version greater than the recorded one - where *shows* counts the
bump that purging it now would bring (`GetVersion`), because an expired key is changed before
anything has been written. With versions that never fall it is inductive, and `ExecBegins`
requires equal versions. The converse is `Unmoved`: while nothing has been seen of a watched key,
it shows the very version that was recorded, since a command leaves the version of every key alone
that it does not name (`OthersAreUnseen`); so a refusal has a cause.

`BlockingProofs` has `Registered` and `WaitsForNoList` as invariant. When a client blocks, no key
of its list holds anything; a list appears only through RPUSH or LPUSH (`OnlyPushesMakeLists`,
from a lemma per command), and such a step sets `resolving`. `Resolved` may end the resolution
only if the queue is empty or no element is left (`NothingLeft`): in the first case, by
`Registered`, nobody waits for the key. `Registered` survives `ServeWaiter` and `TimeOut` because a
client loses only its own places in queues and its entry together.

`OldestIsServed` needs two more, `Orderly`: a patient client stands at most once in a queue and once
in the dict, and of two that wait for the same key the one that comes first in the queue comes first
in the dict. Registration appends to both, service and timeout remove from both, and removing the
first occurrence keeps the order of the others (`RemoveFirstKeepsOrder`). With `Registered`, the head
of a queue is then the oldest of its waiters, and queue and dict, filtered alike, are the same
sequence, since each lists the same clients once and in the same order (`OrderDecides`). `OneReplyPerCommand` needs that a handler that has begun is alone
(`OneAtATime`) and that a sweep tells only clients that still wait.

`ServerProofs` is about `Server`, which has Blocking and Transactions as instances, each with its own
copy of the keyspace's operators. The copies are shown to be those of `KeyspaceProofs` first
(`TxnsMethods`, `BlocksDispatch`, `SameHistory` and their neighbours). The invariant takes from each module what
survives the other. From Transactions, `WatchedNotAhead` and `Noticed`: a pop of BLPOP changes a list
under its version, and they hold all the same because the history does not count that as a change
(section 8), and because such a list has no deadline (`FollowsShows` again). From Blocking, only `Registered`: `WaitsForNoList` is
false here, since an EXEC may leave a list that somebody waits for, which is what `server_exec` finds. `PushServesAll`
needs no more: a resolution ends when no one is in the queue, or when a pop found nothing.

`StreamWaitersProofs` has `ReadersRegistered`, the types of readers (`ReadingOK`) and `NoMissedEntry`
as invariant. A reader begins to wait when `x_read` finds nothing at the start just resolved;
the entries of a stream change for a reader only by XADD - every other command keeps a
stream, removes it or stores another type (`OnlyXAddWritesStreams`) - and an XADD copies the queue of
its key into `serving`, which by `ReadersRegistered` holds every reader of that stream. A reader
leaves `serving` unserved (`PassReader`) only when there is no news for it. The two instances of
`Blocking` and the module's own definitions are shown to agree first (`SameOperators`,
`SameStorage`), so that the lemmas of `KeyspaceProofs` about queues apply to both.

`ReplicationProofs`: `GateHolds` is inductive together with types of the session variables. Each
way to be admitted - a command dispatched, a subscription, PSYNC - has `Passes` as a guard, the
set `authenticated` only grows, and `requirepass` never changes.

For the other three the invariant is about both processes and what is between them.
`LogHolds` says of each command sent since PSYNC, and each key clean after it, what replaying makes
of the key: either the command settles it (a SET without TTL, a DEL), or the key was clean before and
running the command *on any keyspace that holds its previous value* gives the recorded one
(`Rebuilds`). It is a fact about the log alone, so no later step can disturb it, and it is
established where a command is sent (`CleanIsRebuilt`, from `SameOutcome`: a command that reads no
other key and no clock leaves the same value of its key in all keyspaces that agree there).
`MasterHolds` connects it with the master, whose clean keys hold the last recorded values, since
what EXEC or BLPOP changes without sending it leaves `clean` (`ExecuteOnlyKeeps`);
`LinkHolds` says that the messages on the way are the log from the first command not yet run, behind
what is left of the handshake, of which there is never more than one line before PSYNC is answered;
then `ReplicaHolds`, that the replica holds the values recorded of the last command it has run, is
kept by running the next one. `ReplicaFollows` and, with the sum of the sizes on the way,
`OffsetsAgree` follow. `LoopHolds` are the types of the loop.

`PersistenceProofs` begins with bytes. `ValueOf` reads what `Digits` wrote (`DecimalReads`); the digits
are a recursive function, shown to be defined for every number from functions on `0..n` that agree
(`DigitsExist`, `DigitsUnique`). A record is laid out word by word (`Layout`), and a buffer `b` and a
record `r` *agree* if one is the beginning of the other. On a buffer that agrees with a record, a line is read as its number
or is not ended yet (`LineRead`): the digits hold no 13, so no line ends early, while the bytes of a word,
which may hold line ends, are skipped by their length. The fold of the reader
over the words then gives the words so far, or More from the first one that is cut (`ScanStep`, by
`Induction` over their number), which is `RecordRead`.

The invariant has five parts besides types. `FileHolds`: the file is the records, one behind the other
(`Whole`), and at most the beginning of one more. `ReadHolds`: the reader has run the first records, and
its buffer is the file from where the next one begins up to `offset`; so what it finds is that record or
nothing (`NextRecord`), wherever the chunks were cut, and if nothing is found at the end of the file
none is left. `LogHolds` is the fact about the records that `ReplicationProofs` has about what was sent, with
the snapshot before the first: each record settles a clean key, or makes of any keyspace that holds what was rebuilt
before what was recorded (`Rebuilds`). `Rebuilds` is stated at every time, as a start has another clock, and says that
a command that touches a clean key does not raise, so it cannot end the start. For the same reason what a snapshot loads
must not depend on the clock (`LoadedIsFresh`). `ServeHolds` says that the data served, or those
behind a `pending` write once it is appended, are what the records rebuild, and `StartHolds` that a start has rebuilt
what the records run so far rebuild. A crash forgets `db`, `buf` and `pending`, and keeps what
`FileHolds` and `LogHolds` speak of; `Start` re-establishes the other parts from nothing read.
All of it is said of states that are not `spoiled`, as are the two properties: behind a torn record the file is no longer
the records, and what a garbled command is taken for is not known.

The last part of the module is the loader. `SnapshotIsLoaded` compares it with what the snapshots of an
instance are said to hold, so the theorem has to say for which files that is right. `Written(file, items)` is the
format without auxiliary fields: REDIS and a version, sections, and the end with whatever is behind it; a section is the
number of a database, the sizes of its tables, or a pair, with either kind of expiry time or none,
every length in 6, 14 or 32 bits and every string as it is or as an integer of 8, 16 or 32 bits. `SnapshotRead` says
that the loader gives `items` for such a file, whatever its size. Its loop is a recursive function on the positions of the file.
Reading goes forward or ends, whatever the bytes are, so a function that takes every turn of the loop (`Looped`)
is found from the end of the file back; each section passes its turns on to what is
behind it, with its pair in front, and `Induction` over the sections that are left gives the file. `OnePairWritten` shows that there are
such files, one for any short key and value; those `MCPersistence` gives the run that say what they hold have the same form.
Auxiliary fields are left out of it, though the format has them and Redis writes them, because the loader cannot read
them, which is a finding (section 7, run `snapshot_redis`): the theorem says nothing for files that have them. Its items do not keep expiry
times, since the loader drops them (section 7, `snapshot_expiry`), so of a string with one it says no more than that it is there or gone.

`Described(s)` says of a snapshot that the loader cannot read it and it is said to hold nothing, or that there is no file and no
data, or that the file is written so and the data are what its pairs set, the last pair of a key winning.
It is the hypothesis of `SnapshotsAreLoaded`. The invariant is `Begun`: until a start has read from the
append-only file the data are those loaded, at whatever time, and only a snapshot that cannot be read has made it fail. That
no command runs from an empty buffer is part of it. `Begun` says nothing of the records, so it holds of `spoiled` states too.

**Only model-checked:** liveness, which is beyond the proof system. Not stated for all states either: the types of `spoiled`
states of `Persistence`. A garbled record may have a length below -1, which `RespReader` leaves out (section 9), so what the
reader makes of arbitrary bytes has no type; run `persistence` checks them for the records it spoils. Every invariant
that a run checks is stated by a theorem, that one with this restriction.

## 7. Where code and documentation disagree

Four runs are expected to end in a counterexample.

| run | the documentation says | the code does |
|---|---|---|
| `storage_xadd` | each handler returns bytes (`commands.py:3-4`) | the handler for a refused ID names `storage.StreamIDError`, which the `Storage` object does not have (`commands.py:155`): AttributeError, and the process ends |
| `blocking_negative` | a BLPOP that blocks gets no reply until later (`connection_state.py:363-365`) | a negative timeout is answered with an error, and the client blocks nevertheless (`:378`) |
| `server_exec` | BLPOP blocks until new data is added (`connection_state.py:362`) | EXEC runs its queue without `on_write_command` (`:265`): a client stays blocked beside an element |
| `snapshot_redis` | the module parses Redis RDB files, by the format it refers to (`rdb.py:3-4`) | `OP_AUX` (`:14`) is never compared with: a file that begins with an auxiliary field, as those of Redis do - and the snapshot this server sends to its replicas - ends the start (`:78`) |

Four more configurations show disagreements with the same or similar sentences. They end in a
counterexample too, and are run by hand (`tlc -config storage_zscore.cfg MCStorage`, and so on).

| configuration | module | the documentation says | the code does |
|---|---|---|---|
| `storage_zscore` | `MCStorage` | each handler returns bytes; and this one tests `data is None` (`commands.py:295`) | `storage.sorted_sets[key]` raises KeyError before that test (`:293`), and `data[key][member]` raises for a member that exists (`:297`) |
| `storage_streamid` | `MCStorage` | each handler returns bytes | XADD stores an ID like `1--1`, which `int` accepts (`storage.py:210`), and `parse_stream_id` raises at it in the next XRANGE or XREAD (`:226`) |
| `blocking_refused` | `MCBlocking` | `on_write_command` is called after every *successfully* dispatched write (`connection_state.py:232-233`) | it is called after refused ones too (`server.py:312`); where a client waits for the key, `lpop` is then called on a string, whose TypeError nothing catches (`ResolveRaises`; the counterexample ends with the call) |
| `snapshot_expiry` | `MCPersistence` | the module parses Redis RDB files, by a format in which strings have expiry times | an expiry time is decoded (`rdb.py:55-70`) and not passed on (`:82`): the string has no deadline and is served after its time |

## 8. Behaviour a reader of the models should know

The models do what the code does also where no documentation speaks of it:

- A plain LPOP or RPOP, and every pop of BLPOP, changes a list without a new version: WATCH
  does not notice. `LPOP k 0` makes a new version and changes nothing, so it aborts a
  transaction; `RPOP k 0` does not.
- A refused XADD leaves an empty stream in the dict. ZCARD of a key without a sorted set raises, as ZSCORE does.
- A stream with a negative sequence number in an ID cannot be read past it, but can be added to; a
  count that is reached before it keeps the read from raising. An XADD that serves a blocked reader
  of such a stream ends the process.
- KEYS lists expired keys that nothing has purged.
- Sorted sets live in a dict of their own: DEL, TYPE, KEYS, expiry and WATCH do not know them.
- BLPOP, XREAD and UNWATCH inside MULTI take effect at once, and XREAD can never be queued
  (`connection_state.py:93-98`). A command that is not in the table makes
  the transaction dirty; INFO, CONFIG, AUTH and ACL are such commands.
- WATCH of a key that is already watched replaces the recorded version.
- A closed client keeps its places: a push pops an element for it, and the element is lost.
- A client that sends BLPOP while it is blocked overwrites its entry, keeps its older places in
  the queues, and gets one reply less than it sent commands. Commands pipelined behind a BLPOP
  are answered before it.
- A timeout that `float` refuses is answered, and then read before it was assigned: the
  process ends.
- EXEC takes transaction and watches away before it decides; it purges the watched keys up to the
  first whose version has moved. An exception in a queued command ends the process with the
  commands before it in effect.

- XREAD BLOCK: an exception of `last_stream_id` for `$` on a key of another type, and a start that
  is no ID, end the process; so does an XADD that serves a reader one of whose streams has
  been overwritten with another type.
- Append-only file: a write is answered before it is appended. EXEC's writes, BLPOP's pops and
  the commands of a master are not appended. Replay counts a TTL, and an automatic ID, from the
  clock of the start, so an expired key comes back. A torn record stays in the file; what is
  appended behind it is taken for a part of it, and a later start runs a garbled command or fails
  (`spoiled`). RESPParseError is not caught there.
- The reader raises ValueError, which is not a RESPParseError, for a count or length that is no
  number; the process ends (`ReaderRaises`).
- Replication: a replica throws the snapshot away and begins empty. It takes any line for the
  answer it waits for, so with a master that wants a password it waits for ever after PSYNC was
  refused. It ends when the master closes the connection (`server.py:108-110`). Its own clients may write to it. Closed
  connections stay in `replica_sockets`, and the offset grows for them.
- Output that `send` took only in part waits for the next write to the same client, since
  `ready_write` is not used.
- PUBLISH replies once for each entry of `subscriptions`, so not at all while there is none;
  entries of closed connections stay. A PUBLISH without a message is refused and carried out
  all the same, and without a channel it raises. SUBSCRIBE without a channel calls a method that
  does not exist.

## 9. What is left out

Abstractions inside the modelled parts: the fields of stream entries; several streams in one
XREAD without BLOCK, and COUNT in one with it; strings are compared by value, with integer-like
strings as integers; NaN scores and NaN or infinite timeouts; duplicate keys in one BLPOP or
XREAD; the order in which EXEC looks at its watched keys (any order is allowed); one reading of the clock for the keys of one handler (section 3); partial sends
to clients other than a replica; the arguments whose parsing raises are the command `BADVALUE`; the
clock does not run backwards, and master and replica share it; a socket object is one client
and is not used again after it was closed; lengths on the wire below -1 and the odd spellings `int`
accepts; UTF-8 (bytes that are not text are replaced); the loss of what the operating system has not written to disk; a
snapshot is not changed while the server lives; no replica has replicas; nothing sends GETACK.

The modules for BLPOP and transactions assume that no password is set and nobody subscribes: the
gate of `Sessions` stands before them in `dispatch` and only removes commands. They and
`StreamWaiters` have no file and no replica, which they never read.

**Not modelled.** Argument parsing and process start, which keep no state; hashing of passwords,
sockets and the file system themselves; the encoders of replies, `INFO`, `CONFIG` and the logging,
which are formatting.

## 10. Plan

Done: `Keyspace`, `Streams`, `SortedSets`, `Commands`, `Storage` with `EagerStore` as its abstract
specification; `Connections`, `Blocking`, `Transactions` and `Server`, which composes them;
`StreamWaiters`; `Sessions` and `Replication`; `RespReader`, `RdbLoader` and `Persistence`.

Left, in order of importance:

1. XREAD BLOCK inside `Server`, so that MULTI, BLPOP and XREAD meet on one connection.
2. Partial sends for every client, and two clients beside the replica, so that a published
   message is received.
