------------------------------- MODULE Blocking -------------------------------
(***************************************************************************)
(* BLPOP: clients that wait for an element of a list, the pushes that      *)
(* serve them and the sweep that times them out (connection_state.py).     *)
(*                                                                         *)
(* The loop of _resolve_waiters is taken one turn at a time: while a push  *)
(* to key is being resolved, resolving = key and no other handler runs.    *)
(***************************************************************************)
EXTENDS Connections

CONSTANTS KeyLists,  \* the key lists of BLPOP commands, each without duplicates
          Timeouts,  \* their timeouts, in ticks; None is text float() refuses
          Patient,   \* clients that send nothing while they wait for a reply
          MaxQueue   \* bound: length of a queue of waiters

ASSUME BlockingInputs ==
  /\ KeyLists \subseteq Seq(Key)
  /\ \A keys \in KeyLists : keys # <<>> /\ IsInjective(keys)
  /\ Timeouts \subseteq Int \cup {None}
  /\ Patient \subseteq Client

VARIABLES blocked,    \* blocked_clients: client -> keys and deadline, or None
          order,      \* the insertion order of the dict blocked_clients
          waiters,    \* waiters_by_key: key -> queue of clients
          resolving,  \* the key whose push is being resolved, or None
          expiring    \* the clients a sweep has still to time out

blockVars == <<blocked, order, waiters, resolving, expiring>>
vars == <<loopVars, blockVars>>

BlockInfo == [keys : KeyLists, deadline : Int \cup {None}]
ASSUME NoneIsNoInfo == None \notin BlockInfo

TypeOK ==
  /\ LoopTypeOK
  /\ blocked \in [Client -> BlockInfo \cup {None}]
  /\ order \in Seq(Client)
  /\ waiters \in [Key -> Seq(Client)]
  /\ resolving \in Key \cup {None}
  /\ expiring \subseteq Client

Init ==
  /\ LoopInit
  /\ blocked = [c \in Client |-> None]
  /\ order = <<>>
  /\ waiters = [k \in Key |-> <<>>]
  /\ resolving = None
  /\ expiring = {}

(* No handler is at work.                                                  *)
Idle == resolving = None /\ expiring = {}

KeysOf(c) == IF blocked[c] = None THEN {} ELSE ToSet(blocked[c].keys)

-----------------------------------------------------------------------------
(* BLPOP.                                                                  *)

(* Variant: the client is only registered under the first key.             *)
BlockFirstKey(c, keys, deadline) ==
  /\ \A k \in ToSet(keys) : Len(waiters[k]) < MaxQueue
  /\ blocked' = [blocked EXCEPT ![c] = [keys |-> keys, deadline |-> deadline]]
  /\ order' = IF c \in ToSet(order) THEN order ELSE Append(order, c)
  /\ waiters' = [waiters EXCEPT ![keys[1]] = Append(@, c)]

(* Variant: the client joins each queue at its head.                       *)
BlockInFront(c, keys, deadline) ==
  /\ \A k \in ToSet(keys) : Len(waiters[k]) < MaxQueue
  /\ blocked' = [blocked EXCEPT ![c] = [keys |-> keys, deadline |-> deadline]]
  /\ order' = IF c \in ToSet(order) THEN order ELSE Append(order, c)
  /\ waiters' = [k \in Key |-> IF k \in ToSet(keys) THEN <<c>> \o waiters[k]
                                                   ELSE waiters[k]]

(* A client that blocks again overwrites its entry and keeps its place in  *)
(* the dict; its older places in the queues stay where they are.           *)
Block(c, keys, deadline) ==
  /\ \A k \in ToSet(keys) : Len(waiters[k]) < MaxQueue
  /\ blocked' = [blocked EXCEPT ![c] = [keys |-> keys, deadline |-> deadline]]
  /\ order' = IF c \in ToSet(order) THEN order ELSE Append(order, c)
  /\ waiters' = [k \in Key |-> IF k \in ToSet(keys) THEN Append(waiters[k], c)
                                                   ELSE waiters[k]]

(* The index of the first key that ends BLPOP's loop: the key holds an     *)
(* element to pop, or a value of the wrong type.                           *)
Stops(i, keys) == Lookup(db, now, keys[i]) # None
FirstStop(keys) ==
  CHOOSE i \in DOMAIN keys :
    Stops(i, keys) /\ \A j \in DOMAIN keys : Stops(j, keys) => i <= j

(* A negative timeout is answered with an error, and then handled like any *)
(* other; a timeout that float() refuses is answered with an error, and    *)
(* then read before it was assigned.                                       *)
Complaints(timeout) == IF timeout < 0 THEN 1 ELSE 0

MaySend(c) ==
  /\ Sends(c)
  /\ Idle
  /\ c \in Patient => blocked[c] = None

BlpopNotFloat(c, keys) ==
  /\ MaySend(c)
  /\ up' = FALSE
  /\ Answer(c, 1)
  /\ UNCHANGED <<db, now, turn, blockVars>>

(* Some key stops the loop: the client is answered with its first element, *)
(* or with an error when it is not a list.                                 *)
BlpopAnswered(c, keys, timeout) ==
  /\ MaySend(c)
  /\ \E i \in DOMAIN keys : Stops(i, keys)
  /\ LET i == FirstStop(keys)
         purged == PurgeKeys(db, now, {keys[j] : j \in 1..i})
     IN  db' = LPop(purged, now, keys[i], None).db
  /\ Answer(c, Complaints(timeout) + 1)
  /\ UNCHANGED <<now, up, turn, blockVars>>

(* Every key is missing: the client waits.  The code reads the clock for   *)
(* each key and for the deadline, and the last reading stands for all: a   *)
(* key that was missing or expired at an earlier one still is, and a live  *)
(* one ended the loop.                                                     *)
BlpopWaits(c, keys, timeout) ==
  /\ MaySend(c)
  /\ \A i \in DOMAIN keys : ~Stops(i, keys)
  /\ db' = PurgeKeys(db, now, ToSet(keys))
  /\ Block(c, keys, IF timeout = 0 THEN None ELSE now + timeout)
  /\ Answer(c, Complaints(timeout))
  /\ UNCHANGED <<now, up, turn, resolving, expiring>>

Blpop(c, keys, timeout) ==
  IF timeout = None
    THEN BlpopNotFloat(c, keys)
    ELSE BlpopAnswered(c, keys, timeout) \/ BlpopWaits(c, keys, timeout)

-----------------------------------------------------------------------------
(* Pushes and the clients they serve.                                      *)

(* Variant: LPUSH does not resolve waiters.                                *)
StatelessRPushOnly(c, cmd) ==
  /\ MaySend(c)
  /\ Direct(c, cmd)
  /\ resolving' = IF up' /\ cmd.op = "RPUSH" THEN cmd.key ELSE None
  /\ UNCHANGED <<blocked, order, waiters, expiring>>

(* on_write_command follows every stateless command that did not raise,    *)
(* whatever its reply; it resolves the waiters of a pushed key.            *)
Stateless(c, cmd) ==
  /\ MaySend(c)
  /\ Direct(c, cmd)
  /\ resolving' = IF up' /\ cmd.op \in {"RPUSH", "LPUSH"} THEN cmd.key ELSE None
  /\ UNCHANGED <<blocked, order, waiters, expiring>>

(* Variant: c leaves the queue of its first key only.                      *)
UnqueuedFirstKey(queues, c) ==
  IF blocked[c] = None THEN queues
  ELSE [queues EXCEPT ![blocked[c].keys[1]] = RemoveFirst(@, c)]

(* Variant: an emptied queue leaves None in the dict.                      *)
UnqueuedToNone(queues, c) ==
  [k \in Key |-> LET q == RemoveFirst(queues[k], c)
                 IN  IF k \notin KeysOf(c) THEN queues[k]
                     ELSE IF q = <<>> THEN None ELSE q]

(* c leaves blocked_clients and one place of each queue it waits in.       *)
Unqueued(queues, c) ==
  [k \in Key |-> IF k \in KeysOf(c) THEN RemoveFirst(queues[k], c) ELSE queues[k]]

(* Variant: c stays in blocked_clients.                                    *)
UnblockKeepingEntry(c, queues) ==
  /\ waiters' = Unqueued(queues, c)
  /\ UNCHANGED <<blocked, order>>

Unblock(c, queues) ==
  /\ blocked' = [blocked EXCEPT ![c] = None]
  /\ order' = RemoveFirst(order, c)
  /\ waiters' = Unqueued(queues, c)

(* The head of the queue is no longer blocked: it is dropped.              *)
SkipWaiter ==
  /\ up
  /\ resolving # None
  /\ waiters[resolving] # <<>>
  /\ blocked[Head(waiters[resolving])] = None
  /\ waiters' = [waiters EXCEPT ![resolving] = Tail(@)]
  /\ UNCHANGED <<loopVars, blocked, order, resolving, expiring>>

(* The head of the queue is given the first element.                       *)
ServeWaiter ==
  /\ up
  /\ resolving # None
  /\ waiters[resolving] # <<>>
  /\ LET k == resolving
         c == Head(waiters[k])
         r == LPop(db, now, k, None)
     IN  /\ blocked[c] # None
         /\ r.reply \notin {Nil, Error}
         /\ db' = r.db
         /\ Unblock(c, [waiters EXCEPT ![k] = Tail(@)])
         /\ owed' = [owed EXCEPT ![c] = @ - 1]
         /\ Write({c})
  /\ UNCHANGED <<now, up, turn, resolving, expiring>>

(* Variant: the loop also stops at a waiter whose connection is closed.    *)
ResolvedAtClosed ==
  /\ up
  /\ resolving # None
  /\ waiters[resolving] # <<>> =>
       \/ conn[Head(waiters[resolving])] = "closed"
       \/ LPop(db, now, resolving, None).reply = Nil
  /\ resolving' = None
  /\ UNCHANGED <<db, now, up, conn, turn, owed, blocked, order, waiters, expiring>>

(* No waiter is left, or no element.                                       *)
Resolved ==
  /\ up
  /\ resolving # None
  /\ \/ /\ waiters[resolving] = <<>>
        /\ UNCHANGED db
     \/ /\ waiters[resolving] # <<>>
        /\ blocked[Head(waiters[resolving])] # None
        /\ LPop(db, now, resolving, None).reply = Nil
        /\ db' = LPop(db, now, resolving, None).db
  /\ resolving' = None
  /\ UNCHANGED <<now, up, conn, turn, owed, blocked, order, waiters, expiring>>

(* The key does not hold a list: lpop raises TypeError, and nothing        *)
(* catches it.                                                             *)
ResolveRaises ==
  /\ up
  /\ resolving # None
  /\ waiters[resolving] # <<>>
  /\ blocked[Head(waiters[resolving])] # None
  /\ LPop(db, now, resolving, None).reply = Error
  /\ up' = FALSE
  /\ UNCHANGED <<db, now, conn, turn, owed, blockVars>>

-----------------------------------------------------------------------------
(* The sweep at the end of a turn of the event loop.                       *)

(* Variant: clients whose connection is closed are passed over.            *)
TimedOutIfOpen == {c \in Client : /\ blocked[c] # None
                                  /\ blocked[c].deadline # None
                                  /\ now >= blocked[c].deadline
                                  /\ conn[c] = "open"}

TimedOut == {c \in Client : /\ blocked[c] # None
                            /\ blocked[c].deadline # None
                            /\ now >= blocked[c].deadline}

(* check_timeouts reads the clock and the dict once.                       *)
Sweep ==
  /\ up
  /\ turn = None
  /\ Idle
  /\ expiring' = TimedOut
  /\ UNCHANGED <<loopVars, blocked, order, waiters, resolving>>

(* A client is told that its time is up.                                   *)
TimeOut(c) ==
  /\ up
  /\ c \in expiring
  /\ Unblock(c, waiters)
  /\ owed' = [owed EXCEPT ![c] = @ - 1]
  /\ Write({c})
  /\ expiring' = expiring \ {c}
  /\ UNCHANGED <<db, now, up, turn, resolving>>

-----------------------------------------------------------------------------
(* The loop runs between handlers; the clock runs always.                  *)
Loop(c) ==
  /\ Idle
  /\ \/ Accept(c) \/ Receive(c) \/ HangUp(c)
     \/ ProtocolError(c) \/ ReaderRaises(c) \/ EndOfBatch(c)
  /\ UNCHANGED blockVars

(* A process that an exception has ended does nothing any more.            *)
Ended == ~up /\ UNCHANGED vars

Next ==
  \/ \E c \in Client : Loop(c) \/ TimeOut(c)
  \/ \E c \in Client, cmd \in Workload : Stateless(c, cmd)
  \/ \E c \in Client, keys \in KeyLists, t \in Timeouts : Blpop(c, keys, t)
  \/ SkipWaiter
  \/ ServeWaiter
  \/ Resolved
  \/ ResolveRaises
  \/ Sweep
  \/ Tick /\ UNCHANGED blockVars
  \/ Ended

Spec == Init /\ [][Next]_vars

(* A pipeline is finite and the loop sweeps after every round of reads, so *)
(* a batch ends and a sweep comes however busy the clients are; the clock  *)
(* runs, and a handler that has begun goes on.                             *)
Fairness ==
  /\ \A c \in Client : SF_vars(Idle /\ EndOfBatch(c) /\ UNCHANGED blockVars)
  /\ SF_vars(Sweep)
  /\ \A c \in Client : WF_vars(TimeOut(c))
  /\ WF_vars(SkipWaiter \/ ServeWaiter \/ Resolved \/ ResolveRaises)
  /\ WF_vars(Tick /\ UNCHANGED blockVars)

FairSpec == Spec /\ Fairness

-----------------------------------------------------------------------------
(* Safety.                                                                 *)

(* A blocked client stands in the queue of every key it waits for, so no   *)
(* push can pass it by (connection_state.py:389-392, 401-412, 435-449).    *)
Registered == \A c \in Client : \A k \in KeysOf(c) : c \in ToSet(waiters[k])

(* No client waits for a key that holds an element, once the push that     *)
(* brought it has been resolved (connection_state.py:380-415).             *)
NoMissedPush ==
  up => \A c \in Client : \A k \in KeysOf(c) :
          k # resolving => ~HasType(Lookup(db, now, k), "list")

(* Every command is answered exactly once, BLPOP when its client is        *)
(* unblocked: a patient client finds its replies in step with its commands *)
(* (connection_state.py:359-473).                                          *)
OneReplyPerCommand ==
  up => \A c \in Patient : owed[c] = IF blocked[c] = None THEN 0 ELSE 1

(* Every queue holds exactly those patient clients that wait for its key,  *)
(* in the order in which they blocked, whatever stale places of other      *)
(* clients lie between them (connection_state.py:389-392, 435-449).        *)
QueuesAgree ==
  \A k \in Key :
    Only(waiters[k], Patient) = Only(order, {c \in Patient : k \in KeysOf(c)})

-----------------------------------------------------------------------------
(* Action properties.                                                      *)

(* Among patient clients an element goes to the one that has waited        *)
(* longest for its key (connection_state.py:394-412).                      *)
OldestFirst ==
  [][\A c \in Patient : ServeWaiter /\ blocked[c] # None /\ blocked'[c] = None =>
       /\ resolving \in KeysOf(c)
       /\ \A i, j \in DOMAIN order :
            /\ order[j] = c
            /\ order[i] \in Patient
            /\ resolving \in KeysOf(order[i])
            => j <= i]_vars

-----------------------------------------------------------------------------
(* Liveness.                                                               *)

(* A patient client with a timeout does not wait for ever, whatever the    *)
(* others do (connection_state.py:451-473).                                *)
TimeoutFires ==
  \A c \in Patient :
    (blocked[c] # None /\ blocked[c].deadline # None /\ blocked[c].deadline <= MaxTime)
      ~> (blocked[c] = None \/ ~up)

-----------------------------------------------------------------------------
(* What documentation in the source says of the program.                   *)

(* "The client is registered as a waiter and gets NO reply until it will   *)
(* be answered later by _resolve_waiters() [...] or check_timeouts()"      *)
(* (connection_state.py:363-365): a BLPOP that blocks is not answered.     *)
AnswerIsOwed == \A c \in Client : blocked[c] # None => owed[c] >= 1

(* "Called by server.py after every successfully dispatched stateless      *)
(* write" (connection_state.py:232-233): waiters are resolved for a push   *)
(* that succeeded.                                                         *)
ResolvesAfterSuccess ==
  [][\A c \in Client, cmd \in Workload :
       Stateless(c, cmd) /\ resolving' # None => Succeeds(db, now, cmd)]_vars

=============================================================================
