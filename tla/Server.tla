-------------------------------- MODULE Server --------------------------------
(***************************************************************************)
(* The commands of one server together: ConnectionState.dispatch decides   *)
(* whether a command blocks, belongs to a transaction, is queued, or is    *)
(* run and followed by on_write_command; EXEC runs queued commands with    *)
(* neither.  Blocking and Transactions share the event loop's variables.   *)
(***************************************************************************)
EXTENDS Connections

CONSTANTS KeyLists, Timeouts, Patient, MaxQueue,  \* those of Blocking
          WatchLists, MaxQueued                   \* those of Transactions

VARIABLES blocked, order, waiters, resolving, expiring,  \* those of Blocking
          txn, watched, running, pending, fate           \* those of Transactions

blockVars == <<blocked, order, waiters, resolving, expiring>>
txnVars == <<txn, watched, running, pending, fate>>
vars == <<loopVars, blockVars, txnVars>>

Blocks == INSTANCE Blocking
Txns == INSTANCE Transactions

ASSUME ServerInputs ==
  /\ KeyLists \subseteq Seq(Key) /\ Timeouts \subseteq Int \cup {None}
  /\ None \notin Blocks!BlockInfo

TypeOK == Blocks!TypeOK /\ Txns!TypeOK

Init == Blocks!Init /\ Txns!Init

(* A step of Blocking leaves transactions alone; it may pop an element of  *)
(* a list of popped.                                                       *)
TxnsKept(popped) ==
  /\ UNCHANGED <<txn, watched, running, pending>>
  /\ Txns!Remember(popped, {})

-----------------------------------------------------------------------------
(* The routes of ConnectionState.dispatch for a command of c.              *)

(* BLPOP comes first, inside MULTI too.                                    *)
Blpop(c, keys, timeout) ==
  /\ Txns!Idle
  /\ Blocks!Blpop(c, keys, timeout)
  /\ TxnsKept(ToSet(keys))

(* The commands about transactions, and whatever MULTI queues.             *)
Transaction(c) ==
  /\ Blocks!MaySend(c)
  /\ UNCHANGED blockVars
  /\ \/ Txns!Multi(c)
     \/ Txns!Discard(c)
     \/ Txns!Unwatch(c)
     \/ Txns!ExecWithoutMulti(c)
     \/ Txns!ExecDirty(c)
     \/ Txns!ExecInvalidated(c)
     \/ Txns!ExecBegins(c)
     \/ \E keys \in WatchLists : Txns!Watch(c, keys)
     \/ \E cmd \in Workload : Txns!Queue(c, cmd)

(* Everything else is run.                                                 *)
Stateless(c, cmd) ==
  /\ Txns!Idle
  /\ txn[c] = None \/ Txns!NeverQueued(cmd)
  /\ Blocks!Stateless(c, cmd)
  /\ UNCHANGED <<txn, watched, running, pending>>
  /\ Txns!RememberCommand(cmd)

-----------------------------------------------------------------------------
(* Handlers at work.                                                       *)

(* on_write_command serves waiters, and the sweep times them out.          *)
Resolving ==
  \/ Blocks!SkipWaiter /\ TxnsKept({})
  \/ Blocks!ServeWaiter /\ TxnsKept({resolving})
  \/ Blocks!Resolved /\ TxnsKept({})
  \/ Blocks!ResolveRaises /\ TxnsKept({})

Sweeping ==
  \/ Blocks!Sweep /\ TxnsKept({})
  \/ \E c \in Client : Blocks!TimeOut(c) /\ TxnsKept({})

(* EXEC dispatches its queue to the table, without on_write_command.       *)
Executing == (Txns!ExecRuns \/ Txns!ExecEnds) /\ UNCHANGED blockVars

Loop(c) == Blocks!Loop(c) /\ Txns!Idle /\ UNCHANGED txnVars

Clock == Txns!Clock /\ UNCHANGED blockVars

Ended == ~up /\ UNCHANGED vars

Next ==
  \/ \E c \in Client : Loop(c) \/ Transaction(c)
  \/ \E c \in Client, cmd \in Workload : Stateless(c, cmd)
  \/ \E c \in Client, keys \in KeyLists, t \in Timeouts : Blpop(c, keys, t)
  \/ Resolving
  \/ Sweeping
  \/ Executing
  \/ Clock
  \/ Ended

Spec == Init /\ [][Next]_vars

-----------------------------------------------------------------------------
(* Safety.                                                                 *)

(* EXEC's watch sees everything that changes a watched key in the presence *)
(* of blocked clients, except the plain pops, which now include those that *)
(* BLPOP makes (connection_state.py:249-261, 380-406).                     *)
WatchGuards ==
  [][\A c \in Client : Txns!ExecBegins(c) =>
       \A k \in Txns!Watches(c) : fate[c][k] # "changed"]_vars

(* When a push has been resolved, nobody waits for its key while the key   *)
(* holds an element - also one that an EXEC left there unnoticed           *)
(* (connection_state.py:394-415).                                          *)
PushServesAll ==
  [][resolving # None /\ resolving' = None /\ up' =>
       \A c \in Client :
         resolving \in Blocks!KeysOf(c) => Lookup(db', now, resolving) = None]_vars


-----------------------------------------------------------------------------
(* What documentation in the source says of the program.                   *)

(* "It Blocks until timeout gets expired or until new data added inside    *)
(* key" (connection_state.py:362): between handlers, no client waits for a *)
(* key that holds an element.                                              *)
BlocksUntilData ==
  up /\ Blocks!Idle /\ Txns!Idle =>
    \A c \in Client : \A k \in Blocks!KeysOf(c) :
      ~HasType(Lookup(db, now, k), "list")

=============================================================================
