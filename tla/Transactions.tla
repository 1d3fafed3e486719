----------------------------- MODULE Transactions -----------------------------
(***************************************************************************)
(* MULTI, EXEC, DISCARD, WATCH and UNWATCH (connection_state.py): commands *)
(* queued per connection, and the versions of keys that EXEC compares.     *)
(*                                                                         *)
(* EXEC is one handler, but each of its commands reads the clock: they are *)
(* taken one at a time, while running is the client whose EXEC it is and   *)
(* no other handler runs.                                                  *)
(***************************************************************************)
EXTENDS Connections

CONSTANTS WatchLists,  \* the keys of one WATCH command, as a set
          MaxQueued    \* bound: length of a queue of commands

(* A part of a WATCH is a WATCH of its own.                                *)
ASSUME WatchedAreKeys ==
  /\ WatchLists \subseteq (SUBSET Key) \ {{}}
  /\ \A keys \in WatchLists : (SUBSET keys) \ {{}} \subseteq WatchLists

VARIABLES txn,      \* transactions: client -> its queue and dirty flag, or None
          watched,  \* watched_keys: client -> key -> version, or None
          running,  \* the client whose EXEC is being run, or None
          pending,  \* the commands this EXEC has still to run
          fate      \* history: what has happened to a key since it was watched

txnVars == <<txn, watched, running, pending, fate>>
vars == <<loopVars, txnVars>>

Txn == [queue : Seq(Command), dirty : BOOLEAN]
NoWatch == [k \in Key |-> None]

ASSUME NoneIsNoTransaction == None \notin Txn

TypeOK ==
  /\ LoopTypeOK
  /\ txn \in [Client -> Txn \cup {None}]
  /\ watched \in [Client -> [Key -> Nat \cup {None}]]
  /\ running \in Client \cup {None}
  /\ pending \in Seq(Command)
  /\ fate \in [Client -> [Key -> {"kept", "written", "changed"}]]

Init ==
  /\ LoopInit
  /\ txn = [c \in Client |-> None]
  /\ watched = [c \in Client |-> NoWatch]
  /\ running = None
  /\ pending = <<>>
  /\ fate = [c \in Client |-> [k \in Key |-> "kept"]]

Idle == running = None
MaySend(c) == Sends(c) /\ Idle

-----------------------------------------------------------------------------
(* History: since a key was watched it was changed, by a command or by its *)
(* expiry; or written, when commands were run on it that left its value as *)
(* it was or only popped an element (the keys of popped and named); or     *)
(* kept.                                                                   *)

Remember(popped, named) ==
  fate' = [c \in Client |-> [k \in Key |->
    IF watched'[c][k] = None THEN "kept"
    ELSE IF Lookup(db', now', k) # Lookup(db, now, k) /\ k \notin popped THEN "changed"
    ELSE IF k \in popped \cup named /\ fate[c][k] = "kept" THEN "written"
    ELSE fate[c][k]]]

RememberCommand(cmd) ==
  Remember(IF PlainPop(cmd) THEN {cmd.key} ELSE {},
           IF cmd.op \in WriteCommands /\ Succeeds(db, now, cmd) THEN {cmd.key} ELSE {})

-----------------------------------------------------------------------------
(* Queueing.                                                               *)

(* A command that is answered and changes nothing else.                    *)
Refuse(c) ==
  /\ Answer(c, 1)
  /\ UNCHANGED <<db, now, up, turn, txnVars>>

(* Variant: the new transaction has no queue yet.                          *)
MultiWithoutQueue(c) ==
  /\ MaySend(c)
  /\ \/ txn[c] # None /\ Refuse(c)
     \/ /\ txn[c] = None
        /\ txn' = [txn EXCEPT ![c] = [queue |-> None, dirty |-> FALSE]]
        /\ Answer(c, 1)
        /\ UNCHANGED <<db, now, up, turn, watched, running, pending, fate>>

Multi(c) ==
  /\ MaySend(c)
  /\ \/ txn[c] # None /\ Refuse(c)
     \/ /\ txn[c] = None
        /\ txn' = [txn EXCEPT ![c] = [queue |-> <<>>, dirty |-> FALSE]]
        /\ Answer(c, 1)
        /\ UNCHANGED <<db, now, up, turn, watched, running, pending, fate>>

(* dispatch leaves XREAD to the table before it looks at transactions.     *)
NeverQueued(cmd) == cmd.op = "XREAD"

(* Inside MULTI a command of the table is queued; any other marks the      *)
(* transaction as dirty.                                                   *)
Queue(c, cmd) ==
  /\ MaySend(c)
  /\ txn[c] # None
  /\ ~NeverQueued(cmd)
  /\ cmd.op \in WriteCommands => MayWrite
  /\ IF Known(cmd)
       THEN /\ Len(txn[c].queue) < MaxQueued
            /\ txn' = [txn EXCEPT ![c].queue = Append(@, cmd)]
       ELSE txn' = [txn EXCEPT ![c].dirty = TRUE]
  /\ Answer(c, 1)
  /\ UNCHANGED <<db, now, up, turn, watched, running, pending, fate>>

(* Outside MULTI it is run.                                                *)
Stateless(c, cmd) ==
  /\ MaySend(c)
  /\ txn[c] = None \/ NeverQueued(cmd)
  /\ Direct(c, cmd)
  /\ UNCHANGED <<txn, watched, running, pending>>
  /\ RememberCommand(cmd)

(* Variant: the watched keys outlive the transaction.                      *)
DiscardKeepingWatches(c) ==
  /\ MaySend(c)
  /\ \/ txn[c] = None /\ Refuse(c)
     \/ /\ txn[c] # None
        /\ txn' = [txn EXCEPT ![c] = None]
        /\ Answer(c, 1)
        /\ UNCHANGED <<db, now, up, turn, watched, running, pending, fate>>

Discard(c) ==
  /\ MaySend(c)
  /\ \/ txn[c] = None /\ Refuse(c)
     \/ /\ txn[c] # None
        /\ txn' = [txn EXCEPT ![c] = None]
        /\ watched' = [watched EXCEPT ![c] = NoWatch]
        /\ Answer(c, 1)
        /\ UNCHANGED <<db, now, up, turn, running, pending>>
        /\ Remember({}, {})

-----------------------------------------------------------------------------
(* Watching.                                                               *)

(* WATCH records the present version of each key, over any older one.  It  *)
(* reads the clock for each: one whose later keys are read after a tick is *)
(* the WATCH of its earlier keys, the tick, and the WATCH of the later.    *)
Watch(c, keys) ==
  /\ MaySend(c)
  /\ \/ txn[c] # None /\ Refuse(c)
     \/ /\ txn[c] = None
        /\ db' = PurgeKeys(db, now, keys)
        /\ watched' = [watched EXCEPT ![c] =
             [k \in Key |-> IF k \in keys THEN GetVersion(db, now, k) ELSE @[k]]]
        /\ fate' = [fate EXCEPT ![c] =
             [k \in Key |-> IF k \in keys THEN "kept" ELSE @[k]]]
        /\ Answer(c, 1)
        /\ UNCHANGED <<now, up, turn, txn, running, pending>>

(* UNWATCH is not queued: inside MULTI it takes effect at once.            *)
Unwatch(c) ==
  /\ MaySend(c)
  /\ watched' = [watched EXCEPT ![c] = NoWatch]
  /\ Answer(c, 1)
  /\ UNCHANGED <<db, now, up, turn, txn, running, pending>>
  /\ Remember({}, {})

-----------------------------------------------------------------------------
(* EXEC.                                                                   *)

Watches(c) == {k \in Key : watched[c][k] # None}
Moved(c) == {k \in Watches(c) : GetVersion(db, now, k) # watched[c][k]}

(* any() looks at the watched keys in the order of the dict and stops at   *)
(* the first whose version has moved: checked is what it looked at.  The   *)
(* order is left open.  The code reads the clock for each of them, and     *)
(* once is enough: a version that has not moved by some reading had not    *)
(* moved before it, and nothing was purged by looking.  An EXEC that finds *)
(* none moved is therefore taken at its first reading, and one that finds  *)
(* a key moved at its last, with that key alone in checked.                *)
Checked(c, checked) ==
  /\ checked \subseteq Watches(c)
  /\ IF Moved(c) = {} THEN checked = Watches(c)
                      ELSE Cardinality(checked \cap Moved(c)) = 1

(* EXEC takes the transaction and the watches away before it decides.      *)
TakeTransaction(c) ==
  /\ MaySend(c)
  /\ txn[c] # None
  /\ txn' = [txn EXCEPT ![c] = None]
  /\ watched' = [watched EXCEPT ![c] = NoWatch]
  /\ \E checked \in SUBSET Key :
       Checked(c, checked) /\ db' = PurgeKeys(db, now, checked)
  /\ UNCHANGED <<now, up, turn>>
  /\ Remember({}, {})

ExecWithoutMulti(c) ==
  /\ MaySend(c)
  /\ txn[c] = None
  /\ Refuse(c)

ExecDirty(c) ==
  /\ TakeTransaction(c)
  /\ txn[c].dirty
  /\ Answer(c, 1)
  /\ UNCHANGED <<running, pending>>

(* Variant: the null reply is not followed by a return.                    *)
ExecInvalidatedGoesOn(c) ==
  /\ TakeTransaction(c)
  /\ ~txn[c].dirty
  /\ Moved(c) # {}
  /\ Answer(c, 1)
  /\ running' = c
  /\ pending' = txn[c].queue

ExecInvalidated(c) ==
  /\ TakeTransaction(c)
  /\ ~txn[c].dirty
  /\ Moved(c) # {}
  /\ Answer(c, 1)
  /\ UNCHANGED <<running, pending>>

ExecBegins(c) ==
  /\ TakeTransaction(c)
  /\ ~txn[c].dirty
  /\ Moved(c) = {}
  /\ running' = c
  /\ pending' = txn[c].queue
  /\ Answer(c, 0)

(* The next queued command is dispatched.  Its reply is collected; an      *)
(* exception ends the process, with the commands before it in effect.      *)
ExecRuns ==
  /\ up
  /\ ~Idle
  /\ pending # <<>>
  /\ LET r == Dispatch(db, now, Head(pending))
     IN  db' = r.db /\ up' = (r.reply # Raise)
  /\ pending' = Tail(pending)
  /\ UNCHANGED <<now, conn, turn, owed, txn, watched, running>>
  /\ RememberCommand(Head(pending))

(* All replies are written as one array.                                   *)
ExecEnds ==
  /\ up
  /\ ~Idle
  /\ pending = <<>>
  /\ running' = None
  /\ owed' = [owed EXCEPT ![running] = @ - 1]
  /\ Write({running})
  /\ UNCHANGED <<db, now, up, turn, txn, watched, pending, fate>>

-----------------------------------------------------------------------------
(* The loop runs between handlers; the clock runs always.                  *)
Loop(c) ==
  /\ Idle
  /\ \/ Accept(c) \/ Receive(c) \/ HangUp(c)
     \/ ProtocolError(c) \/ ReaderRaises(c) \/ EndOfBatch(c)
  /\ UNCHANGED txnVars

Clock ==
  /\ Tick
  /\ UNCHANGED <<txn, watched, running, pending>>
  /\ Remember({}, {})

(* select times out with nothing to read.                                  *)
EmptyRound == up /\ Idle /\ turn = None /\ UNCHANGED vars

Ended == ~up /\ UNCHANGED vars

Next ==
  \/ \E c \in Client :
       \/ Loop(c)
       \/ Multi(c) \/ Discard(c) \/ Unwatch(c)
       \/ ExecWithoutMulti(c) \/ ExecDirty(c) \/ ExecInvalidated(c) \/ ExecBegins(c)
  \/ \E c \in Client, keys \in WatchLists : Watch(c, keys)
  \/ \E c \in Client, cmd \in Workload : Queue(c, cmd) \/ Stateless(c, cmd)
  \/ ExecRuns
  \/ ExecEnds
  \/ Clock
  \/ EmptyRound
  \/ Ended

Spec == Init /\ [][Next]_vars

-----------------------------------------------------------------------------
(* Safety.                                                                 *)

(* EXEC compares versions for equality, which is only sound if no version  *)
(* ever goes back to a value it had: DEL, expiry and the removal of empty  *)
(* lists must all leave _versions alone (storage.py:35-53, 78-83).         *)
WatchedNotAhead ==
  \A c \in Client, k \in Key :
    watched[c][k] # None => watched[c][k] <= db.versions[k]

(* MULTI, a queued command, EXEC and every refusal are answered exactly    *)
(* once, and EXEC with one reply for the whole queue                       *)
(* (connection_state.py:103-160, 240-285).                                 *)
OneReplyPerCommand ==
  up => \A c \in Client : owed[c] = IF running = c THEN 1 ELSE 0

-----------------------------------------------------------------------------
(* Action properties.                                                      *)

(* EXEC runs its queue only if no key it watches was changed since it was  *)
(* watched, by whatever command of whatever client, by another EXEC or by  *)
(* its own expiry (connection_state.py:249-261).  Plain pops are not seen. *)
WatchGuards ==
  [][\A c \in Client : ExecBegins(c) =>
       \A k \in Watches(c) : fate[c][k] # "changed"]_vars

(* EXEC refuses only if some key it watches was at least named by a        *)
(* successful write or expired: reading, refused writes and other keys do  *)
(* not abort a transaction (connection_state.py:249-261).                  *)
AbortsHaveCause ==
  [][\A c \in Client : ExecInvalidated(c) =>
       \E k \in Watches(c) : fate[c][k] # "kept"]_vars

(* A watch guards one transaction: however that ends, by EXEC, a refused   *)
(* EXEC or DISCARD, the client watches nothing afterwards                  *)
(* (connection_state.py:107-115, 248-261).                                 *)
WatchEndsWithTransaction ==
  [][\A c \in Client :
       txn[c] # None /\ txn'[c] = None => watched'[c] = NoWatch]_vars

=============================================================================
