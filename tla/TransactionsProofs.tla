-------------------------- MODULE TransactionsProofs --------------------------
(***************************************************************************)
(* The guard of WATCH, for every set of keys, clients and commands.        *)
(*                                                                         *)
(* EXEC compares the version recorded by WATCH with the version it finds,  *)
(* for equality.  It is inductive that a key whose value changed after it  *)
(* was watched already shows a greater version (Noticed); that this stays  *)
(* so rests on versions that never fall and on the lemmas of               *)
(* KeyspaceProofs about what a command does to the version of a key.       *)
(***************************************************************************)
EXTENDS Transactions, KeyspaceProofs

(* A write closes some connections.                                        *)
LEMMA WriteType ==
  ASSUME conn \in [Client -> {"new", "open", "closed"}], NEW S, Write(S)
  PROVE  conn' \in [Client -> {"new", "open", "closed"}]
BY DEF Write

(* A handler that answers closes its own at most, and counts.              *)
LEMMA AnswerType ==
  ASSUME LoopTypeOK, NEW c \in Client, NEW n \in Int, Answer(c, n)
  PROVE  /\ conn' \in [Client -> {"new", "open", "closed"}]
         /\ owed' \in [Client -> Int]
BY WriteType DEF Answer, LoopTypeOK

(* While the process runs, a change is visible in the version.             *)
Noticed ==
  up => \A c \in Client, k \in Key :
          watched[c][k] # None /\ fate[c][k] = "changed"
            => GetVersion(db, now, k) > watched[c][k]

IInv ==
  /\ TypeOK
  /\ WellFormed(db)
  /\ WatchedNotAhead
  /\ Noticed

-----------------------------------------------------------------------------
LEMMA InitIInv == Init => IInv
<1> SUFFICES ASSUME Init
             PROVE  IInv
  OBVIOUS
<1>1. WellFormed(db)
  BY EmptyIsWellFormed DEF Init, LoopInit
<1>2. TypeOK
  BY <1>1 DEF Init, LoopInit, TypeOK, LoopTypeOK, NoWatch, WellFormed
<1>3. WatchedNotAhead /\ Noticed
  BY DEF Init, NoWatch, WatchedNotAhead, Noticed
<1> QED
  BY <1>1, <1>2, <1>3 DEF IInv

(* No step of the keyspace takes a version back, in the counter or in what *)
(* WATCH would read; and whatever changes outside quiet shows.             *)
Shows(quiet) ==
  \A k \in Key :
    /\ db'.versions[k] >= db.versions[k]
    /\ up' => /\ GetVersion(db', now', k) >= GetVersion(db, now, k)
              /\ Lookup(db', now', k) # Lookup(db, now, k) /\ k \notin quiet
                   => GetVersion(db', now', k) > db.versions[k]

LEMMA CommandShows ==
  ASSUME WellFormed(db), now \in Nat, NEW cmd \in Command,
         db' = Dispatch(db, now, cmd).db,
         up' = (Dispatch(db, now, cmd).reply # Raise),
         now' = now
  PROVE  WellFormed(db') /\ Shows(Popped(cmd))
<1>1. WellFormed(db')
  BY DispatchKeeps
<1>2. ASSUME NEW k \in Key
      PROVE  db'.versions[k] >= db.versions[k]
  BY VersionsNeverFall
<1>3. ASSUME NEW k \in Key, up'
      PROVE  Follows(db, db', k, Popped(cmd))
  BY <1>3, DispatchFollows
<1>4. ASSUME NEW k \in Key, up'
      PROVE  /\ GetVersion(db', now', k) >= GetVersion(db, now, k)
             /\ Lookup(db', now', k) # Lookup(db, now, k) /\ k \notin Popped(cmd)
                  => GetVersion(db', now', k) > db.versions[k]
  BY <1>1, <1>3, <1>4, FollowsShows
<1> QED
  BY <1>1, <1>2, <1>4 DEF Shows

LEMMA PurgeShows ==
  ASSUME WellFormed(db), now \in Nat, NEW S,
         db' = PurgeKeys(db, now, S), now' = now
  PROVE  /\ WellFormed(db')
         /\ Shows({})
         /\ \A k \in Key : Lookup(db', now', k) = Lookup(db, now, k)
<1>1. \A k \in Key : GetVersion(db, now, k) \in Nat
  BY Purged
<1> QED
  BY <1>1, PurgeKeysShows DEF Shows

LEMMA TickingShows ==
  ASSUME WellFormed(db), now \in Nat, Tick
  PROVE  WellFormed(db') /\ Shows({})
<1>1. \A k \in Key : db.versions[k] \in Nat
  BY DEF WellFormed, DB
<1> QED
  BY <1>1, TickShows DEF Shows, Tick

LEMMA StillShows ==
  ASSUME WellFormed(db), now \in Nat, db' = db, now' = now
  PROVE  WellFormed(db') /\ Shows({})
<1>1. \A k \in Key : db.versions[k] \in Nat /\ GetVersion(db, now, k) \in Nat
  BY Purged
<1> QED
  BY <1>1 DEF Shows

(* The steps that only forget watches, and remember what they changed.     *)
LEMMA RememberKeeps ==
  ASSUME IInv, NEW popped, NEW named, NEW quiet, quiet \subseteq popped,
         Remember(popped, named), Shows(quiet), up' => up,
         WellFormed(db'),
         \A c \in Client, k \in Key :
           watched'[c][k] # None => watched'[c][k] = watched[c][k]
  PROVE  /\ fate' \in [Client -> [Key -> {"kept", "written", "changed"}]]
         /\ WatchedNotAhead'
         /\ Noticed'
<1> USE DEF IInv
<1>1. fate' \in [Client -> [Key -> {"kept", "written", "changed"}]]
  BY DEF Remember, TypeOK
<1>2. \A c \in Client, k \in Key : /\ db.versions[k] \in Nat
                                   /\ db'.versions[k] \in Nat
                                   /\ GetVersion(db, now, k) \in Nat
                                   /\ GetVersion(db', now', k) \in Nat
                                   /\ watched[c][k] # None => watched[c][k] \in Nat
  BY Purged DEF TypeOK, LoopTypeOK, DB
<1>3. WatchedNotAhead'
  BY <1>2 DEF WatchedNotAhead, Shows
<1>4. ASSUME up', NEW c \in Client, NEW k \in Key,
             watched'[c][k] # None, fate'[c][k] = "changed"
      PROVE  GetVersion(db', now', k) > watched'[c][k]
  <2>1. watched[c][k] # None /\ watched'[c][k] = watched[c][k]
    BY <1>4
  <2>2. watched[c][k] <= db.versions[k]
    BY <2>1 DEF WatchedNotAhead
  <2>3. \/ Lookup(db', now', k) # Lookup(db, now, k) /\ k \notin popped
        \/ fate[c][k] = "changed"
    BY <1>4 DEF Remember
  <2>4. CASE Lookup(db', now', k) # Lookup(db, now, k) /\ k \notin popped
    <3>1. GetVersion(db', now', k) > db.versions[k]
      BY <1>4, <2>4 DEF Shows
    <3> QED
      BY <1>2, <2>1, <2>2, <3>1
  <2>5. CASE fate[c][k] = "changed"
    <3>1. GetVersion(db, now, k) > watched[c][k]
      BY <1>4, <2>1, <2>5 DEF Noticed
    <3>2. GetVersion(db', now', k) >= GetVersion(db, now, k)
      BY <1>4 DEF Shows
    <3> QED
      BY <1>2, <2>1, <3>1, <3>2
  <2> QED
    BY <2>3, <2>4, <2>5
<1>5. Noticed'
  BY <1>4 DEF Noticed
<1> QED
  BY <1>1, <1>3, <1>5

-----------------------------------------------------------------------------
(* What the steps have in common.                                          *)

(* Steps that leave the keyspace, the clock and the watches alone.         *)
LEMMA StillKeeps ==
  ASSUME IInv, UNCHANGED <<db, now, watched, fate>>, up' \in BOOLEAN, up' => up,
         conn' \in [Client -> {"new", "open", "closed"}],
         turn' \in Client \cup {None},
         owed' \in [Client -> Int],
         txn' \in [Client -> Txn \cup {None}],
         running' \in Client \cup {None},
         pending' \in Seq(Command)
  PROVE  IInv'
BY DEF IInv, TypeOK, LoopTypeOK, WatchedNotAhead, Noticed

LEMMA RefuseKeeps ==
  ASSUME IInv, NEW c \in Client, Refuse(c)
  PROVE  IInv'
<1>1. /\ conn' \in [Client -> {"new", "open", "closed"}]
      /\ owed' \in [Client -> Int]
  BY AnswerType DEF Refuse, IInv, TypeOK
<1> QED
  BY <1>1, StillKeeps DEF Refuse, txnVars, IInv, TypeOK, LoopTypeOK

(* EXEC, until it decides.                                                 *)
LEMMA TakeKeeps ==
  ASSUME IInv, NEW c \in Client, TakeTransaction(c), NEW n \in Int, Answer(c, n),
         running' \in Client \cup {None}, pending' \in Seq(Command)
  PROVE  IInv'
<1> USE DEF TakeTransaction
<1>1. /\ conn' \in [Client -> {"new", "open", "closed"}]
      /\ owed' \in [Client -> Int]
  BY AnswerType DEF IInv, TypeOK
<1>2. WellFormed(db') /\ Shows({})
  BY PurgeShows DEF IInv, TypeOK, LoopTypeOK
<1>3. /\ watched' \in [Client -> [Key -> Nat \cup {None}]]
      /\ txn' \in [Client -> Txn \cup {None}]
      /\ \A e \in Client, k \in Key :
           watched'[e][k] # None => watched'[e][k] = watched[e][k]
  BY DEF IInv, TypeOK, NoWatch
<1>4. /\ fate' \in [Client -> [Key -> {"kept", "written", "changed"}]]
      /\ WatchedNotAhead'
      /\ Noticed'
  BY <1>2, <1>3, RememberKeeps
<1> QED
  BY <1>1, <1>2, <1>3, <1>4 DEF IInv, TypeOK, LoopTypeOK, WellFormed

-----------------------------------------------------------------------------
LEMMA NextIInv == IInv /\ [Next]_vars => IInv'
<1> SUFFICES ASSUME IInv, [Next]_vars
             PROVE  IInv'
  OBVIOUS
<1> USE DEF MaySend, Sends
<1>1. ASSUME NEW c \in Client, Loop(c)
      PROVE  IInv'
  BY <1>1, StillKeeps
     DEF Loop, Accept, Receive, HangUp, ProtocolError, ReaderRaises, EndOfBatch, txnVars,
         IInv, TypeOK, LoopTypeOK
<1>2. ASSUME NEW c \in Client, Multi(c)
      PROVE  IInv'
  <2>1. CASE txn[c] # None
    BY <1>2, <2>1, RefuseKeeps DEF Multi
  <2>2. CASE txn[c] = None
    <3>1. /\ conn' \in [Client -> {"new", "open", "closed"}]
          /\ owed' \in [Client -> Int]
      BY <1>2, <2>2, AnswerType DEF Multi, IInv, TypeOK
    <3>2. txn' \in [Client -> Txn \cup {None}]
      <4>1. [queue |-> <<>>, dirty |-> FALSE] \in Txn
        BY DEF Txn
      <4> QED
        BY <1>2, <2>2, <4>1 DEF Multi, IInv, TypeOK
    <3> QED
      BY <1>2, <2>2, <3>1, <3>2, StillKeeps DEF Multi, IInv, TypeOK, LoopTypeOK
  <2> QED
    BY <2>1, <2>2
<1>3. ASSUME NEW c \in Client, Discard(c)
      PROVE  IInv'
  <2>1. CASE txn[c] = None
    BY <1>3, <2>1, RefuseKeeps DEF Discard
  <2>2. CASE txn[c] # None
    <3>1. /\ txn' = [txn EXCEPT ![c] = None]
          /\ watched' = [watched EXCEPT ![c] = NoWatch]
          /\ Answer(c, 1)
          /\ UNCHANGED <<db, now, up, turn, running, pending>>
          /\ Remember({}, {})
      BY <1>3, <2>2 DEF Discard
    <3>2. /\ conn' \in [Client -> {"new", "open", "closed"}]
          /\ owed' \in [Client -> Int]
      BY <3>1, AnswerType DEF IInv, TypeOK
    <3>3. /\ txn' \in [Client -> Txn \cup {None}]
          /\ watched' \in [Client -> [Key -> Nat \cup {None}]]
          /\ \A e \in Client, k \in Key :
               watched'[e][k] # None => watched'[e][k] = watched[e][k]
      BY <3>1 DEF IInv, TypeOK, NoWatch
    <3>4. WellFormed(db') /\ Shows({})
      BY <3>1, StillShows DEF IInv, TypeOK, LoopTypeOK
    <3>5. /\ fate' \in [Client -> [Key -> {"kept", "written", "changed"}]]
          /\ WatchedNotAhead'
          /\ Noticed'
      BY <3>1, <3>3, <3>4, RememberKeeps
    <3> QED
      BY <3>1, <3>2, <3>3, <3>4, <3>5 DEF IInv, TypeOK, LoopTypeOK
  <2> QED
    BY <2>1, <2>2
<1>4. ASSUME NEW c \in Client, Unwatch(c)
      PROVE  IInv'
  <2>1. /\ conn' \in [Client -> {"new", "open", "closed"}]
        /\ owed' \in [Client -> Int]
    BY <1>4, AnswerType DEF Unwatch, IInv, TypeOK
  <2>2. /\ watched' \in [Client -> [Key -> Nat \cup {None}]]
        /\ \A e \in Client, k \in Key :
             watched'[e][k] # None => watched'[e][k] = watched[e][k]
    BY <1>4 DEF Unwatch, IInv, TypeOK, NoWatch
  <2>3. WellFormed(db') /\ Shows({})
    BY <1>4, StillShows DEF Unwatch, IInv, TypeOK, LoopTypeOK
  <2>4. /\ fate' \in [Client -> [Key -> {"kept", "written", "changed"}]]
        /\ WatchedNotAhead'
        /\ Noticed'
    BY <1>4, <2>2, <2>3, RememberKeeps DEF Unwatch
  <2> QED
    BY <1>4, <2>1, <2>2, <2>3, <2>4 DEF Unwatch, IInv, TypeOK, LoopTypeOK
<1>5. ASSUME NEW c \in Client, ExecWithoutMulti(c)
      PROVE  IInv'
  BY <1>5, RefuseKeeps DEF ExecWithoutMulti
<1>6. ASSUME NEW c \in Client, ExecDirty(c) \/ ExecInvalidated(c)
      PROVE  IInv'
  BY <1>6, TakeKeeps DEF ExecDirty, ExecInvalidated, IInv, TypeOK
<1>7. ASSUME NEW c \in Client, ExecBegins(c)
      PROVE  IInv'
  <2>1. txn[c].queue \in Seq(Command)
    BY <1>7 DEF ExecBegins, TakeTransaction, IInv, TypeOK, Txn
  <2> QED
    BY <1>7, <2>1, TakeKeeps DEF ExecBegins
<1>8. ASSUME NEW c \in Client, NEW keys \in WatchLists, Watch(c, keys)
      PROVE  IInv'
  <2>1. CASE txn[c] # None
    BY <1>8, <2>1, RefuseKeeps DEF Watch
  <2>2. CASE txn[c] = None
    <3>1. /\ db' = PurgeKeys(db, now, keys)
          /\ watched' = [watched EXCEPT ![c] =
               [k \in Key |-> IF k \in keys THEN GetVersion(db, now, k) ELSE @[k]]]
          /\ fate' = [fate EXCEPT ![c] =
               [k \in Key |-> IF k \in keys THEN "kept" ELSE @[k]]]
          /\ Answer(c, 1)
          /\ UNCHANGED <<now, up, turn, txn, running, pending>>
      BY <1>8, <2>2 DEF Watch
    <3>2. /\ conn' \in [Client -> {"new", "open", "closed"}]
          /\ owed' \in [Client -> Int]
      BY <3>1, AnswerType DEF IInv, TypeOK
    <3>3. WellFormed(db')
      BY <3>1, PurgeKeysShows DEF IInv, TypeOK, LoopTypeOK
    <3>4. \A k \in Key : /\ GetVersion(db, now, k) \in Nat
                         /\ GetVersion(db', now, k) = GetVersion(db, now, k)
                         /\ db'.versions[k] >= db.versions[k]
                         /\ db.versions[k] \in Nat
                         /\ db'.versions[k] \in Nat
      BY <3>1, <3>3, PurgeKeysShows, Purged DEF IInv, TypeOK, LoopTypeOK
    <3>5. \A k \in Key : k \in keys => GetVersion(db, now, k) = db'.versions[k]
      <4>1. \A k \in Key : PurgeKeys(db, now, keys).versions[k]
                          = (IF k \in keys THEN Purge(db, now, k) ELSE db).versions[k]
        BY DEF PurgeKeys, IInv, TypeOK, LoopTypeOK, DB
      <4> QED
        BY <3>1, <4>1 DEF GetVersion
    <3>6. /\ watched' \in [Client -> [Key -> Nat \cup {None}]]
          /\ fate' \in [Client -> [Key -> {"kept", "written", "changed"}]]
      BY <3>1, <3>4 DEF IInv, TypeOK
    <3>7. \A e \in Client, k \in Key :
            \/ watched'[e][k] = watched[e][k] /\ fate'[e][k] = fate[e][k]
            \/ k \in keys /\ watched'[e][k] = GetVersion(db, now, k) /\ fate'[e][k] = "kept"
      BY <3>1 DEF IInv, TypeOK
    <3>8. WatchedNotAhead'
      <4> SUFFICES ASSUME NEW e \in Client, NEW k \in Key, watched'[e][k] # None
                   PROVE  watched'[e][k] <= db'.versions[k]
        BY DEF WatchedNotAhead
      <4>1. watched[e][k] \in Nat \cup {None}
        BY DEF IInv, TypeOK
      <4>2. CASE watched'[e][k] = watched[e][k]
        <5>1. watched[e][k] <= db.versions[k]
          BY <4>2 DEF IInv, WatchedNotAhead
        <5> QED
          BY <3>4, <4>1, <4>2, <5>1
      <4>3. CASE k \in keys /\ watched'[e][k] = GetVersion(db, now, k)
        BY <3>4, <3>5, <4>3
      <4> QED
        BY <3>7, <4>2, <4>3
    <3>9. Noticed'
      BY <3>1, <3>4, <3>7 DEF Noticed, IInv
    <3> QED
      BY <3>1, <3>2, <3>3, <3>6, <3>8, <3>9 DEF IInv, TypeOK, LoopTypeOK, WellFormed
  <2> QED
    BY <2>1, <2>2
<1>9. ASSUME NEW c \in Client, NEW cmd \in Workload, Queue(c, cmd)
      PROVE  IInv'
  <2>1. /\ conn' \in [Client -> {"new", "open", "closed"}]
        /\ owed' \in [Client -> Int]
    BY <1>9, AnswerType DEF Queue, IInv, TypeOK
  <2>2. txn[c] \in Txn /\ cmd \in Command
    BY <1>9, WorkloadIsCommands DEF Queue, IInv, TypeOK
  <2>3. txn' \in [Client -> Txn \cup {None}]
    <3>1. [txn[c] EXCEPT !.queue = Append(@, cmd)] \in Txn
      BY <2>2 DEF Txn
    <3>2. [txn[c] EXCEPT !.dirty = TRUE] \in Txn
      BY <2>2 DEF Txn
    <3> QED
      BY <1>9, <3>1, <3>2 DEF Queue, IInv, TypeOK
  <2> QED
    BY <1>9, <2>1, <2>3, StillKeeps DEF Queue, IInv, TypeOK, LoopTypeOK
<1>10. ASSUME NEW c \in Client, NEW cmd \in Workload, Stateless(c, cmd)
       PROVE  IInv'
  <2> USE <1>10 DEF Stateless, Direct
  <2>1. /\ conn' \in [Client -> {"new", "open", "closed"}]
        /\ owed' \in [Client -> Int]
    BY AnswerType DEF IInv, TypeOK
  <2>2. WellFormed(db') /\ Shows(Popped(cmd))
    BY CommandShows, WorkloadIsCommands DEF IInv, TypeOK, LoopTypeOK
  <2>3. /\ fate' \in [Client -> [Key -> {"kept", "written", "changed"}]]
        /\ WatchedNotAhead'
        /\ Noticed'
    BY <2>2, RememberKeeps DEF RememberCommand, Popped
  <2> QED
    BY <2>1, <2>2, <2>3 DEF IInv, TypeOK, LoopTypeOK, WellFormed
<1>11. CASE ExecRuns
  <2> USE <1>11 DEF ExecRuns
  <2>1. Head(pending) \in Command /\ Tail(pending) \in Seq(Command)
    BY DEF IInv, TypeOK
  <2>2. WellFormed(db') /\ Shows(Popped(Head(pending)))
    BY <2>1, CommandShows DEF IInv, TypeOK, LoopTypeOK
  <2>3. /\ fate' \in [Client -> [Key -> {"kept", "written", "changed"}]]
        /\ WatchedNotAhead'
        /\ Noticed'
    BY <2>2, RememberKeeps DEF RememberCommand, Popped
  <2> QED
    BY <2>1, <2>2, <2>3 DEF IInv, TypeOK, LoopTypeOK, WellFormed
<1>12. CASE ExecEnds
  <2>1. running \in Client
    BY <1>12 DEF ExecEnds, Idle, IInv, TypeOK
  <2>2. /\ conn' \in [Client -> {"new", "open", "closed"}]
        /\ owed' \in [Client -> Int]
    BY <1>12, <2>1, WriteType DEF ExecEnds, IInv, TypeOK, LoopTypeOK
  <2> QED
    BY <1>12, <2>2, StillKeeps DEF ExecEnds, IInv, TypeOK, LoopTypeOK
<1>13. CASE Clock
  <2>1. WellFormed(db') /\ Shows({})
    BY <1>13, TickingShows DEF Clock, IInv, TypeOK, LoopTypeOK
  <2>2. /\ fate' \in [Client -> [Key -> {"kept", "written", "changed"}]]
        /\ WatchedNotAhead'
        /\ Noticed'
    BY <1>13, <2>1, RememberKeeps DEF Clock, Tick
  <2> QED
    BY <1>13, <2>1, <2>2 DEF Clock, Tick, IInv, TypeOK, LoopTypeOK, WellFormed
<1>14. CASE UNCHANGED vars
  BY <1>14 DEF vars, loopVars, txnVars, IInv, TypeOK, LoopTypeOK,
               WatchedNotAhead, Noticed
<1> QED
  BY <1>1, <1>2, <1>3, <1>4, <1>5, <1>6, <1>7, <1>8, <1>9, <1>10, <1>11, <1>12,
     <1>13, <1>14 DEF Next, EmptyRound, Ended

THEOREM Invariance == Spec => []IInv
BY InitIInv, NextIInv, PTL DEF Spec

(* The dicts of transactions and watched keys keep their types             *)
(* (connection_state.py:103-160, 240-285).                                 *)
THEOREM TypeCorrect == Spec => []TypeOK
<1>1. IInv => TypeOK
  BY DEF IInv
<1> QED
  BY <1>1, Invariance, PTL

(* No version falls below the one a client recorded, so equality of        *)
(* versions means that nothing moved them (storage.py:78-83).              *)
THEOREM WatchesStayBehind == Spec => []WatchedNotAhead
<1>1. IInv => WatchedNotAhead
  BY DEF IInv
<1> QED
  BY <1>1, Invariance, PTL

(* EXEC runs its queue only if no key it watches was changed since it was  *)
(* watched, but by a plain LPOP or RPOP, for any number of clients, keys   *)
(* and commands (connection_state.py:249-261).                             *)
THEOREM ExecIsGuarded == Spec => WatchGuards
<1> DEFINE Guarded(c) ==
      ExecBegins(c) => \A k \in Watches(c) : fate[c][k] # "changed"
<1>1. ASSUME IInv, NEW c \in Client
      PROVE  Guarded(c)
  <2> SUFFICES ASSUME ExecBegins(c), NEW k \in Watches(c), fate[c][k] = "changed"
               PROVE  FALSE
    OBVIOUS
  <2>1. up /\ k \in Key /\ watched[c][k] # None
    BY DEF ExecBegins, TakeTransaction, MaySend, Sends, Watches
  <2>2. GetVersion(db, now, k) = watched[c][k]
    BY DEF ExecBegins, Moved
  <2>3. GetVersion(db, now, k) > watched[c][k]
    BY <1>1, <2>1 DEF IInv, Noticed
  <2>4. GetVersion(db, now, k) \in Nat
    BY <1>1, <2>1, Purged DEF IInv
  <2> QED
    BY <2>2, <2>3, <2>4
<1>2. IInv /\ [Next]_vars => [\A c \in Client : Guarded(c)]_vars
  BY <1>1
<1> QED
  BY <1>2, Invariance, PTL DEF Spec, WatchGuards

-----------------------------------------------------------------------------
(* EXEC refuses with a cause.                                              *)

(* While the process runs, a key of which nothing was seen since it was    *)
(* watched still shows the version that was recorded.                      *)
Unmoved ==
  up => \A c \in Client, k \in Key :
          watched[c][k] # None /\ fate[c][k] = "kept"
            => GetVersion(db, now, k) = watched[c][k]

(* What is not seen of a key leaves its version alone.                     *)
StillWhereUnseen(seen) ==
  up' => \A k \in Key :
           Lookup(db', now', k) = Lookup(db, now, k) /\ k \notin seen
             => GetVersion(db', now', k) = GetVersion(db, now, k)

LEMMA RememberKeepsUnmoved ==
  ASSUME Unmoved, up' => up, NEW popped, NEW named, Remember(popped, named),
         StillWhereUnseen(popped \cup named),
         \A c \in Client, k \in Key :
           watched'[c][k] # None => watched'[c][k] = watched[c][k]
  PROVE  Unmoved'
<1> SUFFICES ASSUME up', NEW c \in Client, NEW k \in Key,
                    watched'[c][k] # None, fate'[c][k] = "kept"
             PROVE  GetVersion(db', now', k) = watched'[c][k]
  BY DEF Unmoved
<1>1. /\ fate[c][k] = "kept"
      /\ k \notin popped \cup named
      /\ Lookup(db', now', k) = Lookup(db, now, k)
  BY DEF Remember
<1>2. GetVersion(db', now', k) = GetVersion(db, now, k)
  BY <1>1 DEF StillWhereUnseen
<1>3. watched[c][k] # None /\ watched'[c][k] = watched[c][k]
  OBVIOUS
<1> QED
  BY <1>1, <1>2, <1>3 DEF Unmoved

LEMMA CommandIsStillWhereUnseen ==
  ASSUME WellFormed(db), now \in Nat, NEW cmd \in Command,
         db' = Dispatch(db, now, cmd).db,
         up' = (Dispatch(db, now, cmd).reply # Raise),
         now' = now, RememberCommand(cmd), Unmoved, up' => up,
         watched' = watched
  PROVE  Unmoved'
<1> DEFINE popped == IF PlainPop(cmd) THEN {cmd.key} ELSE {}
           named == IF cmd.op \in WriteCommands /\ Succeeds(db, now, cmd)
                      THEN {cmd.key} ELSE {}
<1>1. StillWhereUnseen(popped \cup named)
  BY OthersAreUnseen DEF StillWhereUnseen, Popped
<1>2. Remember(popped, named)
  BY DEF RememberCommand
<1> QED
  BY <1>1, <1>2, RememberKeepsUnmoved

LEMMA TickIsStillWhereUnseen ==
  ASSUME NEW d, WellFormed(d), NEW t \in Nat, NEW k \in Key,
         Lookup(d, t + 1, k) = Lookup(d, t, k)
  PROVE  GetVersion(d, t + 1, k) = GetVersion(d, t, k)
<1>1. d.expires[k] \in Int \cup {None} /\ d.versions[k] \in Nat
  BY DEF WellFormed, DB
<1>2. Expired(d, t, k) => Expired(d, t + 1, k)
  BY <1>1, SentinelsAreApart DEF Expired, Str
<1> QED
  BY <1>2, Purged

LEMMA NextUnmoved == IInv /\ Unmoved /\ [Next]_vars => Unmoved'
<1> SUFFICES ASSUME IInv, Unmoved, [Next]_vars
             PROVE  Unmoved'
  OBVIOUS
<1> USE DEF MaySend, Sends
<1>1. WellFormed(db) /\ db \in DB /\ now \in Nat
  BY DEF IInv, TypeOK, LoopTypeOK
<1>2. ASSUME UNCHANGED <<db, now, watched, fate>>, up' => up
      PROVE  Unmoved'
  BY <1>2 DEF Unmoved
<1>3. ASSUME NEW c \in Client, Loop(c)
      PROVE  Unmoved'
  BY <1>2, <1>3
     DEF Loop, Accept, Receive, HangUp, ProtocolError, ReaderRaises, EndOfBatch, txnVars
<1>4. ASSUME NEW c \in Client, Multi(c) \/ ExecWithoutMulti(c)
      PROVE  Unmoved'
  BY <1>2, <1>4 DEF Multi, ExecWithoutMulti, Refuse, txnVars
<1>5. ASSUME NEW c \in Client, Discard(c) \/ Unwatch(c)
      PROVE  Unmoved'
  <2>1. CASE Refuse(c)
    BY <1>2, <2>1 DEF Refuse, txnVars
  <2>2. CASE ~Refuse(c)
    <3>1. /\ UNCHANGED <<db, now, up>>
          /\ watched' = [watched EXCEPT ![c] = NoWatch]
          /\ Remember({}, {})
      BY <1>5, <2>2 DEF Discard, Unwatch
    <3>2. StillWhereUnseen({} \cup {})
      BY <3>1 DEF StillWhereUnseen
    <3>3. \A e \in Client, k \in Key :
            watched'[e][k] # None => watched'[e][k] = watched[e][k]
      BY <3>1 DEF IInv, TypeOK, NoWatch
    <3> QED
      BY <3>1, <3>2, <3>3, RememberKeepsUnmoved
  <2> QED
    BY <2>1, <2>2
<1>6. ASSUME NEW c \in Client, TakeTransaction(c)
      PROVE  Unmoved'
  <2>1. StillWhereUnseen({} \cup {})
    <3>1. PICK checked : db' = PurgeKeys(db, now, checked)
      BY <1>6 DEF TakeTransaction
    <3> QED
      BY <1>1, <1>6, <3>1, PurgeKeysShows DEF TakeTransaction, StillWhereUnseen
  <2>2. \A e \in Client, k \in Key :
          watched'[e][k] # None => watched'[e][k] = watched[e][k]
    BY <1>6 DEF TakeTransaction, IInv, TypeOK, NoWatch
  <2> QED
    BY <1>6, <2>1, <2>2, RememberKeepsUnmoved DEF TakeTransaction
<1>7. ASSUME NEW c \in Client, NEW keys \in WatchLists, Watch(c, keys)
      PROVE  Unmoved'
  <2>1. CASE txn[c] # None
    BY <1>2, <1>7, <2>1 DEF Watch, Refuse, txnVars
  <2>2. CASE txn[c] = None
    <3>1. /\ db' = PurgeKeys(db, now, keys)
          /\ UNCHANGED <<now, up>>
          /\ watched' = [watched EXCEPT ![c] =
               [k \in Key |-> IF k \in keys THEN GetVersion(db, now, k) ELSE @[k]]]
          /\ fate' = [fate EXCEPT ![c] = [k \in Key |-> IF k \in keys THEN "kept" ELSE @[k]]]
      BY <1>7, <2>2 DEF Watch
    <3>2. \A k \in Key : GetVersion(db', now', k) = GetVersion(db, now, k)
      BY <1>1, <3>1, PurgeKeysShows
    <3>3. ASSUME NEW e \in Client, NEW k \in Key
          PROVE  \/ watched'[e][k] = GetVersion(db, now, k)
                 \/ watched'[e][k] = watched[e][k] /\ fate'[e][k] = fate[e][k]
      BY <3>1 DEF IInv, TypeOK
    <3> QED
      BY <3>1, <3>2, <3>3 DEF Unmoved
  <2> QED
    BY <2>1, <2>2
<1>8. ASSUME NEW c \in Client, NEW cmd \in Workload, Queue(c, cmd)
      PROVE  Unmoved'
  BY <1>2, <1>8 DEF Queue
<1>9. ASSUME NEW c \in Client, NEW cmd \in Workload, Stateless(c, cmd)
      PROVE  Unmoved'
  BY <1>1, <1>9, CommandIsStillWhereUnseen, WorkloadIsCommands DEF Stateless, Direct
<1>10. CASE ExecRuns
  <2>1. Head(pending) \in Command
    BY <1>10 DEF ExecRuns, IInv, TypeOK
  <2> QED
    BY <1>1, <1>10, <2>1, CommandIsStillWhereUnseen DEF ExecRuns
<1>11. CASE ExecEnds
  BY <1>2, <1>11 DEF ExecEnds
<1>12. CASE Clock
  <2>1. StillWhereUnseen({} \cup {})
    BY <1>1, <1>12, TickIsStillWhereUnseen DEF Clock, Tick, StillWhereUnseen
  <2> QED
    BY <1>12, <2>1, RememberKeepsUnmoved DEF Clock, Tick
<1>13. CASE UNCHANGED vars
  BY <1>2, <1>13 DEF vars, loopVars, txnVars
<1> QED
  BY <1>3, <1>4, <1>5, <1>6, <1>7, <1>8, <1>9, <1>10, <1>11, <1>12, <1>13
     DEF Next, ExecDirty, ExecInvalidated, ExecBegins, EmptyRound, Ended

(* EXEC refuses only if a successful write named a key it watches, or the  *)
(* key expired (connection_state.py:249-261).                              *)
THEOREM RefusalsHaveCause == Spec => AbortsHaveCause
<1> DEFINE Caused(c) ==
      ExecInvalidated(c) => \E k \in Watches(c) : fate[c][k] # "kept"
<1>1. Init => Unmoved
  BY DEF Init, NoWatch, Unmoved
<1>2. ASSUME Unmoved, NEW c \in Client
      PROVE  Caused(c)
  <2> SUFFICES ASSUME ExecInvalidated(c)
               PROVE  \E k \in Watches(c) : fate[c][k] # "kept"
    OBVIOUS
  <2>1. PICK k \in Watches(c) : GetVersion(db, now, k) # watched[c][k]
    BY DEF ExecInvalidated, Moved
  <2>2. up /\ k \in Key /\ watched[c][k] # None
    BY DEF ExecInvalidated, TakeTransaction, MaySend, Sends, Watches
  <2> QED
    BY <1>2, <2>1, <2>2 DEF Unmoved
<1>3. Unmoved /\ [Next]_vars => [\A c \in Client : Caused(c)]_vars
  BY <1>2
<1> QED
  BY <1>1, <1>3, NextUnmoved, Invariance, PTL DEF Spec, AbortsHaveCause

-----------------------------------------------------------------------------
(* The end of a transaction, and its replies.                              *)

(* A transaction that ends takes the watches of its client with it         *)
(* (connection_state.py:107-115, 248-261).                                 *)
THEOREM WatchesEnd == Spec => WatchEndsWithTransaction
<1> DEFINE Ends(c) == txn[c] # None /\ txn'[c] = None => watched'[c] = NoWatch
<1>1. ASSUME IInv, [Next]_vars, NEW c \in Client
      PROVE  Ends(c)
  <2> SUFFICES ASSUME txn[c] # None, txn'[c] = None
               PROVE  watched'[c] = NoWatch
    OBVIOUS
  <2>1. txn \in [Client -> Txn \cup {None}] /\ watched \in [Client -> [Key -> Nat \cup {None}]]
    BY <1>1 DEF IInv, TypeOK
  <2>2. ASSUME txn' = txn
        PROVE  FALSE
    BY <2>2
  <2>3. ASSUME NEW e \in Client, txn' = [txn EXCEPT ![e] = None],
               watched' = [watched EXCEPT ![e] = NoWatch]
        PROVE  watched'[c] = NoWatch
    BY <2>1, <2>3
  <2>4. ASSUME NEW e \in Client, Multi(e)
        PROVE  FALSE
    BY <2>1, <2>2, <2>4 DEF Multi, Refuse, txnVars
  <2>5. ASSUME NEW e \in Client, NEW cmd \in Workload, Queue(e, cmd)
        PROVE  FALSE
    <3>1. txn'[e] \in Txn /\ \A f \in Client : f # e => txn'[f] = txn[f]
      <4>1. txn[e] \in Txn /\ cmd \in Command
        BY <2>1, <2>5, WorkloadIsCommands DEF Queue
      <4>2. [txn[e] EXCEPT !.queue = Append(@, cmd)] \in Txn
        BY <4>1 DEF Txn
      <4>3. [txn[e] EXCEPT !.dirty = TRUE] \in Txn
        BY <4>1 DEF Txn
      <4> QED
        BY <2>1, <2>5, <4>2, <4>3 DEF Queue
    <3> QED
      BY <3>1, NoneIsNoTransaction
  <2>6. ASSUME NEW e \in Client, Discard(e)
        PROVE  watched'[c] = NoWatch
    BY <2>2, <2>3, <2>6 DEF Discard, Refuse, txnVars
  <2> QED
    BY <1>1, <2>2, <2>3, <2>4, <2>5, <2>6
       DEF Next, Loop, Unwatch, ExecWithoutMulti, Refuse, ExecDirty, ExecInvalidated,
           ExecBegins, TakeTransaction, Watch, Stateless, ExecRuns, ExecEnds, Clock,
           EmptyRound, Ended, vars, txnVars
<1>2. IInv /\ [Next]_vars => [\A c \in Client : Ends(c)]_vars
  BY <1>1
<1> QED
  BY <1>2, Invariance, PTL DEF Spec, WatchEndsWithTransaction

LEMMA NextOwed == IInv /\ OneReplyPerCommand /\ [Next]_vars => OneReplyPerCommand'
<1> SUFFICES ASSUME IInv, OneReplyPerCommand, [Next]_vars, up'
             PROVE  \A c \in Client : owed'[c] = IF running' = c THEN 1 ELSE 0
  BY DEF OneReplyPerCommand
<1> USE DEF MaySend, Sends, Idle
<1>1. /\ owed \in [Client -> Int]
      /\ running \in Client \cup {None}
      /\ None \notin Client
  BY NoneIsNoClient DEF IInv, TypeOK, LoopTypeOK
<1>2. up => \A c \in Client : owed[c] = IF running = c THEN 1 ELSE 0
  BY DEF OneReplyPerCommand
<1>3. ASSUME up, UNCHANGED <<owed, running>>
      PROVE  \A c \in Client : owed'[c] = IF running' = c THEN 1 ELSE 0
  BY <1>2, <1>3
<1>4. ASSUME up, NEW c \in Client, Answer(c, 1), running' = running
      PROVE  \A e \in Client : owed'[e] = IF running' = e THEN 1 ELSE 0
  <2>1. owed' = owed
    BY <1>1, <1>4 DEF Answer
  <2> QED
    BY <1>3, <1>4, <2>1
<1>5. ASSUME NEW c \in Client,
             Multi(c) \/ Discard(c) \/ Unwatch(c) \/ ExecWithoutMulti(c)
               \/ ExecDirty(c) \/ ExecInvalidated(c)
      PROVE  \A e \in Client : owed'[e] = IF running' = e THEN 1 ELSE 0
  BY <1>4, <1>5 DEF Multi, Discard, Unwatch, ExecWithoutMulti, ExecDirty, ExecInvalidated,
                    TakeTransaction, Refuse, txnVars
<1>6. ASSUME NEW c \in Client, ExecBegins(c)
      PROVE  \A e \in Client : owed'[e] = IF running' = e THEN 1 ELSE 0
  <2>1. /\ owed' = [owed EXCEPT ![c] = @ + 1 - 0]
        /\ running' = c /\ up /\ running = None
    BY <1>6 DEF ExecBegins, TakeTransaction, Answer
  <2> QED
    BY <1>1, <1>2, <2>1
<1>7. ASSUME NEW c \in Client, NEW keys \in WatchLists, Watch(c, keys)
      PROVE  \A e \in Client : owed'[e] = IF running' = e THEN 1 ELSE 0
  BY <1>4, <1>7 DEF Watch, Refuse, txnVars
<1>8. ASSUME NEW c \in Client, NEW cmd \in Workload, Queue(c, cmd) \/ Stateless(c, cmd)
      PROVE  \A e \in Client : owed'[e] = IF running' = e THEN 1 ELSE 0
  BY <1>4, <1>8 DEF Queue, Stateless, Direct
<1>9. CASE ExecEnds
  <2>1. /\ owed' = [owed EXCEPT ![running] = @ - 1]
        /\ running' = None /\ up /\ running \in Client
    BY <1>1, <1>9 DEF ExecEnds
  <2> QED
    BY <1>1, <1>2, <2>1
<1>10. ASSUME NEW c \in Client, Loop(c)
       PROVE  \A e \in Client : owed'[e] = IF running' = e THEN 1 ELSE 0
  BY <1>3, <1>10
     DEF Loop, Accept, Receive, HangUp, ProtocolError, ReaderRaises, EndOfBatch, txnVars
<1>11. CASE ExecRuns \/ Clock \/ EmptyRound \/ Ended \/ UNCHANGED vars
  BY <1>3, <1>11 DEF ExecRuns, Clock, Tick, EmptyRound, Ended, vars, loopVars, txnVars
<1> QED
  BY <1>5, <1>6, <1>7, <1>8, <1>9, <1>10, <1>11 DEF Next

(* Every command is answered once, and EXEC once for its whole queue       *)
(* (connection_state.py:103-160, 240-285).                                 *)
THEOREM CommandsAreAnsweredOnce == Spec => []OneReplyPerCommand
<1>1. Init => OneReplyPerCommand
  BY NoneIsNoClient DEF Init, LoopInit, OneReplyPerCommand
<1> QED
  BY <1>1, NextOwed, Invariance, PTL DEF Spec

=============================================================================
