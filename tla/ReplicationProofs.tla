-------------------------- MODULE ReplicationProofs --------------------------
(***************************************************************************)
(* Nothing passes the password but AUTH, the replica rebuilds what the     *)
(* master sends it, and both count the same bytes: for every set of        *)
(* connections, channels, keys and commands.                               *)
(*                                                                         *)
(* The gate's invariant is inductive as it stands, but for the type of     *)
(* subscriptions: an unauthenticated connection can only be refused, and   *)
(* UNSUBSCRIBE, the one handler that edits an entry without making it, is  *)
(* reached after the same test.                                            *)
(*                                                                         *)
(* What the replica holds is settled before it has run anything: the log   *)
(* of what was sent says, of each command and each key it leaves clean,    *)
(* what running it makes of what was rebuilt before (LogHolds).  The       *)
(* messages on the way are that log from the first command not yet run,    *)
(* behind what is left of the handshake (LinkHolds), so that the replica   *)
(* follows the log, whatever the master has become since (ReplicaHolds).   *)
(***************************************************************************)
EXTENDS Replication, KeyspaceProofs

SubscriptionDicts == [Client -> (SUBSET Channel) \cup {None}]

IInv ==
  /\ subscriptions \in SubscriptionDicts
  /\ GateHolds

(* A command that is handled was let in.                                   *)
LEMMA HandledIsAuthenticated ==
  ASSUME NEW c, NEW name, name # "AUTH", Handles(c, name), requirepass
  PROVE  c \in authenticated
BY DEF Handles, Passes

(* Steps that touch none of the gate's variables.                          *)
LEMMA GateAlone ==
  ASSUME IInv, UNCHANGED <<requirepass, authenticated, subscriptions, admitted, replicas>>
  PROVE  IInv'
BY DEF IInv, GateHolds

-----------------------------------------------------------------------------
LEMMA InitIInv == Init => IInv
BY DEF Init, SessionsInit, IInv, GateHolds, SubscriptionDicts

LEMMA AuthKeeps ==
  ASSUME IInv, NEW c \in Client, Auth(c), UNCHANGED replicas
  PROVE  IInv'
BY DEF Auth, IInv, GateHolds

LEMMA SubscribeKeeps ==
  ASSUME IInv, NEW c \in Client, NEW S \in SUBSET Channel, Subscribe(c, S),
         UNCHANGED replicas
  PROVE  IInv'
<1>1. UNCHANGED <<requirepass, authenticated, admitted>>
  BY DEF Subscribe
<1>2. requirepass => c \in authenticated
  BY HandledIsAuthenticated DEF Subscribe
<1>3. /\ subscriptions' \in SubscriptionDicts
      /\ \A d \in Client : d # c => subscriptions'[d] = subscriptions[d]
  BY DEF Subscribe, IInv, SubscriptionDicts
<1> QED
  BY <1>1, <1>2, <1>3 DEF IInv, GateHolds

LEMMA UnsubscribeKeeps ==
  ASSUME IInv, NEW c \in Client, NEW S \in SUBSET Channel, Unsubscribe(c, S),
         UNCHANGED replicas
  PROVE  IInv'
<1>1. UNCHANGED <<requirepass, authenticated, admitted>>
  BY DEF Unsubscribe
<1>2. subscriptions' = IF subscriptions[c] = None THEN subscriptions
        ELSE [subscriptions EXCEPT ![c] = IF S = {} THEN {} ELSE @ \ S]
  BY DEF Unsubscribe
<1>3. /\ subscriptions' \in SubscriptionDicts
      /\ \A d \in Client : subscriptions[d] = None => subscriptions'[d] = None
  BY <1>2 DEF IInv, SubscriptionDicts
<1> QED
  BY <1>1, <1>3 DEF IInv, GateHolds

LEMMA SessionKeeps ==
  ASSUME IInv, NEW c \in Client, Session(c)
  PROVE  IInv'
<1>1. UNCHANGED replicas
  BY DEF Session, masterVars
<1>2. CASE AnswerOnly(c)
  BY <1>1, <1>2, GateAlone DEF AnswerOnly, sessionVars
<1>3. CASE Auth(c)
  BY <1>1, <1>3, AuthKeeps
<1>4. ASSUME NEW S \in SUBSET Channel, Subscribe(c, S) \/ Unsubscribe(c, S)
      PROVE  IInv'
  BY <1>1, <1>4, SubscribeKeeps, UnsubscribeKeeps
<1>5. ASSUME NEW channel \in Channel, NEW errors \in {0, 1}, Publish(c, channel, errors)
      PROVE  IInv'
  BY <1>1, <1>5, GateAlone DEF Publish, sessionVars
<1>6. CASE PublishRaises(c)
  BY <1>1, <1>6, GateAlone DEF PublishRaises, sessionVars
<1> QED
  BY <1>2, <1>3, <1>4, <1>5, <1>6 DEF Session, SessionStep

(* The command table has no AUTH, so a dispatched command was let in.      *)
LEMMA StatelessKeeps ==
  ASSUME IInv, NEW c \in Client, NEW cmd \in Command, Stateless(c, cmd)
  PROVE  IInv'
<1>1. UNCHANGED <<requirepass, authenticated, subscriptions, replicas>>
  BY DEF Stateless
<1>2. admitted' = admitted \cup {c}
  BY DEF Stateless
<1>3. cmd.op # "AUTH"
  BY DEF Command, Keyed
<1>4. requirepass => c \in authenticated
  BY <1>3, HandledIsAuthenticated DEF Stateless
<1> QED
  BY <1>1, <1>2, <1>4 DEF IInv, GateHolds

LEMMA ExecuteOnlyKeeps ==
  ASSUME IInv, NEW c \in Client, NEW cmd, ExecuteOnly(c, cmd)
  PROVE  IInv'
<1>1. /\ UNCHANGED <<requirepass, authenticated, subscriptions, replicas>>
      /\ admitted' = admitted \cup {c}
  BY DEF ExecuteOnly
<1>2. requirepass => c \in authenticated
  BY HandledIsAuthenticated DEF ExecuteOnly
<1> QED
  BY <1>1, <1>2 DEF IInv, GateHolds

(* PSYNC makes a replica of a connection that has passed only.             *)
LEMMA HandshakeKeeps ==
  ASSUME IInv, Handshake
  PROVE  IInv'
<1>1. UNCHANGED sessionVars
  BY DEF Handshake
<1>2. \/ Handles(link, "PSYNC") /\ replicas' = replicas \cup {link}
      \/ UNCHANGED replicas
  BY DEF Handshake
<1>3. Handles(link, "PSYNC") /\ requirepass => link \in authenticated
  BY HandledIsAuthenticated
<1> QED
  BY <1>1, <1>2, <1>3 DEF IInv, GateHolds, sessionVars

LEMMA NextIInv == IInv /\ [Next]_vars => IInv'
<1> SUFFICES ASSUME IInv, [Next]_vars
             PROVE  IInv'
  OBVIOUS
<1> USE DEF sessionVars, masterVars
<1>1. ASSUME NEW c \in Client, Closing(c)
      PROVE  IInv'
  BY <1>1, GateAlone DEF Closing
<1>2. ASSUME NEW c \in Client, Loop(c)
      PROVE  IInv'
  BY <1>2, GateAlone DEF Loop
<1>3. ASSUME NEW c \in Links, ReplicaStarts(c)
      PROVE  IInv'
  BY <1>3, GateAlone DEF ReplicaStarts
<1>4. ASSUME NEW c \in Client, Session(c)
      PROVE  IInv'
  BY <1>4, SessionKeeps
<1>5. ASSUME NEW c \in Client, NEW cmd \in Workload, Stateless(c, cmd)
      PROVE  IInv'
  BY <1>5, StatelessKeeps, WorkloadIsCommands
<1>6. CASE Handshake
  BY <1>6, HandshakeKeeps
<1>7. CASE ReplicaReads
  BY <1>7, GateAlone DEF ReplicaReads
<1>8. CASE ReplicaApplies
  BY <1>8, GateAlone DEF ReplicaApplies
<1>9. CASE ReplicaEnds
  BY <1>9, GateAlone DEF ReplicaEnds
<1>10. ASSUME NEW cmd \in Workload, ReplicaServes(cmd)
       PROVE  IInv'
  BY <1>10, GateAlone DEF ReplicaServes
<1>11. CASE Clock
  BY <1>11, GateAlone DEF Clock
<1>12. CASE UNCHANGED vars
  BY <1>12, GateAlone DEF vars
<1>13. ASSUME NEW c \in Client, NEW cmd \in Workload, ExecuteOnly(c, cmd)
       PROVE  IInv'
  BY <1>13, ExecuteOnlyKeeps
<1> QED
  BY <1>1, <1>2, <1>3, <1>4, <1>5, <1>6, <1>7, <1>8, <1>9, <1>10, <1>11, <1>12, <1>13
     DEF Next, Idles

THEOREM Invariance == Spec => []IInv
BY InitIInv, NextIInv, PTL DEF Spec

(* Where a password is set, a connection that has not given it changes no  *)
(* data, hears no channel and is sent no command, whatever other           *)
(* connections and replicas do (connection_state.py:77-88,                 *)
(* server.py:295-307).                                                     *)
THEOREM PasswordIsNeeded == Spec => []GateHolds
<1>1. IInv => GateHolds
  BY DEF IInv
<1> QED
  BY <1>1, Invariance, PTL

-----------------------------------------------------------------------------
(* The loop, and what the replica's link may hold.                         *)

Message == Line \cup [cmd : Workload]
Record == [cmd : Workload, data : [Key -> Value \cup {None}], clean : SUBSET Key]

(* A dict of subscriptions has as many entries as clients have subscribed. *)
Hearers == {c \in Client : subscriptions[c] # None}

LoopHolds ==
  /\ LoopTypeOK
  /\ WellFormed(db)
  /\ requirepass \in BOOLEAN
  /\ authenticated \subseteq Client /\ admitted \subseteq Client
  /\ IsFiniteSet(Hearers)

(* Until the master has answered PSYNC there is one line on the way, and   *)
(* only if it has been asked for; no line follows the one that was taken   *)
(* for FULLRESYNC.                                                         *)
Waits ==
  /\ stage < Streaming
  /\ Len(flight) <= 1
  /\ \A i \in 1..Len(flight) : flight[i] \in Line
  /\ asked \/ stage \in {Off, 5} => flight = <<>>

(* Afterwards, what is left of the handshake and then the commands sent,   *)
(* from the first that the replica has not run; all of them, while the     *)
(* connection is open.                                                     *)
Sent ==
  /\ stage \in 4..Streaming
  /\ ~asked
  /\ Len(flight) + applied + stage <= Len(shipped) + Streaming
  /\ conn[link] = "open" => Len(flight) + applied + stage = Len(shipped) + Streaming
  /\ \A i \in 1..Len(flight) :
       IF i + stage <= Streaming THEN flight[i] \in Line
       ELSE flight[i] = [cmd |-> shipped[applied + i + stage - Streaming].cmd]

LinkHolds ==
  /\ replicas \subseteq Links
  /\ \A c \in replicas : conn[c] # "new"
  /\ link \in Links \cup {None}
  /\ link # None => conn[link] # "new"
  /\ stage \in Off..Streaming
  /\ (stage = Off) = (link = None)
  /\ asked \in BOOLEAN
  /\ asked => stage \in 1..4
  /\ flight \in Seq(Message)
  /\ stuck \in 0..Len(flight)
  /\ shipped \in Seq(Record)
  /\ clean \subseteq Key
  /\ applied \in 0..Len(shipped)
  /\ stage # Streaming => applied = 0 /\ roffset = 0 /\ rdb = EmptyDB /\ stray = {}
  /\ IF link \in replicas THEN Sent ELSE Waits

-----------------------------------------------------------------------------
(* What the commands sent rebuild.                                         *)

(* The keys rebuilt by the first n commands, and their values.             *)
Rebuilt(n) == IF n = 0 THEN Key ELSE shipped[n].clean
Was(n, k) == IF n = 0 THEN None ELSE shipped[n].data[k]

LogHolds ==
  \A n \in 1..Len(shipped) : \A k \in shipped[n].clean :
    IF Settles(shipped[n].cmd) /\ shipped[n].cmd.key = k
      THEN shipped[n].data[k] = SettledAs(shipped[n].cmd)
      ELSE /\ k \in Rebuilt(n - 1)
           /\ Rebuilds(Was(n - 1, k), shipped[n].cmd, shipped[n].data[k], k)

(* A running master holds what the commands sent so far have rebuilt.      *)
MasterHolds ==
  up => \A k \in clean :
    /\ db.expires[k] = None
    /\ replicas # {} =>
         k \in Rebuilt(Len(shipped)) /\ db.data[k] = Was(Len(shipped), k)

(* So does the replica with the commands it has run.                       *)
ReplicaHolds ==
  /\ WellFormed(rdb)
  /\ stray \subseteq Key
  /\ \A k \in Rebuilt(applied) \ stray :
       rdb.expires[k] = None /\ rdb.data[k] = Was(applied, k)

OffsetsHold ==
  /\ moffset \in Nat /\ roffset \in Nat /\ base \in 0..moffset
  /\ OffsetsAgree

-----------------------------------------------------------------------------
(* The loop's types.                                                       *)

(* Connections are closed, and nothing else happens to them.               *)
Drops ==
  /\ conn' \in [Client -> {"new", "open", "closed"}]
  /\ \A c \in Client : conn'[c] \in {conn[c], "closed"}

LEMMA WriteDrops ==
  ASSUME LoopHolds, NEW S, Write(S)
  PROVE  Drops
BY DEF LoopHolds, LoopTypeOK, Write, Drops

LEMMA AnswerDrops ==
  ASSUME LoopHolds, NEW c \in Client, NEW n \in Int, Answer(c, n)
  PROVE  Drops /\ owed' \in [Client -> Int]
BY WriteDrops DEF Answer, LoopHolds, LoopTypeOK, Drops

LEMMA InitLoop == Init => LoopHolds
<1> SUFFICES ASSUME Init PROVE LoopHolds
  OBVIOUS
<1>1. LoopInit
  BY DEF Init, SessionsInit
<1>2. WellFormed(db)
  BY <1>1, EmptyIsWellFormed DEF LoopInit
<1>3. LoopTypeOK
  BY <1>1, <1>2 DEF LoopInit, LoopTypeOK, WellFormed
<1>4. Hearers = {}
  BY DEF Init, SessionsInit, Hearers
<1> QED
  BY <1>2, <1>3, <1>4, FS_EmptySet DEF Init, SessionsInit, LoopHolds

(* How many replies SUBSCRIBE, UNSUBSCRIBE and PUBLISH write.              *)
LEMMA RepliesAreCounted ==
  ASSUME IInv, LoopHolds
  PROVE  /\ \A S \in SUBSET Channel : IsFiniteSet(S) /\ Cardinality(S) \in Nat
         /\ \A c \in Client : subscriptions[c] # None => subscriptions[c] \in SUBSET Channel
         /\ Cardinality(Hearers) \in Nat
BY ChannelsAreFinite, FS_Subset, FS_CardinalityType DEF IInv, SubscriptionDicts, LoopHolds

LEMMA SubscribeTypes ==
  ASSUME IInv, LoopHolds, NEW c \in Client, NEW S \in SUBSET Channel,
         Subscribe(c, S) \/ Unsubscribe(c, S)
  PROVE  LoopHolds' /\ Drops
<1>1. CASE Subscribe(c, S)
  <2>1. Cardinality(S) \in Int
    BY RepliesAreCounted
  <2>2. Drops /\ owed' \in [Client -> Int]
    BY <1>1, <2>1, AnswerDrops DEF Subscribe
  <2>3. Hearers' \subseteq Hearers \cup {c}
    BY <1>1 DEF Subscribe, Hearers, IInv, SubscriptionDicts
  <2>4. IsFiniteSet(Hearers \cup {c})
    BY FS_AddElement DEF LoopHolds
  <2>5. IsFiniteSet(Hearers')
    BY <2>3, <2>4, FS_Subset
  <2>6. UNCHANGED <<db, now, turn, requirepass, authenticated, admitted>> /\ up' \in BOOLEAN
    BY <1>1 DEF Subscribe
  <2> QED
    BY <2>2, <2>5, <2>6 DEF LoopHolds, LoopTypeOK, Drops
<1>2. CASE Unsubscribe(c, S)
  <2> DEFINE own == IF subscriptions[c] = None THEN {} ELSE subscriptions[c]
             told == IF S = {} THEN own ELSE S
  <2>1. Cardinality(told) \in Int
    BY RepliesAreCounted
  <2>2. Answer(c, Cardinality(told))
    BY <1>2 DEF Unsubscribe
  <2> HIDE DEF told
  <2>3. Drops /\ owed' \in [Client -> Int]
    BY <2>1, <2>2, AnswerDrops
  <2>4. Hearers' \subseteq Hearers
    BY <1>2 DEF Unsubscribe, Hearers, IInv, SubscriptionDicts
  <2>5. IsFiniteSet(Hearers')
    BY <2>4, FS_Subset DEF LoopHolds
  <2>6. UNCHANGED <<db, now, up, turn, requirepass, authenticated, admitted>>
    BY <1>2 DEF Unsubscribe
  <2> QED
    BY <2>3, <2>5, <2>6 DEF LoopHolds, LoopTypeOK, Drops
<1> QED
  BY <1>1, <1>2

LEMMA SessionTypes ==
  ASSUME IInv, LoopHolds, NEW c \in Client, SessionStep(c)
  PROVE  LoopHolds' /\ Drops
<1>1. CASE AnswerOnly(c)
  <2>1. Drops /\ owed' \in [Client -> Int]
    BY <1>1, AnswerDrops DEF AnswerOnly
  <2>2. UNCHANGED <<db, now, up, turn, requirepass, authenticated, admitted, subscriptions>>
    BY <1>1 DEF AnswerOnly, sessionVars
  <2> QED
    BY <2>1, <2>2 DEF LoopHolds, LoopTypeOK, Drops, Hearers
<1>2. CASE Auth(c)
  <2>1. Drops /\ owed' \in [Client -> Int]
    BY <1>2, AnswerDrops DEF Auth
  <2>2. /\ UNCHANGED <<db, now, up, turn, requirepass, admitted, subscriptions>>
        /\ authenticated' = authenticated \cup {c}
    BY <1>2 DEF Auth
  <2> QED
    BY <2>1, <2>2 DEF LoopHolds, LoopTypeOK, Drops, Hearers
<1>3. ASSUME NEW S \in SUBSET Channel, Subscribe(c, S) \/ Unsubscribe(c, S)
      PROVE  LoopHolds' /\ Drops
  BY <1>3, SubscribeTypes
<1>4. ASSUME NEW channel \in Channel, NEW errors \in {0, 1}, Publish(c, channel, errors)
      PROVE  LoopHolds' /\ Drops
  <2> DEFINE n == Cardinality(Hearers) + errors
  <2>1. n \in Int
    BY RepliesAreCounted
  <2>2. /\ owed' = [owed EXCEPT ![c] = @ + 1 - n]
        /\ \E R : Write(R)
    BY <1>4 DEF Publish, Hearers
  <2>3. owed' \in [Client -> Int]
    <3> HIDE DEF n
    <3> QED
      BY <2>1, <2>2 DEF LoopHolds, LoopTypeOK
  <2>4. Drops
    BY <2>2, WriteDrops
  <2>5. UNCHANGED <<db, now, up, turn, requirepass, authenticated, admitted, subscriptions>>
    BY <1>4 DEF Publish, sessionVars
  <2> QED
    BY <2>3, <2>4, <2>5 DEF LoopHolds, LoopTypeOK, Drops, Hearers
<1>5. CASE PublishRaises(c)
  <2>1. Drops /\ owed' \in [Client -> Int]
    BY <1>5, AnswerDrops DEF PublishRaises
  <2>2. /\ UNCHANGED <<db, now, turn, requirepass, authenticated, admitted, subscriptions>>
        /\ up' \in BOOLEAN
    BY <1>5 DEF PublishRaises, sessionVars
  <2> QED
    BY <2>1, <2>2 DEF LoopHolds, LoopTypeOK, Drops, Hearers
<1> QED
  BY <1>1, <1>2, <1>3, <1>4, <1>5 DEF SessionStep

LEMMA StatelessTypes ==
  ASSUME LoopHolds, NEW c \in Client, NEW cmd \in Workload, Stateless(c, cmd)
  PROVE  LoopHolds' /\ Drops
<1>1. db' = Dispatch(db, now, cmd).db /\ now \in Nat /\ cmd \in Command
  BY WorkloadIsCommands DEF Stateless, LoopHolds, LoopTypeOK
<1>2. WellFormed(db')
  BY <1>1, DispatchKeeps DEF LoopHolds
<1>3. Drops
  BY WriteDrops DEF Stateless, Send
<1>4. up' \in BOOLEAN
  BY DEF Stateless
<1>5. owed' = owed \/ owed' = [owed EXCEPT ![c] = @ + 1]
  BY DEF Stateless, LoopHolds, LoopTypeOK
<1>6. owed' \in [Client -> Int]
  BY <1>5 DEF LoopHolds, LoopTypeOK
<1>7. /\ UNCHANGED <<now, turn, requirepass, authenticated, subscriptions>>
      /\ admitted' = admitted \cup {c}
  BY DEF Stateless
<1> QED
  BY <1>2, <1>3, <1>4, <1>6, <1>7 DEF LoopHolds, LoopTypeOK, Drops, Hearers, WellFormed

LEMMA ExecuteOnlyTypes ==
  ASSUME LoopHolds, NEW c \in Client, NEW cmd \in Workload, ExecuteOnly(c, cmd)
  PROVE  LoopHolds' /\ Drops
<1>1. db' = Dispatch(db, now, cmd).db /\ now \in Nat /\ cmd \in Command
  BY WorkloadIsCommands DEF ExecuteOnly, LoopHolds, LoopTypeOK
<1>2. WellFormed(db')
  BY <1>1, DispatchKeeps DEF LoopHolds
<1>3. Drops
  BY WriteDrops DEF ExecuteOnly, Send
<1>4. up' \in BOOLEAN
  BY DEF ExecuteOnly
<1>5. owed' = owed \/ owed' = [owed EXCEPT ![c] = @ + 1]
  BY DEF ExecuteOnly, LoopHolds, LoopTypeOK
<1>6. owed' \in [Client -> Int]
  BY <1>5 DEF LoopHolds, LoopTypeOK
<1>7. /\ UNCHANGED <<now, turn, requirepass, authenticated, subscriptions>>
      /\ admitted' = admitted \cup {c}
  BY DEF ExecuteOnly
<1> QED
  BY <1>2, <1>3, <1>4, <1>6, <1>7 DEF LoopHolds, LoopTypeOK, Drops, Hearers, WellFormed

LEMMA NextLoop == IInv /\ LoopHolds /\ [Next]_vars => LoopHolds'
<1> SUFFICES ASSUME IInv, LoopHolds, [Next]_vars
             PROVE  LoopHolds'
  OBVIOUS
<1> USE DEF sessionVars
<1>1. ASSUME UNCHANGED <<loopVars, sessionVars>>
      PROVE  LoopHolds'
  BY <1>1 DEF LoopHolds, LoopTypeOK, loopVars, Hearers
<1>2. ASSUME NEW c \in Client, Closing(c) \/ Loop(c) \/ ReplicaStarts(c)
      PROVE  LoopHolds'
  <2> USE DEF Closing, HangUp, Loop, Accept, ProtocolError, ReaderRaises, Receive,
              EndOfBatch, ReplicaStarts
  <2>1. /\ UNCHANGED <<db, now, owed, requirepass, authenticated, admitted, subscriptions>>
        /\ up' \in {up, FALSE}
    BY <1>2
  <2>2. turn' \in Client \cup {None}
    BY <1>2 DEF LoopHolds, LoopTypeOK
  <2>3. conn' \in [Client -> {"new", "open", "closed"}]
    BY <1>2 DEF LoopHolds, LoopTypeOK
  <2> QED
    BY <2>1, <2>2, <2>3 DEF LoopHolds, LoopTypeOK, Hearers
<1>3. ASSUME NEW c \in Client, Session(c)
      PROVE  LoopHolds'
  BY <1>3, SessionTypes DEF Session
<1>4. ASSUME NEW c \in Client, NEW cmd \in Workload, Stateless(c, cmd)
      PROVE  LoopHolds'
  BY <1>4, StatelessTypes
<1>5. CASE Handshake
  <2>1. Drops
    BY <1>5, WriteDrops DEF Handshake, Send
  <2>2. UNCHANGED <<db, now, up, turn, owed, sessionVars>>
    BY <1>5 DEF Handshake
  <2> QED
    BY <2>1, <2>2 DEF LoopHolds, LoopTypeOK, Drops, Hearers
<1>6. CASE ReplicaReads \/ ReplicaApplies \/ ReplicaEnds
  BY <1>1, <1>6 DEF ReplicaReads, ReplicaApplies, ReplicaEnds
<1>7. ASSUME NEW cmd \in Workload, ReplicaServes(cmd)
      PROVE  LoopHolds'
  BY <1>1, <1>7 DEF ReplicaServes
<1>8. CASE Clock
  <2>1. UNCHANGED <<db, up, conn, turn, owed, sessionVars>> /\ now' = now + 1
    BY <1>8 DEF Clock, Tick
  <2> QED
    BY <2>1 DEF LoopHolds, LoopTypeOK, Hearers
<1>9. CASE UNCHANGED vars
  BY <1>1, <1>9 DEF vars
<1>10. ASSUME NEW c \in Client, NEW cmd \in Workload, ExecuteOnly(c, cmd)
       PROVE  LoopHolds'
  BY <1>10, ExecuteOnlyTypes
<1> QED
  BY <1>2, <1>3, <1>4, <1>5, <1>6, <1>7, <1>8, <1>9, <1>10, LinksAreClients
     DEF Next, Idles

-----------------------------------------------------------------------------
(* What is on the way.                                                     *)

(* No connection is opened a second time.                                  *)
NoneReopens ==
  \A c \in Client : conn[c] # "new" =>
    /\ conn'[c] # "new"
    /\ conn'[c] = "open" => conn[c] = "open"

LEMMA DropsReopensNone == ASSUME LoopHolds, Drops PROVE NoneReopens
BY DEF Drops, NoneReopens

LEMMA LinkIsClient == ASSUME LinkHolds, link # None PROVE link \in Client
BY LinksAreClients DEF LinkHolds

(* Fewer messages of the same, of a log that may have grown.               *)
SomeSent ==
  /\ Len(flight') \in 0..Len(flight)
  /\ \A i \in 1..Len(flight') : flight'[i] = flight[i]
  /\ Len(shipped') >= Len(shipped)
  /\ \A n \in 1..Len(shipped) : shipped'[n] = shipped[n]
  /\ conn'[link] = "open" => /\ conn[link] = "open"
                             /\ Len(flight') = Len(flight)
                             /\ Len(shipped') = Len(shipped)

LEMMA SentStill ==
  ASSUME LinkHolds, Sent, SomeSent, UNCHANGED <<link, stage, asked, applied>>,
         Len(shipped') \in Nat
  PROVE  Sent'
<1>1. /\ Len(flight) \in Nat /\ Len(shipped) \in Nat /\ applied \in Nat /\ stage \in 4..6
      /\ Len(flight') \in Nat
  BY LenProperties DEF LinkHolds, Sent, SomeSent, Streaming
<1>2. /\ Len(flight') + applied + stage <= Len(shipped') + Streaming
      /\ conn'[link] = "open" => Len(flight') + applied + stage = Len(shipped') + Streaming
  BY <1>1 DEF Sent, SomeSent, Streaming
<1>3. ASSUME NEW i \in 1..Len(flight')
      PROVE  IF i + stage <= Streaming THEN flight'[i] \in Line
             ELSE flight'[i] = [cmd |-> shipped'[applied + i + stage - Streaming].cmd]
  <2>1. i \in 1..Len(flight) /\ flight'[i] = flight[i]
    BY <1>1 DEF SomeSent
  <2>2. CASE i + stage <= Streaming
    BY <2>1, <2>2 DEF Sent
  <2>3. CASE ~(i + stage <= Streaming)
    <3> DEFINE n == applied + i + stage - Streaming
    <3>1. n \in 1..Len(shipped)
      BY <1>1, <2>1, <2>3 DEF Sent, Streaming
    <3>2. shipped'[n] = shipped[n]
      BY <3>1 DEF SomeSent
    <3>3. flight[i] = [cmd |-> shipped[n].cmd]
      BY <2>1, <2>3 DEF Sent
    <3> QED
      BY <2>1, <2>3, <3>2, <3>3
  <2> QED
    BY <2>2, <2>3
<1> QED
  BY <1>2, <1>3 DEF Sent

(* Steps of others.                                                        *)
LEMMA LinkStays ==
  ASSUME LinkHolds, NoneReopens, UNCHANGED <<linkVars, replicas, shipped>>,
         clean' \subseteq clean
  PROVE  LinkHolds'
<1> USE DEF linkVars
<1>1. /\ \A c \in replicas : conn'[c] # "new"
      /\ link # None => conn'[link] # "new"
  BY LinkIsClient, LinksAreClients DEF LinkHolds, NoneReopens
<1>2. CASE link \in replicas
  <2>1. conn'[link] = "open" => conn[link] = "open"
    BY <1>2, LinksAreClients DEF LinkHolds, NoneReopens
  <2>2. Len(flight) \in Nat /\ Len(shipped) \in Nat
    BY LenProperties DEF LinkHolds
  <2>3. SomeSent
    BY <2>1, <2>2 DEF SomeSent
  <2>4. Sent'
    BY <1>2, <2>2, <2>3, SentStill DEF LinkHolds
  <2> QED
    BY <1>1, <1>2, <2>4 DEF LinkHolds
<1>3. CASE link \notin replicas
  BY <1>1, <1>3 DEF LinkHolds, Waits
<1> QED
  BY <1>2, <1>3

LEMMA LinkAlone ==
  ASSUME LinkHolds, NoneReopens, UNCHANGED <<linkVars, masterVars>>
  PROVE  LinkHolds'
BY LinkStays DEF masterVars

(* What is not yet sent is dropped.                                        *)
LEMMA CutFlight ==
  ASSUME LinkHolds
  PROVE  LET cut == SubSeq(flight, 1, Len(flight) - stuck)
         IN  /\ cut \in Seq(Message)
             /\ Len(cut) = Len(flight) - stuck
             /\ Len(cut) \in 0..Len(flight)
             /\ \A i \in 1..Len(cut) : cut[i] = flight[i]
<1> DEFINE n == Len(flight)
           m == n - stuck
<1>1. n \in Nat /\ stuck \in 0..n /\ m \in 0..n
  BY LenProperties DEF LinkHolds
<1>2. \A i \in 1..m : flight[i] \in Message
  BY <1>1, ElementOfSeq DEF LinkHolds
<1>3. /\ SubSeq(flight, 1, m) \in Seq(Message)
      /\ Len(SubSeq(flight, 1, m)) = IF 1 <= m THEN m - 1 + 1 ELSE 0
      /\ \A i \in 1..(m - 1 + 1) : SubSeq(flight, 1, m)[i] = flight[1 + i - 1]
  <2> HIDE DEF m
  <2> QED
    BY <1>1, <1>2, SubSeqProperties
<1>4. Len(SubSeq(flight, 1, m)) = m
  BY <1>1, <1>3
<1> QED
  BY <1>1, <1>3, <1>4

LEMMA ClosingLink ==
  ASSUME LoopHolds, LinkHolds, NEW c \in Client, Closing(c)
  PROVE  LinkHolds'
<1>1. /\ conn[c] = "open" /\ conn' = [conn EXCEPT ![c] = "closed"]
      /\ UNCHANGED <<masterVars, link, stage, asked, rdb, roffset, applied, stray>>
  BY DEF Closing, HangUp
<1>2. NoneReopens
  BY <1>1 DEF NoneReopens, LoopHolds, LoopTypeOK
<1>3. CASE c # link
  BY <1>1, <1>2, <1>3, LinkAlone DEF Closing, linkVars
<1>4. CASE c = link
  <2>1. flight' = SubSeq(flight, 1, Len(flight) - stuck) /\ stuck' = 0
    BY <1>4 DEF Closing
  <2>2. /\ flight' \in Seq(Message) /\ Len(flight') \in 0..Len(flight)
        /\ \A i \in 1..Len(flight') : flight'[i] = flight[i]
    BY <2>1, CutFlight
  <2>3. /\ conn'[link] # "open"
        /\ \A d \in replicas : conn'[d] # "new"
        /\ link # None => conn'[link] # "new"
    BY <1>1, <1>2, <1>4, LinksAreClients DEF NoneReopens, LinkHolds, LoopHolds, LoopTypeOK
  <2>4. Len(flight) \in Nat /\ Len(shipped) \in Nat /\ stuck' \in 0..Len(flight')
    BY <2>1, <2>2, LenProperties DEF LinkHolds
  <2>5. CASE link \in replicas
    <3>1. SomeSent
      BY <1>1, <2>2, <2>3, <2>4 DEF SomeSent, masterVars
    <3>2. Sent'
      BY <1>1, <2>4, <2>5, <3>1, SentStill DEF LinkHolds, masterVars
    <3> QED
      BY <1>1, <2>2, <2>3, <2>4, <2>5, <3>2 DEF LinkHolds, masterVars
  <2>6. CASE link \notin replicas
    <3>1. Waits'
      <4>1. Waits
        BY <2>6 DEF LinkHolds
      <4>2. Len(flight') <= 1 /\ \A i \in 1..Len(flight') : flight'[i] \in Line
        BY <2>2, <2>4, <4>1 DEF Waits
      <4>3. flight = <<>> => flight' = <<>>
        BY <2>2, EmptySeq
      <4> QED
        BY <1>1, <4>1, <4>2, <4>3 DEF Waits
    <3> QED
      BY <1>1, <2>2, <2>3, <2>4, <2>6, <3>1 DEF LinkHolds, masterVars
  <2> QED
    BY <2>5, <2>6
<1> QED
  BY <1>3, <1>4

LEMMA StartsLink ==
  ASSUME LoopHolds, LinkHolds, NEW c \in Links, ReplicaStarts(c)
  PROVE  LinkHolds'
<1>1. /\ conn[c] = "new" /\ conn' = [conn EXCEPT ![c] = "open"] /\ c \in Client /\ c # None
      /\ stage = Off /\ link' = c /\ stage' = 1 /\ asked' = TRUE
      /\ UNCHANGED <<masterVars, flight, stuck, rdb, roffset, applied, stray>>
  BY LinksAreClients, NoneIsNoClient DEF ReplicaStarts, Accept
<1>2. c \notin replicas /\ link \notin replicas
  BY <1>1, NoneIsNoClient, LinksAreClients DEF LinkHolds
<1>3. /\ \A d \in replicas : conn'[d] # "new"
      /\ conn'[c] # "new"
  BY <1>1, LinksAreClients DEF LinkHolds, LoopHolds, LoopTypeOK
<1>4. flight = <<>>
  BY <1>1, <1>2 DEF LinkHolds, Waits
<1>5. Waits'
  BY <1>1, <1>4, EmptySeq DEF Waits, Streaming, Off
<1> QED
  BY <1>1, <1>2, <1>3, <1>5 DEF LinkHolds, masterVars, Streaming, Off

LEMMA GoneLink ==
  ASSUME LinkHolds, Gone, UNCHANGED <<conn, masterVars>>
  PROVE  LinkHolds'
<1>1. link' = None /\ None \notin replicas
  BY LinksAreClients, NoneIsNoClient DEF Gone, LinkHolds
<1>2. Len(shipped) \in Nat /\ <<>> \in Seq(Message) /\ Len(<<>>) = 0
  BY LenProperties, EmptySeq DEF LinkHolds
<1>3. Waits'
  BY <1>2 DEF Waits, Gone, Streaming, Off
<1>4. /\ flight' \in Seq(Message) /\ stuck' \in 0..Len(flight')
      /\ applied' \in 0..Len(shipped')
  BY <1>2 DEF Gone, masterVars
<1>5. /\ stage' = 0 /\ asked' = FALSE
      /\ applied' = 0 /\ roffset' = 0 /\ rdb' = EmptyDB /\ stray' = {}
      /\ UNCHANGED <<conn, replicas, shipped, clean>>
  BY DEF Gone, Off, masterVars
<1>6. /\ asked' \in BOOLEAN /\ (asked' => stage' \in 1..4)
      /\ (stage' = Off) = (link' = None)
      /\ stage' \in Off..Streaming
  <2>1. asked' \in BOOLEAN /\ ~asked'
    BY <1>5, Zenon
  <2>2. stage' = Off /\ Off \in Off..Streaming
    BY <1>5 DEF Off, Streaming
  <2> QED
    BY <1>1, <2>1, <2>2, Zenon
<1>7. /\ replicas' \subseteq Links
      /\ \A c \in replicas' : conn'[c] # "new"
      /\ link' \in Links \cup {None}
      /\ link' # None => conn'[link'] # "new"
      /\ link' \notin replicas'
      /\ shipped' \in Seq(Record) /\ clean' \subseteq Key
  BY <1>1, <1>5 DEF LinkHolds
<1> QED
  BY <1>3, <1>4, <1>5, <1>6, <1>7 DEF LinkHolds

(* The master sends a command.                                             *)
LogGrows(cmd) ==
  /\ shipped' = Append(shipped, [cmd |-> cmd, data |-> db'.data, clean |-> clean'])
  /\ shipped' \in Seq(Record)
  /\ Len(shipped') = Len(shipped) + 1
  /\ \A n \in 1..Len(shipped) : shipped'[n] = shipped[n]
  /\ shipped'[Len(shipped) + 1] = [cmd |-> cmd, data |-> db'.data, clean |-> clean']

LEMMA StatelessShips ==
  ASSUME LoopHolds, LinkHolds, NEW c \in Client, NEW cmd \in Workload, Stateless(c, cmd),
         PassedOn(cmd, Dispatch(db, now, cmd).reply), replicas # {}
  PROVE  LogGrows(cmd)
<1> DEFINE r == [cmd |-> cmd, data |-> db'.data, clean |-> clean']
<1>1. shipped' = Append(shipped, r)
  BY DEF Stateless
<1>2. db' \in DB
  BY StatelessTypes DEF LoopHolds, LoopTypeOK
<1>3. clean' \subseteq Key
  <2>1. cmd \in Command
    BY WorkloadIsCommands
  <2>2. cmd.key \in Key
    BY <2>1, ArgumentTypes DEF PassedOn, WriteCommands, Writers
  <2> QED
    BY <2>2 DEF Stateless, CleanAfter, LinkHolds
<1>4. r \in Record
  BY <1>2, <1>3 DEF Record, DB
<1> HIDE DEF r
<1>5. shipped \in Seq(Record)
  BY DEF LinkHolds
<1> QED
  BY <1>1, <1>4, <1>5, AppendProperties DEF r, LogGrows

LEMMA CleanStaysKeys ==
  ASSUME LinkHolds, NEW c \in Client, NEW cmd \in Workload, Stateless(c, cmd)
  PROVE  clean' \subseteq Key
<1>1. cmd \in Command
  BY WorkloadIsCommands
<1>2. Settles(cmd) => cmd.key \in Key
  BY <1>1, ArgumentTypes DEF Settles, Writers
<1> QED
  BY <1>2 DEF Stateless, CleanAfter, LinkHolds

(* What becomes of the messages on the way when one is sent: nothing, if   *)
(* the connection is closed; or the write closes it, and they are cut; or  *)
(* the message follows them.                                               *)
LEMMA SendMoves ==
  ASSUME LinkHolds, NEW S, NEW msgs \in Seq(Message), Send(S, msgs)
  PROVE  \/ /\ link \notin S
            /\ UNCHANGED <<flight, stuck>>
         \/ /\ link \in S /\ conn[link] = "closed"
            /\ UNCHANGED <<flight, stuck>>
         \/ /\ link \in S /\ conn'[link] = "closed"
            /\ flight' = SubSeq(flight, 1, Len(flight) - stuck)
            /\ stuck' = 0
         \/ /\ link \in S /\ conn[link] # "closed" /\ conn'[link] # "closed"
            /\ flight' = flight \o msgs
            /\ stuck' \in 0..Len(flight')
<1>1. Len(flight \o msgs) = Len(flight) + Len(msgs)
  BY ConcatProperties DEF LinkHolds
<1>2. Len(flight) \in Nat /\ Len(msgs) \in Nat /\ stuck \in 0..Len(flight)
  BY LenProperties DEF LinkHolds
<1>3. \A x \in 0..(stuck + Len(msgs)) : x \in 0..(Len(flight) + Len(msgs))
  BY <1>2
<1> QED
  BY <1>1, <1>3 DEF Send

(* One more command in the log and behind the messages on the way.         *)
LEMMA SentGrows ==
  ASSUME LinkHolds, Sent, NEW cmd, UNCHANGED <<link, stage, asked, applied>>,
         conn[link] = "open", Len(shipped') = Len(shipped) + 1,
         \A n \in 1..Len(shipped) : shipped'[n] = shipped[n],
         shipped'[Len(shipped) + 1].cmd = cmd,
         Len(flight') = Len(flight) + 1,
         \A i \in 1..Len(flight) : flight'[i] = flight[i],
         flight'[Len(flight) + 1] = [cmd |-> cmd]
  PROVE  Sent'
<1>1. /\ Len(flight) \in Nat /\ Len(shipped) \in Nat /\ applied \in Nat /\ stage \in 4..6
      /\ Len(flight) + applied + stage = Len(shipped) + 6
  BY LenProperties DEF LinkHolds, Sent, Streaming
<1>2. ASSUME NEW i \in 1..Len(flight')
      PROVE  IF i + stage <= Streaming THEN flight'[i] \in Line
             ELSE flight'[i] = [cmd |-> shipped'[applied + i + stage - Streaming].cmd]
  <2>1. CASE i = Len(flight) + 1
    <3>1. applied + i + stage - Streaming = Len(shipped) + 1
      BY <1>1, <2>1 DEF Streaming
    <3>2. ~(i + stage <= Streaming)
      BY <1>1, <2>1 DEF Streaming, LinkHolds
    <3> QED
      BY <2>1, <3>1, <3>2
  <2>2. CASE i # Len(flight) + 1
    <3> DEFINE n == applied + i + stage - Streaming
    <3>1. i \in 1..Len(flight)
      BY <1>1, <2>2
    <3>2. i + stage > Streaming => n \in 1..Len(shipped)
      BY <1>1, <3>1 DEF Streaming
    <3>3. IF i + stage <= Streaming THEN flight[i] \in Line
          ELSE flight[i] = [cmd |-> shipped[n].cmd]
      BY <3>1 DEF Sent
    <3>4. CASE i + stage <= Streaming
      BY <3>1, <3>3, <3>4
    <3>5. CASE i + stage > Streaming
      BY <1>1, <3>1, <3>2, <3>3, <3>5 DEF Streaming
    <3> QED
      BY <1>1, <3>1, <3>4, <3>5 DEF Streaming
  <2> QED
    BY <2>1, <2>2
<1> QED
  BY <1>1, <1>2 DEF Sent, Streaming

LEMMA StatelessLink ==
  ASSUME LoopHolds, LinkHolds, NEW c \in Client \ Links, NEW cmd \in Workload,
         Stateless(c, cmd)
  PROVE  LinkHolds'
<1> DEFINE ships == PassedOn(cmd, Dispatch(db, now, cmd).reply) /\ replicas # {}
           S == (IF up' THEN {c} ELSE {}) \cup (IF ships THEN replicas ELSE {})
           msg == [cmd |-> cmd]
<1> c \in Client
  OBVIOUS
<1>1. /\ UNCHANGED <<replicas, link, stage, asked, rdb, roffset, applied, stray>>
      /\ clean' \subseteq Key
      /\ Send(S, <<msg>>)
  BY CleanStaysKeys DEF Stateless
<1>2. Drops /\ NoneReopens
  BY StatelessTypes, DropsReopensNone
<1>3. /\ Len(shipped') \in Nat /\ Len(shipped) \in Nat /\ Len(shipped') >= Len(shipped)
      /\ shipped' \in Seq(Record)
      /\ \A n \in 1..Len(shipped) : shipped'[n] = shipped[n]
      /\ ~ships => shipped' = shipped
  <2>1. CASE ships
    <3>1. LogGrows(cmd)
      BY <2>1, StatelessShips, Zenon
    <3> QED
      BY <2>1, <3>1, LenProperties DEF LinkHolds, LogGrows
  <2>2. CASE ~ships
    <3>1. shipped' = shipped
      BY <2>2 DEF Stateless
    <3> QED
      BY <2>2, <3>1, LenProperties DEF LinkHolds
  <2> QED
    BY <2>1, <2>2
<1>4. /\ msg \in Message /\ <<msg>> \in Seq(Message)
      /\ Len(<<msg>>) = 1 /\ <<msg>>[1] = msg
  BY DEF Message
<1>5. link \in S <=> link \in replicas /\ ships
  BY NoneIsNoClient, LinksAreClients DEF LinkHolds
<1>6. /\ \A d \in replicas : conn'[d] # "new"
      /\ link # None => conn'[link] # "new"
  BY <1>2, LinkIsClient, LinksAreClients DEF LinkHolds, NoneReopens
<1>7. applied' \in 0..Len(shipped')
  BY <1>1, <1>3 DEF LinkHolds
<1> HIDE DEF ships, S, msg
<1>8. SUFFICES ASSUME TRUE
               PROVE  /\ flight' \in Seq(Message) /\ stuck' \in 0..Len(flight')
                      /\ IF link \in replicas THEN Sent' ELSE Waits'
  BY <1>1, <1>3, <1>6, <1>7 DEF LinkHolds
<1>9. CASE link \notin replicas
  <2>1. UNCHANGED <<flight, stuck>>
    BY <1>1, <1>4, <1>5, <1>9, SendMoves
  <2> QED
    BY <1>1, <1>9, <2>1 DEF LinkHolds, Waits
<1>10. CASE link \in replicas
  <2>1. link \in Client /\ conn[link] \in {"open", "closed"} /\ conn'[link] \in {"open", "closed"}
    BY <1>2, <1>6, <1>10, LinksAreClients DEF LinkHolds, LoopHolds, LoopTypeOK, Drops
  <2>2. Len(flight) \in Nat /\ Sent
    BY <1>10, LenProperties DEF LinkHolds
  <2>3. conn'[link] = "open" => conn[link] = "open"
    BY <1>2, <2>1 DEF NoneReopens
  <2>4. CASE UNCHANGED <<flight, stuck>> /\ (~ships \/ conn[link] = "closed")
    <3>1. SomeSent
      BY <1>3, <2>1, <2>2, <2>3, <2>4 DEF SomeSent
    <3> QED
      BY <1>1, <1>3, <1>10, <2>2, <2>4, <3>1, SentStill DEF LinkHolds
  <2>5. CASE /\ conn'[link] = "closed"
             /\ flight' = SubSeq(flight, 1, Len(flight) - stuck)
             /\ stuck' = 0
    <3>1. /\ flight' \in Seq(Message) /\ Len(flight') \in 0..Len(flight)
          /\ \A i \in 1..Len(flight') : flight'[i] = flight[i]
          /\ stuck' \in 0..Len(flight')
      BY <2>2, <2>5, CutFlight
    <3>2. SomeSent
      BY <1>3, <2>5, <3>1 DEF SomeSent
    <3> QED
      BY <1>1, <1>3, <1>10, <2>2, <3>1, <3>2, SentStill
  <2>6. CASE /\ ships /\ conn[link] = "open"
             /\ flight' = flight \o <<msg>> /\ stuck' \in 0..Len(flight')
    <3>1. /\ flight' \in Seq(Message) /\ Len(flight') = Len(flight) + 1
          /\ \A i \in 1..Len(flight) : flight'[i] = flight[i]
          /\ flight'[Len(flight) + 1] = msg
      <4>1. flight \in Seq(Message)
        BY DEF LinkHolds
      <4>2. flight' = Append(flight, msg)
        BY <1>4, <2>6, <4>1, AppendIsConcat
      <4> QED
        BY <1>4, <4>1, <4>2, AppendProperties
    <3>2. /\ Len(shipped') = Len(shipped) + 1
          /\ shipped'[Len(shipped) + 1].cmd = cmd
      <4>1. LogGrows(cmd)
        BY <2>6, StatelessShips, Zenon DEF ships
      <4> QED
        BY <4>1 DEF LogGrows
    <3>3. Sent'
      BY <1>1, <1>3, <2>2, <2>6, <3>1, <3>2, SentGrows DEF msg
    <3> QED
      BY <1>10, <2>6, <3>1, <3>3
  <2> QED
    BY <1>1, <1>4, <1>5, <1>10, <2>1, <2>4, <2>5, <2>6, SendMoves
<1> QED
  BY <1>9, <1>10

(* A write of the master that nobody is sent; whom it answers is no link.  *)
LEMMA ExecuteOnlySends ==
  ASSUME LinkHolds, NEW c, NEW cmd, ExecuteOnly(c, cmd)
  PROVE  UNCHANGED linkVars
<1>1. PICK w \in Client \ Links : Send(IF up' THEN {w} ELSE {}, <<>>)
  BY DEF ExecuteOnly
<1>2. link \notin (IF up' THEN {w} ELSE {})
  BY NoneIsNoClient DEF LinkHolds
<1>3. UNCHANGED <<flight, stuck>>
  BY <1>1, <1>2 DEF Send
<1> QED
  BY <1>3 DEF ExecuteOnly, linkVars

LEMMA ExecuteOnlyLink ==
  ASSUME LoopHolds, LinkHolds, NEW c \in Client, NEW cmd \in Workload, ExecuteOnly(c, cmd)
  PROVE  LinkHolds'
<1>1. NoneReopens
  BY ExecuteOnlyTypes, DropsReopensNone
<1>2. UNCHANGED <<replicas, shipped>> /\ clean' \subseteq clean
  BY DEF ExecuteOnly
<1> QED
  BY <1>1, <1>2, ExecuteOnlySends, LinkStays

LEMMA HandshakeLink ==
  ASSUME LoopHolds, LinkHolds, Handshake
  PROVE  LinkHolds'
<1>1. /\ link \in Client /\ link \in Links /\ link \notin replicas
      /\ stage \in 1..4 /\ flight = <<>> /\ stuck = 0
  <2>1. asked /\ stage \in 1..4
    BY DEF Handshake, LinkHolds
  <2>2. link # None
    BY <2>1 DEF LinkHolds, Off
  <2>3. link \notin replicas
    BY <2>1 DEF LinkHolds, Sent
  <2>4. flight = <<>>
    BY <2>1, <2>3 DEF LinkHolds, Waits
  <2> QED
    BY <2>1, <2>2, <2>3, <2>4, LinkIsClient, EmptySeq DEF LinkHolds
<1>2. /\ asked' = FALSE
      /\ UNCHANGED <<link, stage, rdb, roffset, applied, stray>>
  BY DEF Handshake
<1>3. applied = 0 /\ roffset = 0 /\ rdb = EmptyDB /\ stray = {}
  BY <1>1 DEF LinkHolds, Streaming
<1>4. Drops /\ NoneReopens
  BY WriteDrops, DropsReopensNone DEF Handshake, Send
<1>5. conn'[link] # "new"
  BY <1>1, <1>4, NoneIsNoClient DEF LinkHolds, NoneReopens
<1>6. /\ asked' \in BOOLEAN /\ ~asked'
  BY <1>2, Zenon
<1> DEFINE two == <<[line |-> "fullresync"], [line |-> "rdb"]>>
           one == <<[line |-> "answer"]>>
<1>7. /\ two \in Seq(Line) /\ Len(two) = 2
      /\ one \in Seq(Line) /\ Len(one) = 1
      /\ <<>> \in Seq(Line) /\ Len(<<>>) = 0
  BY DEF Line
<1> HIDE DEF two, one
<1>10. \A s \in Seq(Line) : s \in Seq(Message) /\ \A i \in 1..Len(s) : s[i] \in Line
  <2>1. Line \subseteq Message
    BY DEF Message
  <2> QED
    BY <2>1, ElementOfSeq
<1>11. /\ SubSeq(flight, 1, Len(flight) - stuck) = <<>>
       /\ \A s \in Seq(Message) : flight \o s = s
  <2>1. SubSeq(<<>>, 1, 0 - 0) = <<>>
    BY SubSeqEmpty
  <2> QED
    BY <1>1, <1>7, <2>1, ConcatEmptySeq
<1>12. ASSUME NEW msgs \in Seq(Line), Send({link}, msgs)
       PROVE  /\ flight' \in Seq(Line) /\ stuck' \in 0..Len(flight')
              /\ Len(flight') <= Len(msgs)
              /\ conn'[link] = "open" => flight' = msgs
  <2>1. msgs \in Seq(Message) /\ Len(msgs) \in Nat
    BY <1>10, LenProperties
  <2>2. conn'[link] = "open" => conn[link] # "closed"
    BY <1>1, <1>4 DEF NoneReopens, LinkHolds
  <2>3. \/ UNCHANGED <<flight, stuck>> /\ conn[link] = "closed"
        \/ conn'[link] = "closed" /\ flight' = <<>> /\ stuck' = 0
        \/ flight' = msgs /\ stuck' \in 0..Len(flight')
    <3>1. link \in {link}
      OBVIOUS
    <3> QED
      BY <1>11, <1>12, <2>1, <3>1, SendMoves
  <2>4. CASE UNCHANGED <<flight, stuck>> /\ conn[link] = "closed"
    BY <1>1, <1>7, <2>1, <2>2, <2>4
  <2>5. CASE conn'[link] = "closed" /\ flight' = <<>> /\ stuck' = 0
    BY <1>7, <2>1, <2>5
  <2>6. CASE flight' = msgs /\ stuck' \in 0..Len(flight')
    BY <2>1, <2>6
  <2> QED
    BY <2>3, <2>4, <2>5, <2>6
<1>8. CASE stage = 4 /\ Handles(link, "PSYNC")
  <2>1. /\ Send({link}, two)
        /\ replicas' = replicas \cup {link}
        /\ shipped' = <<>>
        /\ clean' = {k \in Key : db.data[k] = None}
    BY <1>8 DEF Handshake, two
  <2>3. /\ flight' \in Seq(Line) /\ stuck' \in 0..Len(flight')
        /\ Len(flight') <= 2
        /\ conn'[link] = "open" => Len(flight') = 2
    BY <1>7, <1>12, <2>1
  <2>4. Sent'
    <3>1. /\ stage' = 4 /\ applied' = 0 /\ Len(shipped') = 0 /\ link' = link
      BY <1>2, <1>3, <1>8, <2>1, EmptySeq
    <3>2. Len(flight') \in Nat /\ \A i \in 1..Len(flight') : flight'[i] \in Line
      BY <1>10, <2>3, LenProperties
    <3>3. \A i \in 1..Len(flight') : i + stage' <= Streaming
      BY <2>3, <3>1, <3>2 DEF Streaming
    <3>4. /\ Len(flight') + applied' + stage' <= Len(shipped') + Streaming
          /\ conn'[link'] = "open" =>
               Len(flight') + applied' + stage' = Len(shipped') + Streaming
      <4>1. Len(flight') <= 2 /\ (conn'[link'] = "open" => Len(flight') = 2)
        BY <2>3, <3>1
      <4>2. Len(flight') + applied' + stage' = Len(flight') + 4
            /\ Len(shipped') + Streaming = 6
        BY <3>1, <3>2 DEF Streaming
      <4>3. Len(flight') = 2 => Len(flight') + 4 = 6
        OBVIOUS
      <4>4. Len(flight') + 4 <= 6
        BY <3>2, <4>1
      <4> QED
        BY <4>1, <4>2, <4>3, <4>4, Zenon
    <3>5. stage' \in 4..Streaming
      BY <3>1 DEF Streaming
    <3> QED
      BY <1>6, <3>2, <3>3, <3>4, <3>5 DEF Sent
  <2>5. /\ replicas' \subseteq Links
        /\ \A d \in replicas' : conn'[d] # "new"
    BY <1>1, <1>4, <1>5, <2>1, LinksAreClients DEF LinkHolds, NoneReopens
  <2>6. shipped' \in Seq(Record) /\ clean' \subseteq Key /\ applied' \in 0..Len(shipped')
    BY <1>2, <1>3, <2>1, EmptySeq
  <2> QED
    BY <1>1, <1>2, <1>3, <1>5, <1>6, <1>10, <2>1, <2>3, <2>4, <2>5, <2>6 DEF LinkHolds
<1>9. CASE ~(stage = 4 /\ Handles(link, "PSYNC"))
  <2>1. /\ Send({link}, one)
        /\ UNCHANGED <<replicas, shipped, clean>>
    BY <1>9 DEF Handshake, one
  <2>3. /\ flight' \in Seq(Line) /\ stuck' \in 0..Len(flight')
        /\ Len(flight') <= 1
    BY <1>7, <1>12, <2>1
  <2>4. Waits'
    <3>1. Len(flight') <= 1 /\ \A i \in 1..Len(flight') : flight'[i] \in Line
      BY <1>10, <2>3
    <3> QED
      BY <1>1, <1>2, <1>6, <3>1 DEF Waits, Streaming, Off
  <2>5. \A d \in replicas' : conn'[d] # "new"
    BY <1>4, <2>1, LinksAreClients DEF LinkHolds, NoneReopens
  <2> QED
    BY <1>1, <1>2, <1>3, <1>5, <1>6, <1>10, <2>1, <2>3, <2>4, <2>5 DEF LinkHolds
<1> QED
  BY <1>8, <1>9

(* The replica takes the first message.                                    *)
LEMMA TakenFlight ==
  ASSUME LinkHolds, Len(flight) > stuck
  PROVE  /\ Len(flight) \in Nat \ {0} /\ flight # <<>>
         /\ Tail(flight) \in Seq(Message)
         /\ Len(Tail(flight)) = Len(flight) - 1
         /\ stuck \in 0..Len(Tail(flight))
         /\ \A i \in 1..Len(Tail(flight)) : Tail(flight)[i] = flight[i + 1]
         /\ Head(flight) = flight[1] /\ Head(flight) \in Message
<1>1. /\ flight \in Seq(Message) /\ Len(flight) \in Nat /\ stuck \in 0..Len(flight)
  BY LenProperties DEF LinkHolds
<1>2. Len(flight) > 0
  BY <1>1
<1>3. flight # <<>>
  BY <1>2, EmptySeq
<1> QED
  BY <1>1, <1>2, <1>3, HeadTailProperties

LEMMA ReadsLink ==
  ASSUME LinkHolds, ReplicaReads
  PROVE  LinkHolds'
<1>1. /\ stage \in 1..5 /\ Len(flight) > stuck
      /\ flight' = Tail(flight) /\ stage' = stage + 1 /\ asked' = (stage < 4)
      /\ UNCHANGED <<conn, replicas, shipped, clean, link, stuck, rdb, roffset, applied, stray>>
  BY DEF ReplicaReads, Received, loopVars, masterVars
<1>2. /\ flight' \in Seq(Message) /\ stuck' \in 0..Len(flight')
      /\ Len(flight') = Len(flight) - 1 /\ Len(flight) \in Nat
      /\ \A i \in 1..Len(flight') : flight'[i] = flight[i + 1]
      /\ flight # <<>>
  BY <1>1, TakenFlight
<1>3. /\ asked' \in BOOLEAN
      /\ asked' <=> stage < 4
  <2>1. asked' = (stage < 4)
    BY <1>1, Zenon
  <2>2. CASE stage < 4
    BY <2>1, <2>2, Zenon
  <2>3. CASE ~(stage < 4)
    <3>1. (stage < 4) = FALSE
      BY <1>1, <2>3
    <3>2. asked' = FALSE
      BY <2>1, <3>1, Zenon
    <3> QED
      BY <2>3, <3>2, Zenon
  <2> QED
    BY <2>2, <2>3, Zenon
<1>4. stage # Streaming /\ stage # Off /\ stage' # Off
  BY <1>1 DEF Streaming, Off
<1>5. CASE link \in replicas
  <2>1. Sent
    BY <1>5 DEF LinkHolds
  <2>2. stage \in 4..5
    BY <1>1, <2>1 DEF Sent, Streaming
  <2>3. Len(shipped) \in Nat /\ applied \in Nat
    BY LenProperties DEF LinkHolds
  <2>4. ASSUME NEW i \in 1..Len(flight')
        PROVE  IF i + stage' <= Streaming THEN flight'[i] \in Line
               ELSE flight'[i] = [cmd |-> shipped'[applied' + i + stage' - Streaming].cmd]
    <3> DEFINE j == i + 1
    <3>1. j \in 1..Len(flight) /\ flight'[i] = flight[j]
      BY <1>2
    <3>2. j + stage = i + stage' /\ applied + j + stage - Streaming = applied' + i + stage' - Streaming
      BY <1>1, <2>3 DEF Streaming
    <3> HIDE DEF j
    <3>3. IF j + stage <= Streaming THEN flight[j] \in Line
          ELSE flight[j] = [cmd |-> shipped[applied + j + stage - Streaming].cmd]
      BY <2>1, <3>1 DEF Sent
    <3> QED
      BY <1>1, <3>1, <3>2, <3>3
  <2>5. /\ Len(flight') + applied' + stage' <= Len(shipped') + Streaming
        /\ conn'[link'] = "open" =>
             Len(flight') + applied' + stage' = Len(shipped') + Streaming
    BY <1>1, <1>2, <2>1, <2>3 DEF Sent, Streaming
  <2>6. stage' \in 4..Streaming /\ ~asked'
    BY <1>1, <1>3, <2>2 DEF Streaming
  <2>7. Sent'
    BY <2>4, <2>5, <2>6 DEF Sent
  <2> QED
    BY <1>1, <1>2, <1>3, <1>4, <1>5, <2>6, <2>7 DEF LinkHolds, Streaming, Off
<1>6. CASE link \notin replicas
  <2>1. Waits
    BY <1>6 DEF LinkHolds
  <2>2. stage \in 1..4 /\ Len(flight) = 1
    BY <1>1, <1>2, <2>1, EmptySeq DEF Waits
  <2>3. flight' = <<>> /\ Len(flight') = 0
    BY <1>2, <2>2, EmptySequence
  <2>4. Waits'
    <3>1. stage' < Streaming
      BY <1>1, <2>2 DEF Streaming
    <3>2. Len(flight') <= 1 /\ 1..Len(flight') = {}
      BY <2>3
    <3> QED
      BY <2>3, <3>1, <3>2 DEF Waits
  <2>5. asked' => stage' \in 1..4
    BY <1>1, <1>3
  <2> QED
    BY <1>1, <1>2, <1>3, <1>4, <1>6, <2>2, <2>4, <2>5 DEF LinkHolds, Streaming, Off
<1> QED
  BY <1>5, <1>6

(* A streaming replica reads the command it has not run.                   *)
LEMMA NextCommand ==
  ASSUME LinkHolds, stage = Streaming, Received
  PROVE  /\ link \in replicas /\ Sent
         /\ applied + 1 \in 1..Len(shipped)
         /\ Head(flight) = [cmd |-> shipped[applied + 1].cmd]
         /\ Head(flight).cmd = shipped[applied + 1].cmd
         /\ Head(flight).cmd \in Workload
         /\ shipped[applied + 1] \in Record
<1>1. link \in replicas /\ Sent
  BY DEF LinkHolds, Waits
<1>2. /\ Len(flight) \in Nat \ {0} /\ Head(flight) = flight[1]
      /\ Len(shipped) \in Nat /\ applied \in Nat
  BY TakenFlight, LenProperties DEF Received, LinkHolds
<1>3. applied + 1 \in 1..Len(shipped)
  BY <1>1, <1>2 DEF Sent, Streaming
<1>4. 1 \in 1..Len(flight) /\ ~(1 + stage <= Streaming)
      /\ applied + 1 + stage - Streaming = applied + 1
  BY <1>2 DEF Streaming
<1>5. flight[1] = [cmd |-> shipped[applied + 1].cmd]
  BY <1>1, <1>4 DEF Sent
<1>6. shipped[applied + 1] \in Record
  BY <1>3, ElementOfSeq DEF LinkHolds
<1> QED
  BY <1>1, <1>2, <1>3, <1>5, <1>6 DEF Record

LEMMA AppliesLink ==
  ASSUME LinkHolds, ReplicaApplies
  PROVE  LinkHolds'
<1>1. stage = Streaming /\ Received /\ UNCHANGED <<conn, masterVars>>
  BY DEF ReplicaApplies, loopVars
<1>2. CASE Gone
  BY <1>1, <1>2, GoneLink
<1>3. CASE ~Gone
  <2>1. /\ flight' = Tail(flight) /\ applied' = applied + 1
        /\ UNCHANGED <<link, stage, asked, stuck, replicas, shipped, clean>>
    BY <1>1, <1>3 DEF ReplicaApplies, masterVars
  <2>2. /\ flight' \in Seq(Message) /\ stuck' \in 0..Len(flight')
        /\ Len(flight') = Len(flight) - 1 /\ Len(flight) \in Nat
        /\ \A i \in 1..Len(flight') : flight'[i] = flight[i + 1]
    BY <1>1, <2>1, TakenFlight DEF Received
  <2>3. /\ link \in replicas /\ Sent /\ applied + 1 \in 1..Len(shipped)
        /\ Len(shipped) \in Nat /\ applied \in Nat
    BY <1>1, NextCommand, LenProperties DEF LinkHolds
  <2>4. ASSUME NEW i \in 1..Len(flight')
        PROVE  IF i + stage' <= Streaming THEN flight'[i] \in Line
               ELSE flight'[i] = [cmd |-> shipped'[applied' + i + stage' - Streaming].cmd]
    <3> DEFINE j == i + 1
    <3>1. j \in 1..Len(flight) /\ flight'[i] = flight[j]
      BY <2>2
    <3>2. /\ ~(i + stage' <= Streaming) /\ ~(j + stage <= Streaming)
          /\ applied + j + stage - Streaming = applied' + i + stage' - Streaming
      BY <1>1, <2>1, <2>3 DEF Streaming
    <3> HIDE DEF j
    <3>3. flight[j] = [cmd |-> shipped[applied + j + stage - Streaming].cmd]
      BY <2>3, <3>1, <3>2 DEF Sent
    <3> QED
      BY <2>1, <3>1, <3>2, <3>3
  <2>5. /\ Len(flight') + applied' + stage' <= Len(shipped') + Streaming
        /\ conn'[link'] = "open" =>
             Len(flight') + applied' + stage' = Len(shipped') + Streaming
    BY <1>1, <2>1, <2>2, <2>3 DEF Sent, Streaming
  <2>6. Sent'
    BY <1>1, <2>1, <2>3, <2>4, <2>5 DEF Sent
  <2> QED
    BY <1>1, <2>1, <2>2, <2>3, <2>6 DEF LinkHolds
<1> QED
  BY <1>2, <1>3

LEMMA ServesLink ==
  ASSUME LinkHolds, NEW cmd \in Workload, ReplicaServes(cmd)
  PROVE  LinkHolds'
<1>1. stage = Streaming /\ UNCHANGED <<conn, masterVars>>
  BY DEF ReplicaServes, loopVars
<1>2. CASE Gone
  BY <1>1, <1>2, GoneLink
<1>3. CASE ~Gone
  <2>1. UNCHANGED <<link, stage, asked, flight, stuck, roffset, applied, conn,
                    replicas, shipped, clean>>
    BY <1>1, <1>3 DEF ReplicaServes, masterVars
  <2> QED
    BY <1>1, <2>1 DEF LinkHolds, Sent, Waits
<1> QED
  BY <1>2, <1>3

LEMMA InitLink == Init => LinkHolds
<1> SUFFICES ASSUME Init PROVE LinkHolds
  OBVIOUS
<1>1. /\ replicas = {} /\ link = None /\ stage = 0 /\ flight = <<>> /\ stuck = 0
      /\ shipped = <<>> /\ applied = 0 /\ clean = {}
      /\ roffset = 0 /\ rdb = EmptyDB /\ stray = {}
  BY DEF Init, Off
<1>2. asked \in BOOLEAN /\ ~asked
  BY Zenon DEF Init
<1>3. Waits
  BY <1>1, <1>2 DEF Waits, Off, Streaming
<1>4. <<>> \in Seq(Message) /\ <<>> \in Seq(Record) /\ Len(<<>>) = 0
  OBVIOUS
<1> QED
  BY <1>1, <1>2, <1>3, <1>4 DEF LinkHolds, Off, Streaming

LEMMA NextLink == IInv /\ LoopHolds /\ LinkHolds /\ [Next]_vars => LinkHolds'
<1> SUFFICES ASSUME IInv, LoopHolds, LinkHolds, [Next]_vars
             PROVE  LinkHolds'
  OBVIOUS
<1>1. ASSUME NEW c \in Client, Closing(c)
      PROVE  LinkHolds'
  BY <1>1, ClosingLink
<1>2. ASSUME NEW c \in Client, Loop(c)
      PROVE  LinkHolds'
  <2>1. \/ conn' = conn
        \/ conn[c] = "new" /\ conn' = [conn EXCEPT ![c] = "open"]
        \/ conn' = [conn EXCEPT ![c] = "closed"]
    BY <1>2 DEF Loop, Accept, ProtocolError, ReaderRaises, Receive, EndOfBatch
  <2>2. NoneReopens
    BY <2>1 DEF NoneReopens, LoopHolds, LoopTypeOK
  <2> QED
    BY <1>2, <2>2, LinkAlone DEF Loop
<1>3. ASSUME NEW c \in Links, ReplicaStarts(c)
      PROVE  LinkHolds'
  BY <1>3, StartsLink
<1>4. ASSUME NEW c \in Client, Session(c)
      PROVE  LinkHolds'
  BY <1>4, SessionTypes, DropsReopensNone, LinkAlone DEF Session
<1>5. ASSUME NEW c \in Client \ Links, NEW cmd \in Workload, Stateless(c, cmd)
      PROVE  LinkHolds'
  BY <1>5, StatelessLink
<1>6. CASE Handshake
  BY <1>6, HandshakeLink
<1>7. CASE ReplicaReads
  BY <1>7, ReadsLink
<1>8. CASE ReplicaApplies
  BY <1>8, AppliesLink
<1>9. CASE ReplicaEnds
  BY <1>9, GoneLink DEF ReplicaEnds, loopVars
<1>10. ASSUME NEW cmd \in Workload, ReplicaServes(cmd)
       PROVE  LinkHolds'
  BY <1>10, ServesLink
<1>11. ASSUME UNCHANGED <<conn, linkVars, masterVars>>
       PROVE  LinkHolds'
  BY <1>11, LinkAlone DEF NoneReopens
<1>12. CASE Clock
  BY <1>11, <1>12 DEF Clock, Tick
<1>13. CASE UNCHANGED vars
  BY <1>11, <1>13 DEF vars, loopVars
<1>14. ASSUME NEW c \in Client, NEW cmd \in Workload, ExecuteOnly(c, cmd)
       PROVE  LinkHolds'
  BY <1>14, ExecuteOnlyLink
<1> QED
  BY <1>1, <1>2, <1>3, <1>4, <1>5, <1>6, <1>7, <1>8, <1>9, <1>10, <1>12, <1>13, <1>14
     DEF Next, Idles

-----------------------------------------------------------------------------
(* What the commands sent rebuild.                                         *)

LEMMA InitLog == Init => LogHolds /\ MasterHolds /\ ReplicaHolds
<1> SUFFICES ASSUME Init PROVE LogHolds /\ MasterHolds /\ ReplicaHolds
  OBVIOUS
<1>1. /\ shipped = <<>> /\ applied = 0 /\ clean = {} /\ stray = {} /\ rdb = EmptyDB
      /\ Len(shipped) = 0
  BY EmptySeq DEF Init
<1>2. \A k \in Key : EmptyDB.data[k] = None /\ EmptyDB.expires[k] = None
  BY DEF EmptyDB
<1>3. ReplicaHolds
  BY <1>1, <1>2, EmptyIsWellFormed DEF ReplicaHolds, Rebuilt, Was
<1> QED
  BY <1>1, <1>3 DEF LogHolds, MasterHolds

(* The entries so far stay, and with them what they rebuild.               *)
LogStays ==
  /\ Len(shipped') >= Len(shipped)
  /\ \A n \in 1..Len(shipped) : shipped'[n] = shipped[n]

LEMMA StatelessLog ==
  ASSUME LoopHolds, LinkHolds, NEW c \in Client, NEW cmd \in Workload, Stateless(c, cmd)
  PROVE  LogStays
<1> DEFINE ships == PassedOn(cmd, Dispatch(db, now, cmd).reply) /\ replicas # {}
<1>1. Len(shipped) \in Nat
  BY LenProperties DEF LinkHolds
<1>2. CASE ships
  <2>1. LogGrows(cmd)
    BY <1>2, StatelessShips, Zenon
  <2> QED
    BY <1>1, <2>1 DEF LogGrows, LogStays
<1>3. CASE ~ships
  BY <1>1, <1>3 DEF Stateless, LogStays
<1> QED
  BY <1>2, <1>3

(* What a write that is passed on adds to the log.                         *)
LEMMA CleanHolds ==
  ASSUME LoopHolds, LinkHolds, MasterHolds, up, NEW cmd \in Workload,
         PassedOn(cmd, Dispatch(db, now, cmd).reply), NEW k \in CleanAfter(clean, cmd),
         k \in Key
  PROVE  LET e == Dispatch(db, now, cmd).db
         IN  /\ e.expires[k] = None
             /\ IF Settles(cmd) /\ cmd.key = k THEN e.data[k] = SettledAs(cmd)
                ELSE k \in clean /\ Rebuilds(db.data[k], cmd, e.data[k], k)
<1>1. cmd \in Command /\ WellFormed(db) /\ now \in Nat
  BY WorkloadIsCommands DEF LoopHolds, LoopTypeOK
<1>2. k \in clean => db.expires[k] = None
  BY DEF MasterHolds
<1>3. CASE Settles(cmd) /\ cmd.key = k
  BY <1>1, <1>3, Settled
<1>4. CASE ~(Settles(cmd) /\ cmd.key = k)
  BY <1>1, <1>2, <1>4, CleanIsRebuilt
<1> QED
  BY <1>3, <1>4

LEMMA StatelessMaster ==
  ASSUME LoopHolds, LinkHolds, LogHolds, MasterHolds,
         NEW c \in Client, NEW cmd \in Workload, Stateless(c, cmd)
  PROVE  LogHolds' /\ MasterHolds'
<1> DEFINE r == Dispatch(db, now, cmd)
           passed == PassedOn(cmd, r.reply)
<1>1. /\ up /\ db' = r.db /\ clean' = CleanAfter(clean, cmd) /\ UNCHANGED replicas
      /\ clean' \subseteq Key
  BY CleanStaysKeys DEF Stateless, Handles, Sends
<1>2. up' => r.reply # Raise
  BY DEF Stateless
<1>3. cmd \in Command /\ WellFormed(db) /\ now \in Nat /\ Len(shipped) \in Nat
  BY WorkloadIsCommands, LenProperties DEF LoopHolds, LoopTypeOK, LinkHolds
<1>4. LogStays
  BY StatelessLog
<1>5. CASE passed
  <2>1. \A k \in clean' :
          /\ db'.expires[k] = None
          /\ IF Settles(cmd) /\ cmd.key = k THEN db'.data[k] = SettledAs(cmd)
             ELSE k \in clean /\ Rebuilds(db.data[k], cmd, db'.data[k], k)
    BY <1>1, <1>5, CleanHolds
  <2>2. CASE replicas = {}
    <3>1. shipped' = shipped
      BY <2>2 DEF Stateless
    <3> QED
      BY <1>1, <2>1, <2>2, <3>1 DEF LogHolds, MasterHolds, Rebuilt, Was
  <2>3. CASE replicas # {}
    <3> DEFINE l == Len(shipped)
    <3>1. LogGrows(cmd)
      BY <1>5, <2>3, StatelessShips, Zenon
    <3>2. /\ Len(shipped') = l + 1
          /\ \A n \in 1..l : shipped'[n] = shipped[n]
          /\ shipped'[l + 1].cmd = cmd
          /\ shipped'[l + 1].data = db'.data
          /\ shipped'[l + 1].clean = clean'
      BY <3>1 DEF LogGrows
    <3>3. l \in Nat
      BY <1>3
    <3> HIDE DEF l, r
    <3>4. \A k \in clean : k \in Rebuilt(l) /\ db.data[k] = Was(l, k)
      BY <1>1, <2>3 DEF MasterHolds, l
    <3>5. MasterHolds'
      <4>1. Len(shipped') # 0
        BY <3>2, <3>3
      <4> QED
        BY <2>1, <3>2, <4>1 DEF MasterHolds, Rebuilt, Was
    <3>6. ASSUME NEW n \in 1..Len(shipped'), NEW k \in shipped'[n].clean
          PROVE  IF Settles(shipped'[n].cmd) /\ shipped'[n].cmd.key = k
                   THEN shipped'[n].data[k] = SettledAs(shipped'[n].cmd)
                   ELSE /\ k \in (Rebuilt(n - 1))'
                        /\ Rebuilds((Was(n - 1, k))', shipped'[n].cmd, shipped'[n].data[k], k)
      <4>1. n - 1 \in 0..l
        BY <3>2, <3>3
      <4>2. (Rebuilt(n - 1))' = Rebuilt(n - 1) /\ (Was(n - 1, k))' = Was(n - 1, k)
        BY <3>2, <3>3, <4>1 DEF Rebuilt, Was
      <4>3. CASE n = l + 1
        <5>1. n - 1 = l
          BY <3>3, <4>3
        <5>2. k \in clean'
          BY <3>2, <3>6, <4>3
        <5> QED
          BY <2>1, <3>2, <3>4, <4>2, <4>3, <5>1, <5>2
      <4>4. CASE n # l + 1
        <5>1. n \in 1..l
          BY <3>2, <3>3, <4>4
        <5> QED
          BY <3>2, <3>6, <4>2, <5>1 DEF LogHolds, l
      <4> QED
        BY <4>3, <4>4
    <3> QED
      BY <3>5, <3>6 DEF LogHolds
  <2> QED
    BY <2>2, <2>3
<1>6. CASE ~passed
  <2>1. shipped' = shipped
    BY <1>6 DEF Stateless
  <2>2. ASSUME NEW k \in clean', up'
        PROVE  k \in clean /\ db'.expires[k] = None /\ db'.data[k] = db.data[k]
    <3>1. ~Settles(cmd)
      <4>1. Settles(cmd) => cmd.key \in Key /\ cmd.op \in WriteCommands
        BY <1>3, ArgumentTypes DEF Settles, Writers, WriteCommands
      <4> QED
        BY <1>3, <1>6, <4>1, Settled DEF PassedOn
    <3>2. k \in clean
      BY <1>1, <2>2, <3>1 DEF CleanAfter
    <3>3. k \in Key /\ db.expires[k] = None /\ r.reply # Raise
      BY <1>1, <1>2, <2>2, <3>2 DEF MasterHolds
    <3> QED
      BY <1>1, <1>3, <1>6, <3>2, <3>3, NotWritten
  <2> QED
    BY <1>1, <2>1, <2>2 DEF LogHolds, MasterHolds, Rebuilt, Was
<1> QED
  BY <1>5, <1>6

(* What is still clean after a write that nobody is sent is as it was.     *)
LEMMA ExecuteOnlyMaster ==
  ASSUME LinkHolds, LogHolds, MasterHolds, NEW c, NEW cmd, ExecuteOnly(c, cmd)
  PROVE  LogHolds' /\ MasterHolds'
<1>1. /\ UNCHANGED <<replicas, shipped>> /\ up
      /\ clean' = clean \ Changed(db, db')
  BY DEF ExecuteOnly, Handles, Sends
<1>2. ASSUME NEW k \in clean'
      PROVE  k \in clean /\ db'.data[k] = db.data[k] /\ db'.expires[k] = db.expires[k]
  BY <1>1, <1>2 DEF Changed, LinkHolds
<1> QED
  BY <1>1, <1>2 DEF LogHolds, MasterHolds, Rebuilt, Was

LEMMA HandshakeMaster ==
  ASSUME LoopHolds, LinkHolds, LogHolds, MasterHolds, Handshake
  PROVE  LogHolds' /\ MasterHolds'
<1>1. UNCHANGED <<db, up>>
  BY DEF Handshake
<1>2. CASE UNCHANGED <<replicas, shipped, clean>>
  BY <1>1, <1>2 DEF LogHolds, MasterHolds, Rebuilt, Was
<1>3. CASE shipped' = <<>> /\ clean' = {k \in Key : db.data[k] = None}
  <2>1. Len(shipped') = 0
    BY <1>3, EmptySeq
  <2>2. \A k \in clean' : k \in Key /\ db.data[k] = None /\ db.expires[k] = None
    BY <1>3 DEF LoopHolds, WellFormed, DeadlinesOnStrings, HasType
  <2> QED
    BY <1>1, <2>1, <2>2 DEF LogHolds, MasterHolds, Rebuilt, Was
<1> QED
  BY <1>2, <1>3 DEF Handshake

(* Steps that write nothing at the master.                                 *)
LEMMA MasterAlone ==
  ASSUME LogHolds, MasterHolds, UNCHANGED <<db, replicas, shipped, clean>>, up' => up
  PROVE  LogHolds' /\ MasterHolds'
BY DEF LogHolds, MasterHolds, Rebuilt, Was

LEMMA NextMaster ==
  LoopHolds /\ LinkHolds /\ LogHolds /\ MasterHolds /\ [Next]_vars
    => LogHolds' /\ MasterHolds'
<1> SUFFICES ASSUME LoopHolds, LinkHolds, LogHolds, MasterHolds, [Next]_vars
             PROVE  LogHolds' /\ MasterHolds'
  OBVIOUS
<1> USE DEF masterVars
<1>1. ASSUME NEW c \in Client, Closing(c) \/ Loop(c) \/ ReplicaStarts(c)
      PROVE  LogHolds' /\ MasterHolds'
  BY <1>1, MasterAlone DEF Closing, HangUp, Loop, Accept, ProtocolError, ReaderRaises,
                           Receive, EndOfBatch, ReplicaStarts
<1>2. ASSUME NEW c \in Client, Session(c)
      PROVE  LogHolds' /\ MasterHolds'
  <2>1. UNCHANGED db /\ up
    BY <1>2 DEF Session, SessionStep, AnswerOnly, Auth, Subscribe, Unsubscribe, Publish,
                PublishRaises, Handles, Sends
  <2> QED
    BY <1>2, <2>1, MasterAlone DEF Session
<1>3. ASSUME NEW c \in Client, NEW cmd \in Workload, Stateless(c, cmd)
      PROVE  LogHolds' /\ MasterHolds'
  BY <1>3, StatelessMaster
<1>4. CASE Handshake
  BY <1>4, HandshakeMaster
<1>5. CASE ReplicaReads \/ ReplicaApplies \/ ReplicaEnds
  BY <1>5, MasterAlone DEF ReplicaReads, ReplicaApplies, ReplicaEnds, loopVars
<1>6. ASSUME NEW cmd \in Workload, ReplicaServes(cmd)
      PROVE  LogHolds' /\ MasterHolds'
  BY <1>6, MasterAlone DEF ReplicaServes, loopVars
<1>7. CASE Clock
  BY <1>7, MasterAlone DEF Clock, Tick
<1>8. CASE UNCHANGED vars
  BY <1>8, MasterAlone DEF vars, loopVars
<1>9. ASSUME NEW c \in Client, NEW cmd \in Workload, ExecuteOnly(c, cmd)
      PROVE  LogHolds' /\ MasterHolds'
  BY <1>9, ExecuteOnlyMaster
<1> QED
  BY <1>1, <1>2, <1>3, <1>4, <1>5, <1>6, <1>7, <1>8, <1>9, LinksAreClients DEF Next, Idles

-----------------------------------------------------------------------------
(* What the replica holds.                                                 *)

(* Steps of the master, which keep the entries the replica has run.        *)
LEMMA ReplicaAlone ==
  ASSUME LinkHolds, ReplicaHolds, UNCHANGED <<rdb, applied, stray>>,
         applied = 0 \/ LogStays
  PROVE  ReplicaHolds'
<1>1. applied # 0 => applied \in 1..Len(shipped)
  BY LenProperties DEF LinkHolds
<1>2. applied # 0 => shipped'[applied] = shipped[applied]
  BY <1>1 DEF LogStays
<1> QED
  BY <1>2 DEF ReplicaHolds, Rebuilt, Was

LEMMA GoneReplica ==
  ASSUME Gone
  PROVE  ReplicaHolds'
<1>1. applied' = 0 /\ stray' = {} /\ rdb' = EmptyDB
  BY DEF Gone
<1>2. \A k \in Key : EmptyDB.data[k] = None /\ EmptyDB.expires[k] = None
  BY DEF EmptyDB
<1> QED
  BY <1>1, <1>2, EmptyIsWellFormed DEF ReplicaHolds, Rebuilt, Was

LEMMA AppliesReplica ==
  ASSUME LoopHolds, LinkHolds, LogHolds, ReplicaHolds, ReplicaApplies
  PROVE  ReplicaHolds'
<1> DEFINE n == applied + 1
           cmd == shipped[n].cmd
           r == Dispatch(rdb, now, cmd)
<1>1. /\ stage = Streaming /\ Received /\ Head(flight).cmd = cmd /\ n \in 1..Len(shipped)
      /\ cmd \in Workload /\ shipped[n] \in Record /\ shipped' = shipped
  BY NextCommand DEF ReplicaApplies, masterVars
<1>2. CASE Gone
  BY <1>2, GoneReplica
<1>3. CASE ~Gone
  <2>1. /\ r.reply # Raise /\ rdb' = r.db /\ applied' = n
        /\ stray' = stray \ (IF Settles(cmd) THEN {cmd.key} ELSE {})
    BY <1>1, <1>3 DEF ReplicaApplies
  <2>2. cmd \in Command /\ now \in Nat /\ WellFormed(rdb) /\ n - 1 = applied /\ n # 0
        /\ stray \subseteq Key
    BY <1>1, WorkloadIsCommands, LenProperties
       DEF LoopHolds, LoopTypeOK, ReplicaHolds, LinkHolds
  <2>3. WellFormed(rdb')
    BY <2>1, <2>2, DispatchKeeps
  <2>4. ASSUME NEW k \in shipped[n].clean \ stray'
        PROVE  rdb'.expires[k] = None /\ rdb'.data[k] = shipped[n].data[k]
    <3>1. k \in Key
      BY <1>1 DEF Record
    <3>2. CASE Settles(cmd) /\ cmd.key = k
      <4>1. shipped[n].data[k] = SettledAs(cmd)
        BY <1>1, <2>4, <3>2 DEF LogHolds
      <4> QED
        BY <2>1, <2>2, <3>1, <3>2, <4>1, Settled
    <3>3. CASE ~(Settles(cmd) /\ cmd.key = k)
      <4>1. k \in Rebuilt(applied) /\ Rebuilds(Was(applied, k), cmd, shipped[n].data[k], k)
        BY <1>1, <2>2, <2>4, <3>3 DEF LogHolds
      <4>2. k \notin stray
        BY <2>1, <2>4, <3>3
      <4>3. rdb.expires[k] = None /\ rdb.data[k] = Was(applied, k)
        BY <4>1, <4>2 DEF ReplicaHolds
      <4> HIDE DEF cmd, n
      <4> QED
        BY <2>1, <2>2, <4>1, <4>3, Zenon DEF Rebuilds
    <3> QED
      BY <3>2, <3>3
  <2> HIDE DEF cmd, r
  <2> QED
    BY <1>1, <2>1, <2>2, <2>3, <2>4 DEF ReplicaHolds, Rebuilt, Was
<1> QED
  BY <1>2, <1>3

LEMMA ServesReplica ==
  ASSUME LoopHolds, LinkHolds, ReplicaHolds, NEW cmd \in Workload, ReplicaServes(cmd)
  PROVE  ReplicaHolds'
<1> DEFINE r == Dispatch(rdb, now, cmd)
<1>1. CASE Gone
  BY <1>1, GoneReplica
<1>2. CASE ~Gone
  <2>1. /\ rdb' = r.db /\ stray' = stray \cup Changed(rdb, r.db)
        /\ UNCHANGED <<applied, shipped>>
    BY <1>2 DEF ReplicaServes, masterVars
  <2>2. WellFormed(rdb')
    BY <2>1, WorkloadIsCommands, DispatchKeeps DEF LoopHolds, LoopTypeOK, ReplicaHolds
  <2>3. Rebuilt(applied) \subseteq Key
    <3>1. applied # 0 => shipped[applied] \in Record
      BY ElementOfSeq, LenProperties DEF LinkHolds
    <3> QED
      BY <3>1 DEF Rebuilt, Record
  <2>4. \A k \in Key \ stray' : rdb'.data[k] = rdb.data[k] /\ rdb'.expires[k] = rdb.expires[k]
    BY <2>1 DEF Changed
  <2>5. stray \subseteq stray' /\ stray' \subseteq Key
    BY <2>1 DEF ReplicaHolds, Changed
  <2> QED
    BY <2>1, <2>2, <2>3, <2>4, <2>5 DEF ReplicaHolds, Rebuilt, Was
<1> QED
  BY <1>1, <1>2

LEMMA NextReplica ==
  LoopHolds /\ LinkHolds /\ LogHolds /\ ReplicaHolds /\ [Next]_vars => ReplicaHolds'
<1> SUFFICES ASSUME LoopHolds, LinkHolds, LogHolds, ReplicaHolds, [Next]_vars
             PROVE  ReplicaHolds'
  OBVIOUS
<1>1. ASSUME UNCHANGED <<rdb, applied, stray, shipped>>
      PROVE  ReplicaHolds'
  BY <1>1 DEF ReplicaHolds, Rebuilt, Was
<1> USE DEF linkVars, masterVars
<1>2. ASSUME NEW c \in Client,
             Closing(c) \/ Loop(c) \/ ReplicaStarts(c) \/ Session(c)
      PROVE  ReplicaHolds'
  BY <1>1, <1>2 DEF Closing, Loop, ReplicaStarts, Session
<1>3. ASSUME NEW c \in Client, NEW cmd \in Workload, Stateless(c, cmd)
      PROVE  ReplicaHolds'
  BY <1>3, StatelessLog, ReplicaAlone DEF Stateless
<1>4. CASE Handshake
  <2>1. applied = 0
    BY <1>4 DEF Handshake, LinkHolds, Streaming
  <2> QED
    BY <1>4, <2>1, ReplicaAlone DEF Handshake
<1>5. CASE ReplicaReads
  BY <1>1, <1>5 DEF ReplicaReads
<1>6. CASE ReplicaApplies
  BY <1>6, AppliesReplica
<1>7. CASE ReplicaEnds
  BY <1>7, GoneReplica DEF ReplicaEnds
<1>8. ASSUME NEW cmd \in Workload, ReplicaServes(cmd)
      PROVE  ReplicaHolds'
  BY <1>8, ServesReplica
<1>9. CASE Clock
  BY <1>1, <1>9 DEF Clock
<1>10. CASE UNCHANGED vars
  BY <1>1, <1>10 DEF vars
<1>11. ASSUME NEW c \in Client, NEW cmd \in Workload, ExecuteOnly(c, cmd)
       PROVE  ReplicaHolds'
  BY <1>1, <1>11 DEF ExecuteOnly
<1> QED
  BY <1>2, <1>3, <1>4, <1>5, <1>6, <1>7, <1>8, <1>9, <1>10, <1>11, LinksAreClients
     DEF Next, Idles

-----------------------------------------------------------------------------
(* The bytes on the way.                                                   *)

Weight(m) == IF m \in Line THEN 0 ELSE SizeOf(m.cmd)

LEMMA WeightType == ASSUME NEW m \in Message PROVE Weight(m) \in Nat
BY SizesAreNatural DEF Weight, Message

(* h[m] are the bytes of the first m of s.                                 *)
Counts(h, s) ==
  /\ h \in [0..Len(s) -> Nat]
  /\ h[0] = 0
  /\ \A m \in 1..Len(s) : h[m] = h[m - 1] + Weight(s[m])

LEMMA BytesSteps ==
  ASSUME NEW s \in Seq(Message)
  PROVE  \E h : Counts(h, s) /\ Bytes(s) = h[Len(s)]
<1> DEFINE n == Len(s)
           g == [i \in 1..n |-> [r \in Nat |-> r + Weight(s[i])]]
           B(i, r) == IF s[i] \in Line THEN r ELSE r + SizeOf(s[i].cmd)
           F(it) == it = [u \in SUBSET DOMAIN s |->
                            IF u = {} THEN 0 ELSE B(Max(u), it[u \ {Max(u)}])]
           f == CHOOSE it : F(it)
<1>1. Bytes(s) = f[DOMAIN s]
  BY DEF Bytes, FoldLeft, MapThenFoldSet
<1>2. n \in Nat /\ DOMAIN s = 1..n /\ \A i \in 1..n : s[i] \in Message
  BY LenProperties, ElementOfSeq
<1>3. g \in [1..n -> [Nat -> Nat]]
  BY <1>2, WeightType
<1>4. /\ \A i \in 1..n : \A r \in Nat : g[i][r] = r + Weight(s[i])
      /\ \A i \in 1..n : \A r \in Nat : g[i][r] = B(i, r)
  BY DEF Weight
<1> HIDE DEF g, n, B
<1>5. \E it : F(it)
  <2>1. PICK it : Folds(it, 0, g, Nat, n)
    BY <1>2, <1>3, FoldExists
  <2>2. ASSUME NEW u \in SUBSET (1..n), u # {}
        PROVE  Max(u) \in 1..n /\ it[u \ {Max(u)}] \in Nat
    <3>1. Max(u) \in u
      BY <1>2, <2>2, MaxIsMember
    <3> QED
      BY <2>1, <3>1 DEF Folds
  <2> DEFINE G(u) == IF u = {} THEN 0 ELSE B(Max(u), it[u \ {Max(u)}])
  <2>3. ASSUME NEW u \in SUBSET (1..n)
        PROVE  it[u] = G(u)
    <3>1. CASE u = {}
      BY <2>1, <3>1 DEF Folds
    <3>2. CASE u # {}
      <4>1. it[u] = g[Max(u)][it[u \ {Max(u)}]]
        BY <2>1, <3>2 DEF Folds
      <4> QED
        BY <1>4, <2>2, <3>2, <4>1
    <3> QED
      BY <3>1, <3>2
  <2>4. it = [u \in SUBSET DOMAIN s |-> it[u]]
    BY <1>2, <2>1 DEF Folds
  <2> HIDE DEF G
  <2>5. it = [u \in SUBSET DOMAIN s |-> G(u)]
    BY <1>2, <2>3, <2>4
  <2> QED
    BY <2>5 DEF G
<1>6. F(f)
  BY <1>5
<1> HIDE DEF f
<1>7. f[{}] = 0
  BY <1>6
<1>8. ASSUME NEW m \in 1..n, f[1..(m - 1)] \in Nat
      PROVE  f[1..m] = g[m][f[1..(m - 1)]]
  <2>1. /\ 1..m \in SUBSET DOMAIN s /\ 1..m # {}
        /\ Max(1..m) = m /\ (1..m) \ {m} = 1..(m - 1)
    BY <1>2, PrefixSets
  <2>2. f[1..m] = B(m, f[1..(m - 1)])
    BY <1>6, <2>1
  <2> QED
    BY <1>4, <1>8, <2>2
<1>9. PICK h : Runs(h, f, 0, g, Nat, n)
  <2>1. Extends(f, 0, g, Nat, n)
    BY <1>7, <1>8 DEF Extends
  <2>2. n \in Nat /\ 0 \in Nat
    BY <1>2
  <2>3. g \in [1..n -> [Nat -> Nat]]
    BY <1>3
  <2> QED
    BY <2>1, <2>2, <2>3, FoldRuns
<1> USE DEF Runs
<1>10. \A m \in 1..n : h[m] = h[m - 1] + Weight(s[m])
  <2>1. \A m \in 1..n : h[m - 1] \in Nat
    BY <1>2, <1>9
  <2> QED
    BY <1>4, <1>9, <2>1
<1> QED
  BY <1>1, <1>2, <1>9, <1>10 DEF n, Counts

LEMMA BytesType == ASSUME NEW s \in Seq(Message) PROVE Bytes(s) \in Nat
BY BytesSteps, LenProperties DEF Counts

(* Lines are not counted.                                                  *)
LEMMA BytesOfLines ==
  ASSUME NEW s \in Seq(Message), \A i \in 1..Len(s) : s[i] \in Line
  PROVE  Bytes(s) = 0
<1> DEFINE n == Len(s)
<1>1. PICK h : Counts(h, s) /\ Bytes(s) = h[n]
  BY BytesSteps
<1>2. n \in Nat /\ h[0] = 0 /\ \A m \in 1..n : h[m] = h[m - 1] + 0
  BY <1>1, LenProperties DEF Counts, Weight
<1> DEFINE N == {m \in Nat : m <= n => h[m] = 0}
<1>3. N = Nat
  <2>1. 0 \in N
    BY <1>2
  <2>2. ASSUME NEW m \in N, m + 1 <= n
        PROVE  h[m + 1] = 0
    <3>1. m + 1 \in 1..n /\ (m + 1) - 1 = m /\ h[m] = 0
      BY <1>2, <2>2
    <3> QED
      BY <1>2, <3>1
  <2>3. \A m \in N : m + 1 \in N
    BY <2>2
  <2> N \in SUBSET Nat
    OBVIOUS
  <2> HIDE DEF N
  <2> QED
    BY <2>1, <2>3, Induction
<1> QED
  BY <1>1, <1>2, <1>3

(* The count of a sequence that follows another one element behind.        *)
LEMMA CountsShift ==
  ASSUME NEW s \in Seq(Message), NEW a \in Seq(Message), NEW b \in {0, 1},
         NEW l \in 0..Len(s), l + b <= Len(a), \A i \in 1..l : a[i + b] = s[i],
         NEW h, Counts(h, s), NEW g, Counts(g, a)
  PROVE  g[l + b] = g[b] + h[l]
<1> DEFINE N == {m \in Nat : m <= l => g[m + b] = g[b] + h[m]}
<1>1. /\ l \in Nat /\ Len(s) \in Nat /\ Len(a) \in Nat /\ l <= Len(s) /\ b \in Nat
  BY LenProperties
<1>2. /\ h \in [0..Len(s) -> Nat] /\ h[0] = 0
      /\ \A m \in 1..Len(s) : h[m] = h[m - 1] + Weight(s[m])
      /\ g \in [0..Len(a) -> Nat] /\ g[0] = 0
      /\ \A m \in 1..Len(a) : g[m] = g[m - 1] + Weight(a[m])
  BY DEF Counts
<1>3. 0 \in N
  <2>1. b \in 0..Len(a)
    BY <1>1
  <2>2. g[b] \in Nat
    BY <1>2, <2>1
  <2>3. g[0 + b] = g[b] + h[0]
    BY <1>1, <1>2, <2>2
  <2> QED
    BY <2>3
<1>4. ASSUME NEW m \in N, m + 1 <= l
      PROVE  g[m + 1 + b] = g[b] + h[m + 1]
  <2>1. /\ m + 1 \in 1..l /\ m + 1 \in 1..Len(s) /\ (m + 1) - 1 = m
        /\ m + 1 + b \in 1..Len(a) /\ (m + 1 + b) - 1 = m + b
        /\ g[m + b] = g[b] + h[m]
    BY <1>1, <1>4
  <2>2. a[m + 1 + b] = s[m + 1]
    BY <2>1
  <2>3. h[m + 1] = h[m] + Weight(s[m + 1]) /\ g[m + 1 + b] = g[m + b] + Weight(s[m + 1])
    BY <1>2, <2>1, <2>2
  <2>4. Weight(s[m + 1]) \in Nat /\ h[m] \in Nat /\ g[b] \in Nat
    <3>1. s[m + 1] \in Message
      BY <2>1, ElementOfSeq
    <3>2. m \in 0..Len(s) /\ b \in 0..Len(a)
      BY <1>1, <2>1
    <3> QED
      BY <1>2, <3>1, <3>2, WeightType
  <2> QED
    BY <2>1, <2>3, <2>4
<1>5. N = Nat
  <2>1. \A m \in N : m + 1 \in N
    BY <1>4
  <2> N \in SUBSET Nat
    OBVIOUS
  <2> HIDE DEF N
  <2> QED
    BY <1>3, <2>1, Induction
<1> HIDE DEF N
<1>6. l \in N
  BY <1>1, <1>5
<1>7. l <= l
  BY <1>1
<1> QED
  BY <1>6, <1>7 DEF N

LEMMA BytesOfAppend ==
  ASSUME NEW s \in Seq(Message), NEW m \in Message
  PROVE  Bytes(Append(s, m)) = Bytes(s) + Weight(m)
<1> DEFINE a == Append(s, m)
           n == Len(s)
<1>1. /\ n \in Nat /\ a \in Seq(Message) /\ Len(a) = n + 1
      /\ \A i \in 1..n : a[i] = s[i]
      /\ a[n + 1] = m
  BY AppendProperties, LenProperties
<1>2. PICK h : Counts(h, s) /\ Bytes(s) = h[n]
  BY BytesSteps
<1> HIDE DEF a
<1>3. PICK g : Counts(g, a) /\ Bytes(a) = g[Len(a)]
  BY <1>1, BytesSteps
<1>4. g[n + 0] = g[0] + h[n]
  <2>1. n \in 0..Len(s) /\ n + 0 <= Len(a) /\ \A i \in 1..n : a[i + 0] = s[i]
    BY <1>1
  <2> HIDE DEF n
  <2> QED
    BY <1>1, <1>2, <1>3, <2>1, CountsShift
<1>5. n + 1 \in 1..Len(a) /\ (n + 1) - 1 = n /\ n + 0 = n /\ h[n] \in Nat
  BY <1>1, <1>2 DEF Counts
<1>6. g[n + 1] = g[n] + Weight(m) /\ g[0] = 0
  BY <1>1, <1>3, <1>5 DEF Counts
<1> QED
  BY <1>1, <1>2, <1>3, <1>4, <1>5, <1>6 DEF a

LEMMA BytesOfTail ==
  ASSUME NEW s \in Seq(Message), s # <<>>
  PROVE  Bytes(s) = Weight(s[1]) + Bytes(Tail(s))
<1> DEFINE t == Tail(s)
           n == Len(t)
<1>1. /\ n \in Nat /\ t \in Seq(Message) /\ Len(s) = n + 1
      /\ \A i \in 1..n : s[i + 1] = t[i]
  BY HeadTailProperties, EmptySeq, LenProperties
<1> HIDE DEF t
<1>2. PICK h : Counts(h, t) /\ Bytes(t) = h[n]
  BY <1>1, BytesSteps
<1>3. PICK g : Counts(g, s) /\ Bytes(s) = g[Len(s)]
  BY BytesSteps
<1>4. g[n + 1] = g[1] + h[n]
  <2>1. n \in 0..Len(t) /\ n + 1 <= Len(s) /\ 1 \in {0, 1}
    BY <1>1
  <2> HIDE DEF n
  <2> QED
    BY <1>1, <1>2, <1>3, <2>1, CountsShift
<1>5. g[1] = g[1 - 1] + Weight(s[1]) /\ 1 - 1 = 0 /\ g[0] = 0
  BY <1>1, <1>3 DEF Counts
<1>6. Weight(s[1]) \in Nat
  <2>1. 1 \in 1..Len(s)
    BY <1>1
  <2> QED
    BY <2>1, ElementOfSeq, WeightType
<1> QED
  BY <1>1, <1>2, <1>3, <1>4, <1>5, <1>6 DEF t

LEMMA InitOffsets == Init => OffsetsHold
<1> SUFFICES ASSUME Init PROVE OffsetsHold
  OBVIOUS
<1>1. moffset = 0 /\ roffset = 0 /\ base = 0 /\ replicas = {}
  BY DEF Init
<1> QED
  BY <1>1 DEF OffsetsHold, OffsetsAgree

(* Nothing is sent, and no connection is opened again.                     *)
LEMMA OffsetsAlone ==
  ASSUME LinkHolds, OffsetsHold,
         link \in replicas /\ conn'[link] = "open" => conn[link] = "open",
         UNCHANGED <<moffset, roffset, base, link, replicas>>,
         link \in replicas /\ conn'[link] = "open" => flight' = flight
  PROVE  OffsetsHold'
<1>1. moffset' \in Nat /\ roffset' \in Nat /\ base' \in 0..moffset'
  BY DEF OffsetsHold
<1>2. CASE link \in replicas /\ conn'[link] = "open"
  <2>1. flight' = flight /\ roffset + Bytes(flight) = moffset - base
    BY <1>2 DEF OffsetsHold, OffsetsAgree
  <2>2. Bytes(flight') = Bytes(flight)
    BY <2>1
  <2> QED
    BY <1>1, <2>1, <2>2 DEF OffsetsHold, OffsetsAgree
<1>3. CASE ~(link \in replicas /\ conn'[link] = "open")
  BY <1>1, <1>3 DEF OffsetsHold, OffsetsAgree
<1> QED
  BY <1>2, <1>3

(* Without a connection that is a replica's there is nothing to compare.   *)
LEMMA OffsetsApart ==
  ASSUME moffset' \in Nat /\ roffset' \in Nat /\ base' \in 0..moffset',
         ~(link' \in replicas' /\ conn'[link'] = "open")
  PROVE  OffsetsHold'
BY DEF OffsetsHold, OffsetsAgree

LEMMA StatelessOffsets ==
  ASSUME LoopHolds, LinkHolds, OffsetsHold,
         NEW c \in Client \ Links, NEW cmd \in Workload, Stateless(c, cmd)
  PROVE  OffsetsHold'
<1> DEFINE ships == PassedOn(cmd, Dispatch(db, now, cmd).reply) /\ replicas # {}
           S == (IF up' THEN {c} ELSE {}) \cup (IF ships THEN replicas ELSE {})
           msg == [cmd |-> cmd]
<1> c \in Client
  OBVIOUS
<1>1. /\ UNCHANGED <<replicas, link, base, roffset>>
      /\ Send(S, <<msg>>)
      /\ moffset' = IF ships THEN moffset + SizeOf(cmd) ELSE moffset
  BY DEF Stateless
<1>2. NoneReopens
  BY StatelessTypes, DropsReopensNone
<1>3. link \in S <=> link \in replicas /\ ships
  BY NoneIsNoClient, LinksAreClients DEF LinkHolds
<1>4. /\ msg \in Message /\ <<msg>> \in Seq(Message)
      /\ Weight(msg) = SizeOf(cmd) /\ SizeOf(cmd) \in Nat
  BY SizesAreNatural DEF Message, Weight, Line
<1> HIDE DEF ships, S, msg
<1>5. moffset' \in Nat /\ roffset' \in Nat /\ base' \in 0..moffset'
  BY <1>1, <1>4 DEF OffsetsHold
<1>6. CASE ~(link \in replicas /\ conn'[link] = "open")
  BY <1>1, <1>5, <1>6, OffsetsApart
<1>7. CASE link \in replicas /\ conn'[link] = "open"
  <2>1. conn[link] = "open"
    BY <1>2, <1>7, LinksAreClients DEF LinkHolds, NoneReopens
  <2>2. CASE ~ships
    <3>1. UNCHANGED <<flight, moffset>>
      BY <1>1, <1>3, <1>4, <2>2, SendMoves
    <3> QED
      BY <1>1, <2>1, <3>1, OffsetsAlone
  <2>3. CASE ships
    <3>1. flight' = flight \o <<msg>> /\ flight \in Seq(Message)
      BY <1>1, <1>3, <1>4, <1>7, <2>1, <2>3, SendMoves DEF LinkHolds
    <3>2. flight' = Append(flight, msg)
      BY <1>4, <3>1, AppendIsConcat
    <3>3. Bytes(flight') = Bytes(flight) + SizeOf(cmd) /\ Bytes(flight) \in Nat
      BY <1>4, <3>1, <3>2, BytesOfAppend, BytesType
    <3>4. roffset + Bytes(flight) = moffset - base
      BY <1>7, <2>1 DEF OffsetsHold, OffsetsAgree
    <3>5. moffset' = moffset + SizeOf(cmd)
      BY <1>1, <2>3
    <3> DEFINE b == Bytes(flight)
               b2 == Bytes(flight')
               z == SizeOf(cmd)
    <3>6. roffset' + b2 = moffset' - base'
      <4>1. /\ b2 = b + z /\ b \in Nat /\ roffset + b = moffset - base /\ moffset' = moffset + z
            /\ z \in Nat
        BY <1>4, <3>3, <3>4, <3>5
      <4> HIDE DEF b, b2, z
      <4> QED
        BY <1>1, <4>1 DEF OffsetsHold
    <3> QED
      BY <1>5, <3>6 DEF OffsetsHold, OffsetsAgree
  <2> QED
    BY <2>2, <2>3
<1> QED
  BY <1>6, <1>7

LEMMA HandshakeOffsets ==
  ASSUME LoopHolds, LinkHolds, OffsetsHold, Handshake
  PROVE  OffsetsHold'
<1>1. /\ link \notin replicas /\ stage \in 1..4
      /\ UNCHANGED <<link, stage, moffset, roffset, applied>> /\ roffset = 0
      /\ LinkHolds'
  <2>1. asked /\ UNCHANGED <<link, stage, moffset, roffset, applied>>
    BY DEF Handshake
  <2>2. stage \in 1..4
    BY <2>1 DEF LinkHolds
  <2>3. link \notin replicas
    BY <2>1 DEF LinkHolds, Sent
  <2>4. roffset = 0
    BY <2>2 DEF LinkHolds, Streaming
  <2> QED
    BY <2>1, <2>2, <2>3, <2>4, HandshakeLink
<1>2. base' = base \/ base' = moffset
  BY DEF Handshake
<1>3. moffset' \in Nat /\ roffset' \in Nat /\ base' \in 0..moffset'
  BY <1>1, <1>2 DEF OffsetsHold
<1>4. CASE UNCHANGED replicas
  BY <1>1, <1>3, <1>4, OffsetsApart
<1>5. CASE base' = moffset /\ link \in replicas'
  <2>1. (Sent' /\ shipped' = <<>>) \/ UNCHANGED replicas
    BY <1>1, <1>5 DEF Handshake, LinkHolds
  <2>2. CASE Sent' /\ shipped' = <<>>
    <3>1. /\ flight' \in Seq(Message) /\ Len(shipped') = 0 /\ applied' = 0 /\ stage' \in 4..6
          /\ Len(flight') \in Nat
      <4>1. applied' \in 0..Len(shipped') /\ flight' \in Seq(Message)
        BY <1>1 DEF LinkHolds
      <4> QED
        BY <2>2, <4>1, EmptySeq, LenProperties DEF Sent, Streaming
    <3>2. Len(flight') + stage' <= 6
      BY <2>2, <3>1 DEF Sent, Streaming
    <3>3. ASSUME NEW i \in 1..Len(flight')
          PROVE  flight'[i] \in Line
      <4> DEFINE l == Len(flight')
                 q == stage'
      <4>1. l \in Nat /\ q \in Nat /\ l + q <= 6 /\ i \in 1..l
        BY <3>1, <3>2
      <4> HIDE DEF l, q
      <4>2. i + q <= 6
        BY <4>1
      <4> QED
        BY <2>2, <4>2 DEF Sent, Streaming, q
    <3>4. Bytes(flight') = 0
      BY <3>1, <3>3, BytesOfLines
    <3> QED
      BY <1>1, <1>3, <1>5, <3>4 DEF OffsetsHold, OffsetsAgree
  <2> QED
    BY <1>4, <2>1, <2>2
<1> QED
  BY <1>4, <1>5 DEF Handshake

LEMMA ReadsOffsets ==
  ASSUME LinkHolds, OffsetsHold, ReplicaReads
  PROVE  OffsetsHold'
<1>1. /\ stage \in 1..5 /\ Received /\ flight' = Tail(flight)
      /\ UNCHANGED <<conn, replicas, moffset, base, link, roffset>>
  BY DEF ReplicaReads, loopVars, masterVars
<1>2. moffset' \in Nat /\ roffset' \in Nat /\ base' \in 0..moffset'
  BY <1>1 DEF OffsetsHold
<1>3. CASE link \notin replicas
  BY <1>1, <1>2, <1>3, OffsetsApart
<1>4. CASE link \in replicas
  <2>1. flight \in Seq(Message) /\ flight # <<>> /\ Len(flight) \in Nat \ {0}
        /\ Tail(flight) \in Seq(Message)
    BY <1>1, TakenFlight DEF Received, LinkHolds
  <2>2. flight[1] \in Line
    <3>1. Sent /\ 1 \in 1..Len(flight) /\ 1 + stage <= Streaming
      BY <1>1, <1>4, <2>1 DEF LinkHolds, Streaming
    <3> QED
      BY <3>1 DEF Sent
  <2>3. Bytes(flight) = 0 + Bytes(Tail(flight)) /\ Bytes(Tail(flight)) \in Nat
    BY <2>1, <2>2, BytesOfTail, BytesType DEF Weight
  <2>4. Bytes(flight') = Bytes(flight)
    BY <1>1, <2>3
  <2> QED
    BY <1>1, <1>2, <2>4 DEF OffsetsHold, OffsetsAgree
<1> QED
  BY <1>3, <1>4

LEMMA AppliesOffsets ==
  ASSUME LinkHolds, OffsetsHold, ReplicaApplies, ~Gone
  PROVE  OffsetsHold'
<1> DEFINE cmd == Head(flight).cmd
           z == SizeOf(cmd)
           b == Bytes(flight)
           b2 == Bytes(flight')
<1>1. /\ stage = Streaming /\ Received /\ flight' = Tail(flight)
      /\ roffset' = roffset + SizeOf(cmd)
      /\ UNCHANGED <<conn, replicas, moffset, base, link>>
  BY DEF ReplicaApplies, loopVars, masterVars
<1>2. cmd \in Workload /\ Head(flight) = [cmd |-> cmd]
  BY <1>1, NextCommand
<1>3. flight \in Seq(Message) /\ flight # <<>> /\ Tail(flight) \in Seq(Message)
      /\ Head(flight) = flight[1]
  BY <1>1, TakenFlight DEF Received, LinkHolds
<1>4. z \in Nat /\ Weight(flight[1]) = z
  <2>1. [cmd |-> cmd] \notin Line /\ [cmd |-> cmd].cmd = cmd
    BY DEF Line
  <2> HIDE DEF cmd
  <2> QED
    BY <1>2, <1>3, <2>1, SizesAreNatural DEF Weight
<1>5. b = z + b2 /\ b2 \in Nat
  <2> HIDE DEF z
  <2> QED
    BY <1>1, <1>3, <1>4, BytesOfTail, BytesType
<1>6. roffset' = roffset + z
  BY <1>1
<1> HIDE DEF z, b, b2, cmd
<1>7. moffset' \in Nat /\ roffset' \in Nat /\ base' \in 0..moffset'
  BY <1>1, <1>4, <1>6 DEF OffsetsHold
<1>8. link \in replicas /\ conn[link] = "open" => roffset + b = moffset - base
  BY DEF OffsetsHold, OffsetsAgree, b
<1>9. link \in replicas /\ conn[link] = "open" => roffset' + b2 = moffset' - base'
  BY <1>1, <1>4, <1>5, <1>6, <1>8 DEF OffsetsHold
<1> QED
  BY <1>1, <1>7, <1>9 DEF OffsetsHold, OffsetsAgree, b2

LEMMA GoneOffsets ==
  ASSUME LinkHolds, OffsetsHold, Gone, UNCHANGED <<loopVars, masterVars>>
  PROVE  OffsetsHold'
<1>1. link' = None /\ None \notin replicas /\ roffset' = 0
  BY LinksAreClients, NoneIsNoClient DEF Gone, LinkHolds
<1>2. moffset' \in Nat /\ roffset' \in Nat /\ base' \in 0..moffset'
  BY <1>1 DEF OffsetsHold, masterVars
<1> QED
  BY <1>1, <1>2, OffsetsApart DEF masterVars

LEMMA NextOffsets ==
  IInv /\ LoopHolds /\ LinkHolds /\ OffsetsHold /\ [Next]_vars => OffsetsHold'
<1> SUFFICES ASSUME IInv, LoopHolds, LinkHolds, OffsetsHold, [Next]_vars
             PROVE  OffsetsHold'
  OBVIOUS
<1>1. link \in replicas => link \in Client /\ conn[link] # "new"
  BY LinksAreClients DEF LinkHolds
<1> USE DEF masterVars
<1>2. ASSUME NEW c \in Client, Closing(c)
      PROVE  OffsetsHold'
  <2>1. /\ conn' = [conn EXCEPT ![c] = "closed"]
        /\ UNCHANGED <<moffset, base, replicas, link, roffset>>
        /\ c # link => flight' = flight
    BY <1>2 DEF Closing, HangUp
  <2>2. link \in replicas /\ conn'[link] = "open" => c # link /\ conn[link] = "open"
    BY <1>1, <2>1 DEF LoopHolds, LoopTypeOK
  <2> QED
    BY <2>1, <2>2, OffsetsAlone
<1>3. ASSUME NEW c \in Client, Loop(c)
      PROVE  OffsetsHold'
  <2>1. \/ conn' = conn
        \/ c \notin Links /\ \E x : conn' = [conn EXCEPT ![c] = x]
    BY <1>3 DEF Loop, Accept, ProtocolError, ReaderRaises, Receive, EndOfBatch
  <2>2. link \in replicas /\ conn'[link] = "open" => conn[link] = "open"
    BY <1>1, <2>1 DEF LoopHolds, LoopTypeOK, LinkHolds
  <2> QED
    BY <1>3, <2>2, OffsetsAlone DEF Loop, linkVars
<1>4. ASSUME NEW c \in Links, ReplicaStarts(c)
      PROVE  OffsetsHold'
  <2>1. link' = c /\ c \notin replicas /\ UNCHANGED <<moffset, base, replicas, roffset>>
    BY <1>4 DEF ReplicaStarts, Accept, LinkHolds
  <2>2. moffset' \in Nat /\ roffset' \in Nat /\ base' \in 0..moffset'
    BY <2>1 DEF OffsetsHold
  <2> QED
    BY <2>1, <2>2, OffsetsApart
<1>5. ASSUME NEW c \in Client, Session(c)
      PROVE  OffsetsHold'
  <2>1. NoneReopens
    BY <1>5, SessionTypes, DropsReopensNone DEF Session
  <2>2. link \in replicas /\ conn'[link] = "open" => conn[link] = "open"
    BY <1>1, <2>1 DEF NoneReopens
  <2> QED
    BY <1>5, <2>2, OffsetsAlone DEF Session, linkVars
<1>6. ASSUME NEW c \in Client \ Links, NEW cmd \in Workload, Stateless(c, cmd)
      PROVE  OffsetsHold'
  BY <1>6, StatelessOffsets
<1>7. CASE Handshake
  BY <1>7, HandshakeOffsets
<1>8. CASE ReplicaReads
  BY <1>8, ReadsOffsets
<1>9. CASE ReplicaApplies
  BY <1>9, AppliesOffsets, GoneOffsets DEF ReplicaApplies
<1>10. CASE ReplicaEnds
  BY <1>10, GoneOffsets DEF ReplicaEnds
<1>11. ASSUME NEW cmd \in Workload, ReplicaServes(cmd)
       PROVE  OffsetsHold'
  <2>1. CASE Gone
    BY <1>11, <2>1, GoneOffsets DEF ReplicaServes
  <2>2. CASE ~Gone
    BY <1>11, <2>2, OffsetsAlone DEF ReplicaServes, loopVars
  <2> QED
    BY <2>1, <2>2
<1>12. CASE Clock
  BY <1>12, OffsetsAlone DEF Clock, Tick, linkVars
<1>13. CASE UNCHANGED vars
  BY <1>13, OffsetsAlone DEF vars, loopVars, linkVars
<1>14. ASSUME NEW c \in Client, NEW cmd \in Workload, ExecuteOnly(c, cmd)
       PROVE  OffsetsHold'
  <2>1. NoneReopens
    BY <1>14, ExecuteOnlyTypes, DropsReopensNone
  <2>2. link \in replicas /\ conn'[link] = "open" => conn[link] = "open"
    BY <1>1, <2>1 DEF NoneReopens
  <2>3. UNCHANGED linkVars
    BY <1>14, ExecuteOnlySends
  <2> QED
    BY <1>14, <2>2, <2>3, OffsetsAlone DEF ExecuteOnly, linkVars
<1> QED
  BY <1>2, <1>3, <1>4, <1>5, <1>6, <1>7, <1>8, <1>9, <1>10, <1>11, <1>12, <1>13, <1>14
     DEF Next, Idles

-----------------------------------------------------------------------------
(* All of it, for every behaviour.                                         *)

Inductive ==
  /\ IInv
  /\ LoopHolds
  /\ LinkHolds
  /\ LogHolds
  /\ MasterHolds
  /\ ReplicaHolds
  /\ OffsetsHold

LEMMA AlwaysInductive == Spec => []Inductive
<1>1. Init => Inductive
  BY InitIInv, InitLoop, InitLink, InitLog, InitOffsets DEF Inductive
<1>2. Inductive /\ [Next]_vars => Inductive'
  BY NextIInv, NextLoop, NextLink, NextMaster, NextReplica, NextOffsets DEF Inductive
<1> QED
  BY <1>1, <1>2, PTL DEF Spec

(* The types of the master, of the connection and of the replica: what     *)
(* the replica has not read is lines of the handshake and commands, and    *)
(* it has run no more commands than were sent (server.py:84-211, 284-367). *)
THEOREM TypeCorrect == Spec => []TypeOK
<1>1. Inductive => TypeOK
  <2> SUFFICES ASSUME Inductive PROVE TypeOK
    OBVIOUS
  <2>1. SessionsTypeOK
    BY DEF Inductive, LoopHolds, IInv, SubscriptionDicts, SessionsTypeOK
  <2>2. flight \in Seq(Line \cup Shipment)
    <3>1. Message \subseteq Line \cup Shipment
      BY WorkloadIsCommands DEF Message, Shipment
    <3>2. flight \in Seq(Message)
      BY DEF Inductive, LinkHolds
    <3> QED
      BY <3>1, <3>2
  <2>3. rdb \in DB /\ stray \subseteq Key
    BY DEF Inductive, ReplicaHolds, WellFormed
  <2>4. moffset \in Nat /\ roffset \in Nat /\ base \in 0..moffset
    BY DEF Inductive, OffsetsHold
  <2>5. LinkHolds
    BY DEF Inductive
  <2> QED
    BY <2>1, <2>2, <2>3, <2>4, <2>5 DEF LinkHolds, TypeOK
<1> QED
  BY <1>1, AlwaysInductive, PTL

(* The replica has run the first of the commands sent since its PSYNC, and *)
(* holds what they rebuild, whatever was on the way when the snapshot was  *)
(* thrown away, whatever the connection dropped, whatever other clients of *)
(* either side do, and whatever EXEC writes and BLPOP pops at the master,  *)
(* of which the replica is not told: they make the keys they change        *)
(* unclean (server.py:148-211, 320-367, connection_state.py:265, 382, 406).*)
THEOREM ReplicaKeepsUp == Spec => []ReplicaFollows
<1>1. Inductive => ReplicaFollows
  <2> SUFFICES ASSUME Inductive, applied > 0, NEW k \in shipped[applied].clean \ stray
               PROVE  rdb.data[k] = shipped[applied].data[k]
    BY DEF ReplicaFollows
  <2>1. applied # 0
    OBVIOUS
  <2> QED
    BY <2>1 DEF Inductive, ReplicaHolds, Rebuilt, Was
<1> QED
  BY <1>1, AlwaysInductive, PTL

(* The offsets differ by what is on the way, from the answer to PSYNC on   *)
(* and for any length of the commands (server.py:148-157, 204-211).        *)
THEOREM OffsetsKeepPace == Spec => []OffsetsAgree
<1>1. Inductive => OffsetsAgree
  BY DEF Inductive, OffsetsHold
<1> QED
  BY <1>1, AlwaysInductive, PTL

=============================================================================
