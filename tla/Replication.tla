----------------------------- MODULE Replication -----------------------------
(***************************************************************************)
(* A master and a replica (server.py).  The replica is a second process,   *)
(* and a client of the master: it connects, takes the four lines and the   *)
(* empty snapshot of the handshake, and applies what it is sent from then  *)
(* on.  The master's side is a connection like any other (Sessions).       *)
(*                                                                         *)
(* flight is what the master has written to the replica and the replica    *)
(* has not read.  Its last messages may still be in out_buffers (stuck):   *)
(* they leave it only with a later write to the same client.               *)
(***************************************************************************)
EXTENDS Sessions

CONSTANTS Links,      \* the connections the replica makes
          SizeOf(_),  \* the length of a command as it is sent
          MaxShipped  \* bound: commands sent to one connection of the replica

ASSUME LinksAreClients == Links \subseteq Client
ASSUME SizesAreNatural == \A cmd \in Workload : SizeOf(cmd) \in Nat

VARIABLES replicas,  \* replica_sockets
          moffset,   \* master_repl_offset of the master
          link,      \* the connection the replica uses, or None
          stage,     \* the replica: Off, a line of the handshake it reads
                     \* (1 to 5), or Streaming
          asked,     \* a line of the handshake is still to be asked for: by
                     \* PING, two REPLCONFs and PSYNC
          flight, stuck,
          rdb,       \* the replica's keyspace
          roffset,   \* master_repl_offset of the replica
          \* History variables.
          base,      \* the master's offset at PSYNC
          shipped,   \* the commands sent since, with the data they stood for
          applied,   \* how many of them the replica has run
          clean,     \* the keys these commands rebuild
          stray      \* the keys the replica's own clients have changed since

Off == 0
Streaming == 6

linkVars == <<link, stage, asked, flight, stuck, rdb, roffset, applied, stray>>
masterVars == <<replicas, moffset, base, shipped, clean>>
vars == <<loopVars, sessionVars, linkVars, masterVars>>

Line == [line : {"answer", "fullresync", "rdb"}]
Shipment == [cmd : Command]

TypeOK ==
  /\ SessionsTypeOK
  /\ replicas \subseteq Links
  /\ moffset \in Nat /\ roffset \in Nat /\ base \in 0..moffset
  /\ link \in Links \cup {None}
  /\ stage \in Off..Streaming
  /\ (stage = Off) = (link = None)
  /\ asked \in BOOLEAN
  /\ flight \in Seq(Line \cup Shipment)
  /\ stuck \in 0..Len(flight)
  /\ rdb \in DB
  /\ applied \in 0..Len(shipped)
  /\ clean \subseteq Key /\ stray \subseteq Key

Init ==
  /\ SessionsInit
  /\ replicas = {}
  /\ moffset = 0 /\ roffset = 0 /\ base = 0
  /\ link = None
  /\ stage = Off
  /\ asked = FALSE
  /\ flight = <<>> /\ stuck = 0
  /\ rdb = EmptyDB
  /\ shipped = <<>> /\ applied = 0
  /\ clean = {} /\ stray = {}

-----------------------------------------------------------------------------
(* Writes of the master, to the clients of S and msgs to the link.         *)

Send(S, msgs) ==
  /\ Write(S)
  /\ IF link \notin S \/ conn[link] = "closed" THEN UNCHANGED <<flight, stuck>>
     ELSE IF conn'[link] = "closed"
       THEN /\ flight' = SubSeq(flight, 1, Len(flight) - stuck)
            /\ stuck' = 0
       ELSE /\ flight' = flight \o msgs
            /\ stuck' \in 0..(stuck + Len(msgs))

(* A stateless command: answered, and, if it is a write that succeeded,    *)
(* sent to every connection that ever was a replica's.                     *)
Stateless(c, cmd) ==
  LET r == Dispatch(db, now, cmd)
      ships == PassedOn(cmd, r.reply) /\ replicas # {}
  IN  /\ Handles(c, cmd.op)
      /\ ships => Len(shipped) < MaxShipped
      /\ MayWrite
      /\ db' = r.db
      /\ up' = (r.reply # Raise)
      /\ owed' = [owed EXCEPT ![c] = IF up' THEN @ ELSE @ + 1]
      /\ Send((IF up' THEN {c} ELSE {}) \cup (IF ships THEN replicas ELSE {}),
              <<[cmd |-> cmd]>>)
      /\ admitted' = admitted \cup {c}
      /\ moffset' = IF ships THEN moffset + SizeOf(cmd) ELSE moffset
      /\ clean' = CleanAfter(clean, cmd)
      /\ shipped' = IF ~ships THEN shipped
           ELSE Append(shipped, [cmd |-> cmd, data |-> db'.data, clean |-> clean'])
      /\ UNCHANGED <<now, turn, requirepass, authenticated, subscriptions,
                     replicas, base, link, stage, asked, rdb, roffset, applied, stray>>

(* Variant: the keys are still taken to hold what was sent.                *)
ExecuteOnlyKeepsClean(c, cmd) ==
  LET r == Dispatch(db, now, cmd)
  IN  /\ Handles(c, "EXEC")
      /\ MayWrite
      /\ db' = r.db
      /\ up' = (r.reply # Raise)
      /\ owed' = [owed EXCEPT ![c] = IF up' THEN @ ELSE @ + 1]
      /\ \E w \in Client \ Links :
           conn[w] # "new" /\ Send(IF up' THEN {w} ELSE {}, <<>>)
      /\ admitted' = admitted \cup {c}
      /\ clean' = clean
      /\ UNCHANGED <<now, turn, requirepass, authenticated, subscriptions,
                     replicas, moffset, base, shipped,
                     link, stage, asked, rdb, roffset, applied, stray>>

(* EXEC runs a command, BLPOP pops, or a push of c serves a waiter w: this *)
(* is sent to no replica.  The pop of a waiter precedes the sending of the *)
(* push, but not the change the push made.                                 *)
ExecuteOnly(c, cmd) ==
  LET r == Dispatch(db, now, cmd)
  IN  /\ Handles(c, "EXEC")
      /\ MayWrite
      /\ db' = r.db
      /\ up' = (r.reply # Raise)
      /\ owed' = [owed EXCEPT ![c] = IF up' THEN @ ELSE @ + 1]
      /\ \E w \in Client \ Links :
           conn[w] # "new" /\ Send(IF up' THEN {w} ELSE {}, <<>>)
      /\ admitted' = admitted \cup {c}
      /\ clean' = clean \ Changed(db, r.db)
      /\ UNCHANGED <<now, turn, requirepass, authenticated, subscriptions,
                     replicas, moffset, base, shipped,
                     link, stage, asked, rdb, roffset, applied, stray>>

(* The master handles a command of the handshake, or refuses it.           *)
Handshake ==
  /\ asked
  /\ Sends(link)
  /\ asked' = FALSE
  /\ owed' = owed
  /\ IF stage = 4 /\ Handles(link, "PSYNC")
       THEN /\ Send({link}, <<[line |-> "fullresync"], [line |-> "rdb"]>>)
            /\ replicas' = replicas \cup {link}
            /\ base' = moffset
            /\ shipped' = <<>>
            /\ clean' = {k \in Key : db.data[k] = None}
       ELSE /\ Send({link}, <<[line |-> "answer"]>>)
            /\ UNCHANGED <<replicas, base, shipped, clean>>
  /\ UNCHANGED <<db, now, up, turn, sessionVars, moffset,
                 link, stage, rdb, roffset, applied, stray>>

-----------------------------------------------------------------------------
(* The replica.                                                            *)

(* Variant: the connection is forgotten, and the replica goes on with it.  *)
GoneOn ==
  /\ link' = None /\ UNCHANGED <<stage, asked>>
  /\ flight' = <<>> /\ stuck' = 0
  /\ rdb' = EmptyDB /\ roffset' = 0 /\ applied' = 0 /\ stray' = {}

Gone ==
  /\ link' = None /\ stage' = Off /\ asked' = FALSE
  /\ flight' = <<>> /\ stuck' = 0
  /\ rdb' = EmptyDB /\ roffset' = 0 /\ applied' = 0 /\ stray' = {}

(* The process starts, and connects.                                       *)
ReplicaStarts(c) ==
  /\ stage = Off
  /\ Accept(c)
  /\ link' = c
  /\ stage' = 1
  /\ asked' = TRUE
  /\ UNCHANGED <<sessionVars, masterVars, flight, stuck, rdb, roffset, applied, stray>>

Received == Len(flight) > stuck

(* Variant: what was received with the last line of the handshake is lost. *)
ReplicaReadsAll ==
  /\ stage \in 1..5
  /\ Received
  /\ flight' = IF stage = 5 THEN SubSeq(flight, Len(flight) - stuck + 1, Len(flight))
                            ELSE Tail(flight)
  /\ stage' = stage + 1
  /\ asked' = (stage < 4)
  /\ UNCHANGED <<loopVars, sessionVars, masterVars, link, stuck, rdb, roffset,
                 applied, stray>>

(* It takes any line for the answer to PING and to two REPLCONFs, and for  *)
(* FULLRESYNC; the snapshot that follows is read and thrown away.  It      *)
(* reads byte by byte, so that nothing behind the snapshot is lost.        *)
ReplicaReads ==
  /\ stage \in 1..5
  /\ Received
  /\ flight' = Tail(flight)
  /\ stage' = stage + 1
  /\ asked' = (stage < 4)
  /\ UNCHANGED <<loopVars, sessionVars, masterVars, link, stuck, rdb, roffset,
                 applied, stray>>

(* It runs the next command; what that raises ends the process.            *)
ReplicaApplies ==
  /\ stage = Streaming
  /\ Received
  /\ LET cmd == Head(flight).cmd
         r == Dispatch(rdb, now, cmd)
     IN  IF r.reply = Raise THEN Gone
         ELSE /\ flight' = Tail(flight)
              /\ rdb' = r.db
              /\ roffset' = roffset + SizeOf(cmd)
              /\ applied' = applied + 1
              /\ stray' = stray \ (IF Settles(cmd) THEN {cmd.key} ELSE {})
              /\ UNCHANGED <<link, stage, asked, stuck>>
  /\ UNCHANGED <<loopVars, sessionVars, masterVars>>

(* A client of the replica: nothing keeps it from writing.                 *)
ReplicaServes(cmd) ==
  /\ stage = Streaming
  /\ \A k \in Key : rdb.versions[k] < MaxVersion
  /\ LET r == Dispatch(rdb, now, cmd)
     IN  IF r.reply = Raise THEN Gone
         ELSE /\ rdb' = r.db
              /\ stray' = stray \cup Changed(rdb, r.db)
              /\ UNCHANGED <<link, stage, asked, flight, stuck, roffset, applied>>
  /\ UNCHANGED <<loopVars, sessionVars, masterVars>>

(* The connection is closed, and all that was sent has been read: in the   *)
(* handshake that raises, and later master_conn is None when it is removed *)
(* from ready_read.  Or the process ends for another reason.               *)
ReplicaEnds ==
  /\ stage # Off
  /\ Gone
  /\ UNCHANGED <<loopVars, sessionVars, masterVars>>

-----------------------------------------------------------------------------
(* What the connection had not sent is dropped with it.                    *)
Closing(c) ==
  /\ HangUp(c)
  /\ IF c = link
       THEN flight' = SubSeq(flight, 1, Len(flight) - stuck) /\ stuck' = 0
       ELSE UNCHANGED <<flight, stuck>>
  /\ UNCHANGED <<sessionVars, masterVars, link, stage, asked, rdb, roffset, applied, stray>>

(* What a replica sends is well-formed.                                    *)
Loop(c) ==
  /\ \/ c \notin Links /\ (Accept(c) \/ ProtocolError(c) \/ ReaderRaises(c))
     \/ Receive(c)
     \/ EndOfBatch(c)
  /\ UNCHANGED <<sessionVars, linkVars, masterVars>>

(* select times out; or an exception has ended the master.                 *)
Idles == (~up \/ turn = None) /\ UNCHANGED vars

Clock == Tick /\ UNCHANGED <<sessionVars, linkVars, masterVars>>

Session(c) == SessionStep(c) /\ UNCHANGED <<linkVars, masterVars>>

Next ==
  \/ \E c \in Client : Closing(c) \/ Loop(c)
  \/ \E c \in Links : ReplicaStarts(c)
  \/ \E c \in Client \ Links :
       \/ Session(c)
       \/ \E cmd \in Workload : Stateless(c, cmd) \/ ExecuteOnly(c, cmd)
  \/ Handshake
  \/ ReplicaReads \/ ReplicaApplies \/ ReplicaEnds
  \/ \E cmd \in Workload : ReplicaServes(cmd)
  \/ Clock
  \/ Idles

Spec == Init /\ [][Next]_vars

-----------------------------------------------------------------------------
(* Safety.                                                                 *)

(* Where a password is set, a connection that has not given it changes no  *)
(* data, hears no channel and gets no command: neither a replica nor a     *)
(* subscriber is admitted by another way than AUTH                         *)
(* (connection_state.py:53-87, server.py:301-303).                         *)
GateHolds ==
  requirepass => \A c \in Client \ authenticated :
    /\ c \notin admitted \cup replicas
    /\ subscriptions[c] = None

(* The replica has run the first of the commands sent since its PSYNC, and *)
(* a key that these commands rebuild has the value it had at the master    *)
(* with the last of them, unless the replica's own clients changed it      *)
(* (server.py:148-211, 320-367).                                           *)
ReplicaFollows ==
  stage = Streaming /\ applied > 0 =>
    \A k \in shipped[applied].clean \ stray :
      rdb.data[k] = shipped[applied].data[k]

(* The bytes of the commands among the messages msgs.                      *)
Bytes(msgs) ==
  FoldLeft(LAMBDA n, m : IF m \in Line THEN n ELSE n + SizeOf(m.cmd), 0, msgs)

(* Both sides count the same bytes: the replica's offset and what is on    *)
(* its way make up the master's offset since PSYNC, handshake or not       *)
(* (server.py:148-157, 204-211, 320-367).                                  *)
OffsetsAgree ==
  link \in replicas /\ conn[link] = "open" =>
    roffset + Bytes(flight) = moffset - base

=============================================================================
