----------------------------- MODULE Connections -----------------------------
(***************************************************************************)
(* The event loop of src/src/server.py as the handlers of                  *)
(* connection_state.py see it: one thread, which takes one client at a     *)
(* time and runs the commands of its pipeline one after another; writes    *)
(* that may fail and close the connection; and a clock.                    *)
(*                                                                         *)
(* A client is one accepted connection: a socket object, which is never    *)
(* used again after it is closed.  _disconnect_client closes it and leaves *)
(* all state of connection_state.py as it is, and commands of a pipeline   *)
(* already received still run after their connection was closed.           *)
(***************************************************************************)
EXTENDS Commands, TLC

CONSTANTS Client,      \* the connections clients make
          Workload,    \* the stateless commands they send
          MaxVersion,  \* bound: no key is written more often than this
          MaxTime,     \* bound: the clock stops here
          MaxDrift     \* bound: on the absolute value of owed

ASSUME WorkloadIsCommands == Workload \subseteq Command
ASSUME NoneIsNoClient == None \notin Client /\ None \notin Key

VARIABLES db,    \* the Storage object
          now,   \* time.time(), in ticks; assumed not to run backwards
          up,    \* the process is running
          conn,  \* client -> "new", "open" or "closed"
          turn,  \* the client whose pipeline is being executed, or None
          owed   \* history: commands of a client less the replies written to it

loopVars == <<db, now, up, conn, turn, owed>>

LoopTypeOK ==
  /\ db \in DB
  /\ now \in Nat
  /\ up \in BOOLEAN
  /\ conn \in [Client -> {"new", "open", "closed"}]
  /\ turn \in Client \cup {None}
  /\ owed \in [Client -> Int]

LoopInit ==
  /\ db = EmptyDB
  /\ now = 0
  /\ up = TRUE
  /\ conn = [c \in Client |-> "new"]
  /\ turn = None
  /\ owed = [c \in Client |-> 0]

(* The clients of S are written to; a write that fails closes its          *)
(* connection, and one to a closed connection changes nothing.             *)
Write(S) ==
  \E failed \in SUBSET S :
    conn' = [c \in Client |-> IF c \in failed THEN "closed" ELSE conn[c]]

(* The handler of one command of c answers it with n replies.              *)
Answer(c, n) ==
  /\ owed' = [owed EXCEPT ![c] = @ + 1 - n]
  /\ IF n = 0 THEN UNCHANGED conn ELSE Write({c})

-----------------------------------------------------------------------------
(* The loop around the handlers.                                           *)

Accept(c) ==
  /\ up
  /\ turn = None
  /\ conn[c] = "new"
  /\ conn' = [conn EXCEPT ![c] = "open"]
  /\ UNCHANGED <<db, now, up, turn, owed>>

(* select reports c readable and recv returns some of its pipeline.        *)
Receive(c) ==
  /\ up
  /\ turn = None
  /\ conn[c] = "open"
  /\ turn' = c
  /\ UNCHANGED <<db, now, up, conn, owed>>

(* recv finds the connection closed or broken.                             *)
HangUp(c) ==
  /\ up
  /\ turn = None
  /\ conn[c] = "open"
  /\ conn' = [conn EXCEPT ![c] = "closed"]
  /\ UNCHANGED <<db, now, up, turn, owed>>

(* A malformed frame: an error reply, and the end of the connection.       *)
ProtocolError(c) ==
  /\ up
  /\ turn = c
  /\ turn' = None
  /\ conn' = [conn EXCEPT ![c] = "closed"]
  /\ UNCHANGED <<db, now, up, owed>>

(* A header whose number int() refuses is no RESPParseError: ValueError    *)
(* leaves the loop.                                                        *)
ReaderRaises(c) ==
  /\ up
  /\ turn = c
  /\ up' = FALSE
  /\ UNCHANGED <<db, now, conn, turn, owed>>

(* The reader has no further complete command.                             *)
EndOfBatch(c) ==
  /\ up
  /\ turn = c
  /\ turn' = None
  /\ UNCHANGED <<db, now, up, conn, owed>>

Tick ==
  /\ now < MaxTime
  /\ now' = now + 1
  /\ UNCHANGED <<db, up, conn, turn, owed>>

-----------------------------------------------------------------------------
(* c's next command is handled.                                            *)
Sends(c) ==
  /\ up
  /\ turn = c
  /\ owed[c] \in -MaxDrift..MaxDrift

MayWrite == \A k \in Key : db.versions[k] < MaxVersion

(* A stateless command is dispatched: its reply is written, or the         *)
(* exception it raised ends the process.                                   *)
Direct(c, cmd) ==
  LET r == Dispatch(db, now, cmd)
  IN  /\ Sends(c)
      /\ cmd.op \in WriteCommands => MayWrite
      /\ db' = r.db
      /\ up' = (r.reply # Raise)
      /\ Answer(c, IF r.reply = Raise THEN 0 ELSE 1)
      /\ UNCHANGED <<now, turn>>

=============================================================================
