------------------------------- MODULE WriteLog -------------------------------
(***************************************************************************)
(* What server.py does with a write that succeeded, and what running the   *)
(* same writes elsewhere - at the next start, or at a replica - can be     *)
(* expected to rebuild.  A key is clean when its value is a function of    *)
(* the writes passed on so far: other writes, a TTL counted from another   *)
(* instant or an automatic stream ID spoil it, and a SET or DEL settles it.*)
(***************************************************************************)
EXTENDS Commands

(* Variant: pops are not passed on.                                        *)
PassedOnButPops(cmd, reply) ==
  /\ cmd.op \in WriteCommands \ {"LPOP", "RPOP"}
  /\ reply \notin {Error, Raise}

PassedOn(cmd, reply) == cmd.op \in WriteCommands /\ reply \notin {Error, Raise}

Settles(cmd) == cmd.op = "DEL" \/ (cmd.op = "SET" /\ cmd.ttl = None)

Relative(cmd) == \/ cmd.op = "SET" /\ cmd.ttl # None
                 \/ cmd.op = "XADD" /\ cmd.ms = None

CleanAfter(clean, cmd) ==
  CASE Settles(cmd) -> clean \cup {cmd.key}
    [] Relative(cmd) -> clean \ {cmd.key}
    [] OTHER -> clean

(* The keys a write that is not passed on has changed.                     *)
Changed(d, e) == {k \in Key : d.data[k] # e.data[k] \/ d.expires[k] # e.expires[k]}

=============================================================================
