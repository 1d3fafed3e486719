----------------------------- MODULE EagerStore -----------------------------
(***************************************************************************)
(* What the keyspace promises about expiry, without saying when expired    *)
(* keys are removed: a key disappears at the very instant of its deadline, *)
(* and every command sees only keys that are alive.  The module Storage,   *)
(* which removes an expired key when a command happens to touch it, is to  *)
(* implement this specification.                                           *)
(*                                                                         *)
(* KEYS is the exception this specification has to make: it lists all live *)
(* keys, and may list dead ones.                                           *)
(***************************************************************************)
EXTENDS Commands

CONSTANTS Workload, MaxTime

VARIABLES view,  \* the keyspace without dead keys and without versions
          now, up, reply

vars == <<view, now, up, reply>>

Init ==
  /\ view = EmptyDB
  /\ now = 0
  /\ up = TRUE
  /\ reply = Ok

Run(c) ==
  LET r == Dispatch(view, now, c)
  IN  /\ up
      /\ view' = Alive(r.db, now)
      /\ IF c.op = "KEYS"
           THEN \E ks \in SUBSET Key : GetKeys(view) \subseteq ks /\ reply' = Names(ks)
           ELSE reply' = r.reply
      /\ up' = (r.reply # Raise)
      /\ UNCHANGED now

Tick ==
  /\ now < MaxTime
  /\ now' = now + 1
  /\ view' = Alive(view, now + 1)
  /\ UNCHANGED <<up, reply>>

Restart ==
  /\ ~up
  /\ view' = EmptyDB
  /\ up' = TRUE
  /\ reply' = Ok
  /\ UNCHANGED now

Next ==
  \/ \E c \in Workload : Run(c)
  \/ Tick
  \/ Restart

Spec == Init /\ [][Next]_vars

=============================================================================
