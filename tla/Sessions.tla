------------------------------- MODULE Sessions -------------------------------
(***************************************************************************)
(* AUTH, SUBSCRIBE, UNSUBSCRIBE and PUBLISH (connection_state.py), and the *)
(* tests by which dispatch decides which commands of a connection pass.    *)
(* Passwords are right or wrong; messages are not told apart.              *)
(***************************************************************************)
EXTENDS Connections, WriteLog

CONSTANT Channel

(* A command names finitely many.                                          *)
ASSUME ChannelsAreFinite == IsFiniteSet(Channel)

VARIABLES requirepass,    \* a password is set; it never changes
          authenticated,  \* the connections that have given it
          subscriptions,  \* client -> its channels, or None
          admitted        \* history: clients whose commands were dispatched

sessionVars == <<requirepass, authenticated, subscriptions, admitted>>

SessionsTypeOK ==
  /\ LoopTypeOK
  /\ requirepass \in BOOLEAN
  /\ authenticated \subseteq Client /\ admitted \subseteq Client
  /\ subscriptions \in [Client -> (SUBSET Channel) \cup {None}]

SessionsInit ==
  /\ LoopInit
  /\ requirepass \in BOOLEAN
  /\ authenticated = {} /\ admitted = {}
  /\ subscriptions = [c \in Client |-> None]

-----------------------------------------------------------------------------
(* The tests at the head of dispatch, in their order.                      *)

(* Variant: what a replica sends need not be authenticated.                *)
PassesReplicas(c, name) ==
  ~requirepass \/ c \in authenticated \/ name \in {"AUTH", "PSYNC"}

Passes(c, name) == ~requirepass \/ c \in authenticated \/ name = "AUTH"

Subscribed(c) == subscriptions[c] \notin {None, {}}

Handles(c, name) ==
  /\ Sends(c)
  /\ Passes(c, name)
  /\ Subscribed(c) => name \in {"SUBSCRIBE", "UNSUBSCRIBE", "PING"}

(* A command that does not pass is refused with an error; PING, INFO, ACL, *)
(* CONFIG and a wrong password are answered and change nothing either.     *)
AnswerOnly(c) ==
  /\ Sends(c)
  /\ Answer(c, 1)
  /\ UNCHANGED <<db, now, up, turn, sessionVars>>

Auth(c) ==
  /\ Handles(c, "AUTH")
  /\ requirepass
  /\ authenticated' = authenticated \cup {c}
  /\ Answer(c, 1)
  /\ UNCHANGED <<db, now, up, turn, requirepass, subscriptions, admitted>>

-----------------------------------------------------------------------------
(* Publish and subscribe.                                                  *)

(* One confirmation for each channel; without a channel the handler calls  *)
(* a method that does not exist.                                           *)
Subscribe(c, S) ==
  /\ Handles(c, "SUBSCRIBE")
  /\ up' = (S # {})
  /\ Answer(c, Cardinality(S))
  /\ subscriptions' = IF S = {} THEN subscriptions
       ELSE [subscriptions EXCEPT ![c] = IF @ = None THEN S ELSE @ \cup S]
  /\ UNCHANGED <<db, now, turn, requirepass, authenticated, admitted>>

(* From the channels named, or without one from all; a client that never   *)
(* subscribed gets no entry.                                               *)
Unsubscribe(c, S) ==
  /\ Handles(c, "UNSUBSCRIBE")
  /\ LET own == IF subscriptions[c] = None THEN {} ELSE subscriptions[c]
     IN  /\ Answer(c, Cardinality(IF S = {} THEN own ELSE S))
         /\ subscriptions' = IF subscriptions[c] = None THEN subscriptions
              ELSE [subscriptions EXCEPT ![c] = IF S = {} THEN {} ELSE @ \ S]
  /\ UNCHANGED <<db, now, up, turn, requirepass, authenticated, admitted>>

(* A reply for each entry of the dict: none if nobody ever subscribed, and *)
(* entries of closed connections stay.  errors is 1 when the message is    *)
(* missing: that is answered as well, and an empty message published.      *)
Publish(c, channel, errors) ==
  LET entries == {d \in Client : subscriptions[d] # None}
      n == Cardinality(entries) + errors
      receivers == {d \in entries : channel \in subscriptions[d]}
  IN  /\ Handles(c, "PUBLISH")
      /\ owed' = [owed EXCEPT ![c] = @ + 1 - n]
      /\ Write(receivers \cup IF n = 0 THEN {} ELSE {c})
      /\ UNCHANGED <<db, now, up, turn, sessionVars>>

(* Without a channel there is nothing at command[1].                       *)
PublishRaises(c) ==
  /\ Handles(c, "PUBLISH")
  /\ up' = FALSE
  /\ Answer(c, 1)
  /\ UNCHANGED <<db, now, turn, sessionVars>>

SessionStep(c) ==
  \/ AnswerOnly(c)
  \/ Auth(c)
  \/ \E S \in SUBSET Channel : Subscribe(c, S) \/ Unsubscribe(c, S)
  \/ \E channel \in Channel, errors \in {0, 1} : Publish(c, channel, errors)
  \/ PublishRaises(c)

=============================================================================
