-------------------------------- MODULE Actors --------------------------------
(***************************************************************************)
(* What the Blocks runtime promises its users, without threads, locks,      *)
(* queues of tasks or memory: every actor has a mailbox, handles one        *)
(* message at a time in the order of arrival, and closes each message it    *)
(* takes exactly once: with an answer while it lives, with a rejection once *)
(* it has ended.  A message that arrives after an ended actor's last look   *)
(* into its mailbox stays open.                                             *)
(***************************************************************************)
EXTENDS Sequences

CONSTANTS Actor, Message, NoMessage

VARIABLES
  life,       \* "unborn", "living" or "ended"
  mailbox,    \* the messages that wait, oldest first
  handling,   \* the message the actor is working on, or NoMessage
  outcome     \* of each message: "unsent", "open", "answered" or "rejected"

actorVars == <<life, mailbox, handling, outcome>>

ActorsInit ==
  /\ life     = [a \in Actor |-> "unborn"]
  /\ mailbox  = [a \in Actor |-> <<>>]
  /\ handling = [a \in Actor |-> NoMessage]
  /\ outcome  = [m \in Message |-> "unsent"]

Born(a) ==
  /\ life[a] = "unborn"
  /\ life' = [life EXCEPT ![a] = "living"]
  /\ UNCHANGED <<mailbox, handling, outcome>>

(* A sender cannot know whether the actor has just ended. *)
Deliver(a, m) ==
  /\ life[a] # "unborn"
  /\ outcome[m] = "unsent"
  /\ outcome' = [outcome EXCEPT ![m] = "open"]
  /\ mailbox' = [mailbox EXCEPT ![a] = Append(@, m)]
  /\ UNCHANGED <<life, handling>>

Take(a) ==
  /\ handling[a] = NoMessage
  /\ mailbox[a] # <<>>
  /\ handling' = [handling EXCEPT ![a] = Head(mailbox[a])]
  /\ mailbox'  = [mailbox EXCEPT ![a] = Tail(@)]
  /\ UNCHANGED <<life, outcome>>

Finish(a) ==
  /\ handling[a] # NoMessage
  /\ outcome' = [outcome EXCEPT ![handling[a]] =
                   IF life[a] = "ended" THEN "rejected" ELSE "answered"]
  /\ handling' = [handling EXCEPT ![a] = NoMessage]
  /\ UNCHANGED <<life, mailbox>>

End(a) ==
  /\ life[a] = "living"
  /\ handling[a] = NoMessage
  /\ life' = [life EXCEPT ![a] = "ended"]
  /\ UNCHANGED <<mailbox, handling, outcome>>

ActorsNext ==
  \E a \in Actor : \/ Born(a) \/ Take(a) \/ Finish(a) \/ End(a)
                   \/ \E m \in Message : Deliver(a, m)

ActorsSpec == ActorsInit /\ [][ActorsNext]_actorVars
=============================================================================
