----------------------------- MODULE BlocksActors -----------------------------
(***************************************************************************)
(* The Blocks runtime implements Actors.  A task is an actor from its spawn *)
(* on; it works on the message its worker holds until the reply; a message  *)
(* is sent when mailbox_send has appended it.                               *)
(***************************************************************************)
EXTENDS Blocks

lifeOf ==
  [t \in Task |-> CASE taskState[t] \in {"none", "leaked"} -> "unborn"
                    [] taskState[t] \in {"dead", "freed"} -> "ended"
                    [] OTHER -> "living"]

(* The points of worker and task_destroy between taking a message and       *)
(* replying to it: in Lua code, in a library call it makes, and after.      *)
HandlingPC == {"lua", "set_content", "reply", "drain_reply"} \union CallPC

handlingOf ==
  [t \in Task |->
     IF \E w \in Worker : cur[w] = t /\ pc[w] \in HandlingPC /\ msg[w] # None
       THEN msg[CHOOSE w \in Worker : cur[w] = t /\ pc[w] \in HandlingPC /\ msg[w] # None]
       ELSE None]

outcomeOf ==
  [m \in Msg |-> CASE msgState[m] = "ready" -> "answered"
                   [] msgState[m] = "dead" -> "rejected"
                   [] msgState[m] = "waiting" /\ (\A th \in Thread :
                        pc[th] = "append" => arg[th] # m) -> "open"
                   [] OTHER -> "unsent"]

A == INSTANCE Actors WITH Actor <- Task, Message <- Msg, NoMessage <- None,
                          life <- lifeOf, mailbox <- inbox,
                          handling <- handlingOf, outcome <- outcomeOf

(* The runtime delivers each task's messages in the order in which          *)
(* mailbox_send appended them, one at a time, and answers each at most      *)
(* once, the same way whatever the pool does: it refines Actors.            *)
ImplementsActors == A!ActorsSpec
=============================================================================
