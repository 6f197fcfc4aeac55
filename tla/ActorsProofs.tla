----------------------------- MODULE ActorsProofs -----------------------------
(***************************************************************************)
(* Proof that the Blocks runtime implements Actors: every step of a thread  *)
(* is a step of one actor or, to the actors, no step at all.                *)
(***************************************************************************)
EXTENDS MessageProofs, BlocksActors

-----------------------------------------------------------------------------
(* What the refinement mapping looks at. *)

(* A task by its life.                                                      *)
SameAge(t) ==
  /\ taskState'[t] \in {"none", "leaked"} <=> taskState[t] \in {"none", "leaked"}
  /\ taskState'[t] \in {"dead", "freed"} <=> taskState[t] \in {"dead", "freed"}

(* A step between states of the same age is not seen.                       *)
LEMMA LifeSame ==
  ASSUME \A t \in Task : SameAge(t)
  PROVE  lifeOf' = lifeOf
BY DEF lifeOf, SameAge

(* A message that has been appended and not answered. *)
Open(m) == msgState[m] = "waiting" /\ \A th \in Thread : ~Appending(th, m)

(* A step leaves a message's outcome as it is. *)
SameOutcome(m) ==
  /\ msgState'[m] = "ready" <=> msgState[m] = "ready"
  /\ msgState'[m] = "dead" <=> msgState[m] = "dead"
  /\ Open(m)' <=> Open(m)

(* What outcomeOf says, case by case, before a step ... *)
LEMMA OutcomeIs ==
  \A m \in Msg :
    /\ msgState[m] = "ready" => outcomeOf[m] = "answered"
    /\ msgState[m] = "dead" => outcomeOf[m] = "rejected"
    /\ Open(m) => outcomeOf[m] = "open"
    /\ msgState[m] \notin {"ready", "dead"} /\ ~Open(m) => outcomeOf[m] = "unsent"
BY DEF outcomeOf, Open, Appending

(* ... and after it. *)
LEMMA OutcomeIsNext ==
  \A m \in Msg :
    /\ msgState'[m] = "ready" => outcomeOf'[m] = "answered"
    /\ msgState'[m] = "dead" => outcomeOf'[m] = "rejected"
    /\ Open(m)' => outcomeOf'[m] = "open"
    /\ msgState'[m] \notin {"ready", "dead"} /\ ~Open(m)' => outcomeOf'[m] = "unsent"
BY DEF outcomeOf, Open, Appending

(* Steps that leave each outcome leave the mapping.                         *)
LEMMA OutcomeSame ==
  ASSUME \A m \in Msg : SameOutcome(m)
  PROVE  outcomeOf' = outcomeOf
<1>1. \A m \in Msg : outcomeOf'[m] = outcomeOf[m]
  BY OutcomeIs, OutcomeIsNext DEF SameOutcome
<1>2. outcomeOf = [m \in Msg |-> outcomeOf[m]] /\ outcomeOf' = [m \in Msg |-> outcomeOf'[m]]
  BY DEF outcomeOf
<1> QED
  BY <1>1, <1>2

(* The message that a task works on is its worker's. *)
HandlingRight ==
  \A t \in Task :
    /\ \A w \in Worker : cur[w] = t /\ pc[w] \in HandlingPC => handlingOf[t] = msg[w]
    /\ (\A w \in Worker : cur[w] = t => pc[w] \notin HandlingPC) => handlingOf[t] = None

(* A task has one worker, so the mapping's CHOOSE has one choice.           *)
LEMMA HandlingIs == TypeOK /\ OneRunner => HandlingRight
<1> SUFFICES ASSUME TypeOK, OneRunner, NEW t \in Task
             PROVE  /\ \A w \in Worker : cur[w] = t /\ pc[w] \in HandlingPC => handlingOf[t] = msg[w]
                    /\ (\A w \in Worker : cur[w] = t => pc[w] \notin HandlingPC)
                         => handlingOf[t] = None
  BY DEF HandlingRight
<1> DEFINE H(w) == cur[w] = t /\ pc[w] \in HandlingPC /\ msg[w] # None
<1>1. handlingOf[t] = IF \E w \in Worker : H(w) THEN msg[CHOOSE w \in Worker : H(w)] ELSE None
  BY DEF handlingOf
<1>2. ASSUME NEW w \in Worker, cur[w] = t, pc[w] \in HandlingPC PROVE handlingOf[t] = msg[w]
  <2>1. \A x \in Worker : H(x) => x = w
    BY <1>2 DEF OneRunner, Running, HandlingPC, LeavingPC, CallPC
  <2>2. CASE msg[w] # None
    <3>1. H(w)
      BY <1>2, <2>2
    <3> HIDE DEF H
    <3>2. (CHOOSE x \in Worker : H(x)) = w
      BY <2>1, <3>1
    <3> QED
      BY <1>1, <3>1, <3>2
  <2>3. CASE msg[w] = None
    <3>1. \A x \in Worker : ~H(x)
      BY <2>1, <2>3
    <3> HIDE DEF H
    <3> QED
      BY <1>1, <2>3, <3>1
  <2> QED
    BY <2>2, <2>3
<1>3. ASSUME \A w \in Worker : cur[w] = t => pc[w] \notin HandlingPC PROVE handlingOf[t] = None
  <2>1. \A x \in Worker : ~H(x)
    BY <1>3
  <2> HIDE DEF H
  <2> QED
    BY <1>1, <2>1
<1> QED
  BY <1>2, <1>3

(* The same after a step. *)
LEMMA HandlingIsNext == TypeOK' /\ OneRunner' => HandlingRight'
BY HandlingIs, PTL

(* Worker w has a message to reply to.                                      *)
Handles(w) == pc[w] \in HandlingPC /\ msg[w] # None

(* A step leaves what worker w has to reply to. *)
SameWork(w) ==
  /\ Handles(w)' <=> Handles(w)
  /\ Handles(w) => cur'[w] = cur[w] /\ msg'[w] = msg[w]

(* A task whose worker has nothing to reply to handles no message.          *)
LEMMA NotHandled ==
  ASSUME HandlingRight, NEW t \in Task, \A w \in Worker : cur[w] = t => ~Handles(w)
  PROVE  handlingOf[t] = None
BY DEF HandlingRight, Handles

(* A task handles what it did if its worker does.                           *)
LEMMA HandlingSame ==
  ASSUME HandlingRight, HandlingRight', NEW t \in Task,
         \A w \in Worker : cur[w] = t \/ cur'[w] = t => SameWork(w)
  PROVE  handlingOf'[t] = handlingOf[t]
<1>1. ASSUME NEW w \in Worker, cur[w] = t, Handles(w) PROVE handlingOf'[t] = handlingOf[t]
  BY <1>1 DEF SameWork, Handles, HandlingRight
<1>2. ASSUME \A w \in Worker : cur[w] = t => ~Handles(w) PROVE handlingOf'[t] = handlingOf[t]
  <2>1. handlingOf[t] = None
    BY <1>2, NotHandled
  <2>2. \A w \in Worker : cur'[w] = t => ~Handles(w)'
    BY <1>2 DEF SameWork
  <2>3. handlingOf'[t] = None
    BY <2>2 DEF HandlingRight, Handles
  <2> QED
    BY <2>1, <2>3
<1> QED
  BY <1>1, <1>2

-----------------------------------------------------------------------------
(* The steps of the actors. *)

(* A function that differs from another at one point. *)
LEMMA MapUpdate ==
  ASSUME NEW S, NEW f, NEW g, NEW a \in S, NEW v,
         f = [x \in S |-> f[x]], g = [x \in S |-> g[x]],
         g[a] = v, \A x \in S \ {a} : g[x] = f[x]
  PROVE  g = [f EXCEPT ![a] = v]
OBVIOUS

(* The three mappings are functions. *)
LEMMA Maps ==
  /\ lifeOf = [t \in Task |-> lifeOf[t]] /\ lifeOf' = [t \in Task |-> lifeOf'[t]]
  /\ handlingOf = [t \in Task |-> handlingOf[t]] /\ handlingOf' = [t \in Task |-> handlingOf'[t]]
  /\ outcomeOf = [m \in Msg |-> outcomeOf[m]] /\ outcomeOf' = [m \in Msg |-> outcomeOf'[m]]
BY DEF lifeOf, handlingOf, outcomeOf

(* Steps that change nothing of what the actors see. *)
LEMMA ActorsStutter ==
  ASSUME HandlingRight, HandlingRight', UNCHANGED inbox,
         \A t \in Task : SameAge(t), \A m \in Msg : SameOutcome(m),
         \A w \in Worker : SameWork(w)
  PROVE  UNCHANGED A!actorVars
<1>1. \A t \in Task : handlingOf'[t] = handlingOf[t]
  BY HandlingSame
<1>2. handlingOf' = handlingOf
  BY <1>1, Maps
<1> QED
  BY <1>2, LifeSame, OutcomeSame DEF A!actorVars

(* A thread that a step leaves alone keeps its message and its send.        *)
LEMMA BystanderActs ==
  ASSUME NEW x \in Thread, Bystander(x)
  PROVE  /\ x \in Worker => SameWork(x)
         /\ \A m \in Msg : Appending(x, m)' <=> Appending(x, m)
<1>1. \A m \in Msg : Appending(x, m)' <=> Appending(x, m)
  BY DEF Bystander, Appending
<1>2. ASSUME x \in Worker PROVE SameWork(x)
  <2>1. pc'[x] \in HandlingPC <=> pc[x] \in HandlingPC
    BY DEF Bystander, HandlingPC, CallPC
  <2> QED
    BY <1>2, <2>1 DEF Bystander, SameWork, Handles
<1> QED
  BY <1>1, <1>2

(* As long as message states stay, a message's outcome changes only by who  *)
(* appends it.                                                              *)
LEMMA SameOutcomes ==
  ASSUME UNCHANGED msgState, \A x \in Thread, m \in Msg : Appending(x, m)' <=> Appending(x, m)
  PROVE  \A m \in Msg : SameOutcome(m)
BY DEF SameOutcome, Open

(* process_spawn: an actor is born. *)
LEMMA SpawnIsBorn ==
  ASSUME TypeOK, HandlingRight, HandlingRight', NEW th \in Thread, NEW t \in Task, Spawn(th, t)
  PROVE  A!Born(t)
<1>1. /\ taskState[t] = "none" /\ taskState' = [taskState EXCEPT ![t] = "init"]
      /\ UNCHANGED <<inbox, msgState>>
  BY DEF Spawn, mailbox_init, mboxVars, msgVars
<1>2. \A x \in Thread : Bystander(x)
  BY SpawnMoves
<1>3. \A m \in Msg : SameOutcome(m)
  BY <1>1, <1>2, BystanderActs, SameOutcomes
<1>4. \A c \in Task : handlingOf'[c] = handlingOf[c]
  BY <1>2, BystanderActs, HandlingSame DEF Thread
<1>5. handlingOf' = handlingOf /\ outcomeOf' = outcomeOf
  BY <1>3, <1>4, Maps, OutcomeSame
<1>6. taskState'[t] = "init" /\ \A c \in Task \ {t} : taskState'[c] = taskState[c]
  BY <1>1 DEF TypeOK, TaskTypeOK
<1>7. lifeOf[t] = "unborn" /\ lifeOf'[t] = "living" /\ \A c \in Task \ {t} : lifeOf'[c] = lifeOf[c]
  BY <1>1, <1>6 DEF lifeOf
<1>8. lifeOf' = [lifeOf EXCEPT ![t] = "living"]
  BY <1>7, Maps, MapUpdate
<1> QED
  BY <1>1, <1>5, <1>7, <1>8 DEF A!Born

(* mailbox_send under the mailbox's mutex: the message is delivered. *)
LEMMA AppendIsDeliver ==
  ASSUME TypeOK, MsgInv, MboxInv, HandlingRight, HandlingRight', NEW th \in Thread, SendAppend(th)
  PROVE  \E b \in Task, m \in Msg : A!Deliver(b, m)
<1>1. PICK m \in Msg, b \in Task : m = arg[th] /\ b = rcpt[m] /\ taskState[b] \notin {"none", "leaked"}
  BY SenderMailbox DEF SendAppend, At
<1>2. /\ pc[th] = "append" /\ pc'[th] = "notify" /\ UNCHANGED <<msgState, taskState, cur, msg>>
      /\ inbox' = [inbox EXCEPT ![b] = Append(@, m)]
      /\ \A x \in Thread \ {th} : pc'[x] = pc[x] /\ arg'[x] = arg[x]
  BY <1>1 DEF SendAppend, mailbox_append, At, Goto, msgVars, taskVars, localVars, TypeOK, ThreadTypeOK
<1>3. Appending(th, m)
  BY <1>1, <1>2 DEF Appending
<1>4. msgState[m] = "waiting"
  BY <1>3 DEF MsgInv, HoldInv, StateRight, Unreplied
<1>5. \A x \in Thread, k \in Msg : Appending(x, k)' <=> Appending(x, k) /\ x # th
  BY <1>2 DEF Appending
<1>6. \A k \in Msg : Appending(th, k) => k = m
  BY <1>1 DEF Appending
<1>7. \A k \in Msg \ {m} : SameOutcome(k)
  BY <1>2, <1>5, <1>6 DEF SameOutcome, Open
<1>8. \A x \in Thread : Appending(x, m) => x = th
  BY <1>3 DEF MsgInv, HoldInv, OneSender, Appending, Sending
<1>9. ~Open(m) /\ Open(m)'
  BY <1>2, <1>3, <1>4, <1>5, <1>8 DEF Open
<1>10. outcomeOf[m] = "unsent" /\ outcomeOf'[m] = "open"
  BY <1>2, <1>4, <1>9, OutcomeIs, OutcomeIsNext
<1>11. \A k \in Msg \ {m} : outcomeOf'[k] = outcomeOf[k]
  BY <1>7, OutcomeIs, OutcomeIsNext DEF SameOutcome
<1>12. outcomeOf' = [outcomeOf EXCEPT ![m] = "open"]
  BY <1>10, <1>11, Maps, MapUpdate
<1>13. lifeOf' = lifeOf /\ lifeOf[b] # "unborn"
  BY <1>1, <1>2 DEF lifeOf
<1>14. \A w \in Worker : SameWork(w)
  <2>1. \A x \in Thread : pc'[x] \in HandlingPC <=> pc[x] \in HandlingPC
    BY <1>2 DEF HandlingPC, CallPC
  <2> QED
    BY <1>2, <2>1 DEF SameWork, Handles, Thread
<1>15. \A t \in Task : handlingOf'[t] = handlingOf[t]
  BY <1>14, HandlingSame
<1>16. handlingOf' = handlingOf
  BY <1>15, Maps
<1> QED
  BY <1>2, <1>10, <1>12, <1>13, <1>16 DEF A!Deliver

(* mailbox_receive, in worker or task_destroy: the actor takes a message. *)
LEMMA ReceiveIsTake ==
  ASSUME TypeOK, OneRunner, HandlingRight, HandlingRight', NEW w \in Worker, NEW b \in Task,
         cur[w] = b, UNCHANGED <<cur, taskState, msgState, arg>>,
         pc[w] \in {"receive", "drain"}, pc' = [pc EXCEPT ![w] = IF pc[w] = "receive" THEN "lua" ELSE "drain_reply"],
         inbox[b] # <<>>, inbox' = [inbox EXCEPT ![b] = Tail(@)],
         msg' = [msg EXCEPT ![w] = Head(inbox[b])]
  PROVE  A!Take(b)
<1>1. /\ pc'[w] \in HandlingPC /\ pc[w] \notin HandlingPC /\ msg'[w] = Head(inbox[b])
      /\ \A x \in Thread \ {w} : pc'[x] = pc[x]
      /\ \A x \in Worker \ {w} : msg'[x] = msg[x]
  BY DEF TypeOK, ThreadTypeOK, HandlingPC, CallPC, Thread
<1>2. \A x \in Worker \ {w} : cur[x] = b => ~Handles(x)
  BY DEF OneRunner, Running, Handles, HandlingPC, CallPC, LeavingPC
<1>3. handlingOf[b] = None
  BY <1>1, <1>2, NotHandled DEF Handles
<1>4. handlingOf'[b] = Head(inbox[b])
  BY <1>1 DEF HandlingRight
<1>5. \A t \in Task \ {b} : handlingOf'[t] = handlingOf[t]
  <2>1. \A x \in Worker \ {w} : SameWork(x)
    BY <1>1 DEF SameWork, Handles, Thread
  <2> QED
    BY <2>1, HandlingSame
<1>6. handlingOf' = [handlingOf EXCEPT ![b] = Head(inbox[b])]
  BY <1>4, <1>5, Maps, MapUpdate
<1>7. \A x \in Thread, m \in Msg : Appending(x, m)' <=> Appending(x, m)
  BY <1>1 DEF Appending
<1>8. outcomeOf' = outcomeOf /\ lifeOf' = lifeOf
  BY <1>7, SameOutcomes, OutcomeSame DEF lifeOf
<1> QED
  BY <1>3, <1>6, <1>8 DEF A!Take

(* mailbox_message_reply: the actor has finished with its message. *)
LEMMA ReplyIsFinish ==
  ASSUME TypeOK, SchedInv, HandlingRight, HandlingRight', NEW w \in Worker, NEW b \in Task,
         NEW m \in Msg, NEW s \in {"ready", "dead"},
         cur[w] = b, msg[w] = m, pc[w] = (IF s = "dead" THEN "drain_reply" ELSE "reply"),
         pc'[w] \in {"unref", "drain_unref"}, \A x \in Thread \ {w} : Bystander(x),
         UNCHANGED <<cur, msg, taskState, inbox>>, msgState' = [msgState EXCEPT ![m] = s]
  PROVE  A!Finish(b)
<1>1. /\ handlingOf[b] = m /\ m # None
      /\ pc[w] \in HandlingPC /\ pc'[w] \notin HandlingPC
  BY ProcessAssumption DEF HandlingRight, HandlingPC, CallPC
<1>2. \A x \in Worker \ {w} : SameWork(x) /\ (cur[x] = b => ~Handles(x))
  <2>1. \A x \in Worker \ {w} : SameWork(x)
    BY BystanderActs DEF Thread
  <2>2. \A x \in Worker \ {w} : cur[x] = b => ~Handles(x)
    BY <1>1 DEF SchedInv, OneRunner, Running, Handles, HandlingPC, CallPC, LeavingPC
  <2> QED
    BY <2>1, <2>2
<1>3. handlingOf'[b] = None
  <2>1. \A x \in Worker : cur'[x] = b => ~Handles(x)'
    BY <1>1, <1>2 DEF SameWork, Handles
  <2> QED
    BY <2>1 DEF HandlingRight, Handles
<1>4. \A t \in Task \ {b} : handlingOf'[t] = handlingOf[t]
  BY <1>2, HandlingSame
<1>5. handlingOf' = [handlingOf EXCEPT ![b] = None]
  BY <1>3, <1>4, Maps, MapUpdate
<1>6. /\ msgState'[m] = s
      /\ \A k \in Msg \ {m} : msgState'[k] = msgState[k]
  BY DEF TypeOK, MailboxTypeOK
<1>7. \A x \in Thread, k \in Msg : Appending(x, k)' <=> Appending(x, k)
  BY BystanderActs DEF Appending
<1>8. \A k \in Msg \ {m} : SameOutcome(k)
  BY <1>6, <1>7 DEF SameOutcome, Open
<1>9. \A k \in Msg \ {m} : outcomeOf'[k] = outcomeOf[k]
  BY <1>8, OutcomeIs, OutcomeIsNext DEF SameOutcome
<1>10. outcomeOf'[m] = (IF s = "dead" THEN "rejected" ELSE "answered")
  BY <1>6, OutcomeIsNext
<1>11. outcomeOf' = [outcomeOf EXCEPT ![m] = IF s = "dead" THEN "rejected" ELSE "answered"]
  BY <1>9, <1>10, Maps, MapUpdate
<1>12. s = "dead" <=> lifeOf[b] = "ended"
  <2>1. s = "dead" => taskState[b] = "dead"
    BY DEF SchedInv, TaskStateMatches, DyingPC
  <2>2. s # "dead" => taskState[b] = "processing"
    BY DEF SchedInv, TaskStateMatches, ServingPC, DyingPC, BusyPC, CallPC, ReplyPC
  <2> QED
    BY <2>1, <2>2 DEF lifeOf
<1>13. lifeOf' = lifeOf
  BY DEF lifeOf
<1>14. outcomeOf' = [outcomeOf EXCEPT ![m] = IF lifeOf[b] = "ended" THEN "rejected" ELSE "answered"]
  BY <1>11, <1>12
<1> QED
  BY <1>1, <1>5, <1>13, <1>14 DEF A!Finish

(* The first step of task_destroy: the actor ends. *)
LEMMA SetDeadIsEnd ==
  ASSUME TypeOK, SchedInv, HandlingRight, HandlingRight', NEW w \in Worker, SetDead(w)
  PROVE  \E b \in Task : A!End(b)
<1>1. PICK b \in Task : b = cur[w]
  BY BusyHasTask DEF SetDead, At, IdlePC
<1>2. /\ pc[w] = "set_dead" /\ pc'[w] = "drain" /\ taskState' = [taskState EXCEPT ![b] = "dead"]
      /\ UNCHANGED <<inbox, msgState, cur, msg, arg>>
      /\ \A x \in Thread \ {w} : pc'[x] = pc[x]
  BY <1>1 DEF SetDead, At, Goto, mailboxVars, mboxVars, msgVars, localVars, TypeOK, ThreadTypeOK, Thread
<1>3. \A x \in Worker : SameWork(x)
  BY <1>2 DEF SameWork, Handles, HandlingPC, CallPC, Thread
<1>4. \A t \in Task : handlingOf'[t] = handlingOf[t]
  BY <1>3, HandlingSame
<1>5. \A x \in Worker : cur[x] = b => ~Handles(x)
  BY <1>1, <1>2 DEF SchedInv, OneRunner, Running, Handles, HandlingPC, CallPC, LeavingPC
<1>6. handlingOf[b] = None /\ handlingOf' = handlingOf
  BY <1>4, <1>5, NotHandled, Maps
<1>7. \A x \in Thread, m \in Msg : Appending(x, m)' <=> Appending(x, m)
  BY <1>2 DEF Appending
<1>8. outcomeOf' = outcomeOf
  BY <1>2, <1>7, SameOutcomes, OutcomeSame
<1>9. taskState[b] = "processing"
  BY <1>1, <1>2 DEF SchedInv, TaskStateMatches, ServingPC, DyingPC, BusyPC, CallPC, ReplyPC
<1>10. taskState'[b] = "dead" /\ \A t \in Task \ {b} : taskState'[t] = taskState[t]
  BY <1>2 DEF TypeOK, TaskTypeOK
<1>11. lifeOf[b] = "living" /\ lifeOf'[b] = "ended" /\ \A t \in Task \ {b} : lifeOf'[t] = lifeOf[t]
  BY <1>9, <1>10 DEF lifeOf
<1>12. lifeOf' = [lifeOf EXCEPT ![b] = "ended"]
  BY <1>11, Maps, MapUpdate
<1> QED
  BY <1>2, <1>6, <1>8, <1>11, <1>12 DEF A!End

(* A notification neither begins nor ends an actor. *)
LEMMA NotifyAge ==
  ASSUME TypeOK, NEW t \in Task, NEW th \in Thread, NEW l \in PC,
         notify_pointer(t, [pc EXCEPT ![th] = l])
  PROVE  \A b \in Task : SameAge(b)
<1> DEFINE p == [pc EXCEPT ![th] = l]
<1>1. p \in [Thread -> PC]
  BY DEF TypeOK, ThreadTypeOK, PC
<1>2. notify_pointer(t, p)
  OBVIOUS
<1> HIDE DEF p
<1>3. \/ UNCHANGED <<taskState, taskQueue>>
      \/ \E u \in Task : taskState[u] = "idle" /\ taskState' = [taskState EXCEPT ![u] = "waiting"]
  BY <1>1, <1>2, NotifyEffect
<1> QED
  BY <1>3 DEF SameAge, TypeOK, TaskTypeOK

(* The steps of worker and task_destroy. *)
LEMMA WorkerActs ==
  ASSUME TypeOK, SchedInv, MsgInv, HandlingRight, HandlingRight', NEW w \in Worker,
         WorkerStep(w) \/ LuaReturns(w) \/ PopFails(w)
  PROVE  A!ActorsNext \/ UNCHANGED A!actorVars
<1>0. /\ \A x \in Worker \ {w} : SameWork(x)
      /\ \A x \in Thread \ {w}, m \in Msg : Appending(x, m)' <=> Appending(x, m)
  BY WorkerAlone, BystanderActs DEF Thread
<1>l. LocalRight(w)
  BY DEF MsgInv, LocalsRight
<1> USE ProcessAssumption DEF Thread, localVars, taskVars, refVars, mailboxVars, mboxVars, msgVars,
        At, Goto, TypeOK, ThreadTypeOK
<1>q. ASSUME UNCHANGED <<inbox, msgState>>, SameWork(w), \A t \in Task : SameAge(t),
             pc[w] # "append", pc'[w] # "append"
      PROVE  UNCHANGED A!actorVars
  <2>1. \A x \in Thread, m \in Msg : Appending(x, m)' <=> Appending(x, m)
    BY <1>0, <1>q DEF Appending
  <2>2. \A m \in Msg : SameOutcome(m)
    BY <1>q, <2>1, SameOutcomes
  <2> QED
    BY <1>0, <1>q, <2>2, ActorsStutter
<1>r. ASSUME UNCHANGED <<inbox, msgState, taskState>>, SameWork(w), pc[w] # "append", pc'[w] # "append"
      PROVE  UNCHANGED A!actorVars
  BY <1>q, <1>r DEF SameAge
<1>1. CASE pop_task(w) \/ WaitForJob(w)
  <2>1. pc[w] = "pop" /\ pc'[w] \in {"start", "wait"} /\ UNCHANGED <<inbox, msgState, taskState>>
    BY <1>1 DEF pop_task, WaitForJob
  <2> QED
    BY <1>r, <2>1 DEF SameWork, Handles, HandlingPC, CallPC
<1>2. CASE StartTask(w)
  <2>1. /\ pc[w] = "start" /\ pc'[w] \in {"receive", "lua"} /\ UNCHANGED <<inbox, msgState, msg>>
        /\ taskState' = [taskState EXCEPT ![cur[w]] = "processing"]
    BY <1>2 DEF StartTask
  <2>2. msg[w] = None
    BY <1>l, <2>1 DEF LocalRight, HoldPC, CallPC
  <2>3. taskState[cur[w]] \in {"init", "waiting"}
    BY <2>1 DEF SchedInv, TaskStateMatches
  <2>4. \A t \in Task : SameAge(t)
    BY <2>1, <2>3 DEF SameAge, TaskTypeOK
  <2> QED
    BY <1>q, <2>1, <2>2, <2>4 DEF SameWork, Handles
<1>3. CASE Receive(w)
  <2>1. /\ pc[w] = "receive" /\ pc' = [pc EXCEPT ![w] = "lua"]
        /\ UNCHANGED <<cur, taskState, arg>>
    BY <1>3 DEF Receive
  <2>2. PICK b \in Task : b = cur[w]
    BY <2>1, BusyHasTask DEF IdlePC
  <2>3. CASE /\ mailbox_peek(b) /\ msg' = [msg EXCEPT ![w] = Head(inbox[b])]
             /\ mailbox_receive_content(b)
    <3>1. /\ inbox[b] # <<>> /\ inbox' = [inbox EXCEPT ![b] = Tail(@)] /\ UNCHANGED msgState
          /\ pc' = [pc EXCEPT ![w] = IF pc[w] = "receive" THEN "lua" ELSE "drain_reply"]
      BY <2>1, <2>3 DEF mailbox_peek, mailbox_receive_content
    <3>2. A!Take(b)
      BY <2>1, <2>2, <2>3, <3>1, ReceiveIsTake DEF SchedInv
    <3> QED
      BY <3>2 DEF A!ActorsNext
  <2>4. CASE UNCHANGED <<msg, mailboxVars>>
    <3>1. msg[w] = None
      BY <1>l, <2>1 DEF LocalRight, HoldPC, CallPC
    <3> QED
      BY <1>r, <2>1, <2>4, <3>1 DEF SameWork, Handles
  <2> QED
    BY <1>3, <2>2, <2>3, <2>4 DEF Receive
<1>4. CASE SetContent(w)
  <2>1. /\ UNCHANGED <<inbox, msgState, taskState, cur, msg>>
        /\ pc[w] = "set_content" /\ pc'[w] \in {"set_content", "reply"}
    BY <1>4 DEF SetContent, mailbox_message_content_set
  <2> QED
    BY <1>r, <2>1 DEF SameWork, Handles, HandlingPC
<1>5. CASE Reply(w)
  <2>1. pc[w] = "reply" /\ pc'[w] = "unref" /\ \A x \in Thread \ {w} : Bystander(x)
    BY <1>5, ReplyMoves
  <2>2. PICK b \in Task, m \in Msg : b = cur[w] /\ m = msg[w]
    BY <2>1, BusyHasTask DEF IdlePC, ReplyPC
  <2>3. msgState' = [msgState EXCEPT ![m] = "ready"] /\ UNCHANGED <<cur, msg, taskState, inbox>>
    BY <1>5, <2>2 DEF Reply, mailbox_message_reply
  <2>4. A!Finish(b)
    BY <2>1, <2>2, <2>3, ReplyIsFinish
  <2> QED
    BY <2>4 DEF A!ActorsNext
<1>6. CASE DrainReply(w)
  <2>1. pc[w] = "drain_reply" /\ pc'[w] = "drain_unref" /\ \A x \in Thread \ {w} : Bystander(x)
    BY <1>6, DrainReplyMoves
  <2>2. PICK b \in Task, m \in Msg : b = cur[w] /\ m = msg[w]
    BY <2>1, BusyHasTask DEF IdlePC, ReplyPC
  <2>3. msgState' = [msgState EXCEPT ![m] = "dead"] /\ UNCHANGED <<cur, msg, taskState, inbox>>
    BY <1>6, <2>2 DEF DrainReply, mailbox_message_reply
  <2>4. A!Finish(b)
    BY <2>1, <2>2, <2>3, ReplyIsFinish
  <2> QED
    BY <2>4 DEF A!ActorsNext
<1>7. CASE DestroyMessage(w) \/ DrainDestroy(w)
  <2>1. /\ UNCHANGED <<inbox, msgState, taskState>>
        /\ pc[w] \in {"unref", "drain_unref"} /\ pc'[w] \in {"decide", "drain"}
    BY <1>7 DEF DestroyMessage, DrainDestroy, mailbox_message_destroy
  <2> QED
    BY <1>r, <2>1 DEF SameWork, Handles, HandlingPC, CallPC
<1>8. CASE SetIdle(w)
  <2>1. /\ pc[w] = "decide" /\ pc'[w] = "peek" /\ UNCHANGED <<inbox, msgState>>
        /\ taskState' = [taskState EXCEPT ![cur[w]] = "idle"]
    BY <1>8 DEF SetIdle
  <2>2. taskState[cur[w]] = "processing"
    BY <2>1 DEF SchedInv, TaskStateMatches, ServingPC, DyingPC, BusyPC, CallPC, ReplyPC
  <2>3. \A t \in Task : SameAge(t)
    BY <2>1, <2>2 DEF SameAge, TaskTypeOK
  <2> QED
    BY <1>q, <2>1, <2>3 DEF SameWork, Handles, HandlingPC, CallPC
<1>9. CASE Peek(w)
  <2>1. /\ UNCHANGED <<inbox, msgState, taskState>>
        /\ pc[w] = "peek" /\ pc'[w] \in {"peek", "renotify", "pop"}
    BY <1>9 DEF Peek
  <2> QED
    BY <1>r, <2>1 DEF SameWork, Handles, HandlingPC, CallPC
<1>10. CASE Renotify(w)
  <2>1. pc[w] = "renotify" /\ pc'[w] = "pop" /\ UNCHANGED <<inbox, msgState>>
    <3>1. UNCHANGED <<inbox, msgState>>
      BY <1>10 DEF Renotify
    <3> QED
      BY <1>10, <3>1, RenotifyMoves
  <2>2. cur[w] \in Task /\ notify_pointer(cur[w], [pc EXCEPT ![w] = "pop"]) /\ "pop" \in PC
    BY <1>10, <2>1, BusyHasTask DEF Renotify, PC, IdlePC
  <2>3. \A t \in Task : SameAge(t)
    BY <2>2, NotifyAge
  <2> QED
    BY <1>q, <2>1, <2>3 DEF SameWork, Handles, HandlingPC, CallPC
<1>11. CASE SetLastMessage(w) \/ DrainEnd(w) \/ DestroyMailbox(w)
  <2>1. /\ UNCHANGED <<inbox, msgState, taskState>>
        /\ pc[w] \in {"decide", "drain", "mbox_destroy"}
        /\ pc'[w] \in {"set_dead", "mbox_destroy", "close"}
    BY <1>11 DEF SetLastMessage, mailbox_set_last_message, DrainEnd, DestroyMailbox, mailbox_destroy
  <2> QED
    BY <1>r, <2>1 DEF SameWork, Handles, HandlingPC, CallPC
<1>12. CASE SetDead(w)
  BY <1>12, SetDeadIsEnd DEF A!ActorsNext
<1>13. CASE DrainNext(w)
  <2>1. PICK b \in Task : b = cur[w]
    BY <1>13, BusyHasTask DEF DrainNext, IdlePC
  <2>2. /\ pc[w] = "drain"
        /\ pc' = [pc EXCEPT ![w] = IF pc[w] = "receive" THEN "lua" ELSE "drain_reply"]
        /\ inbox[b] # <<>> /\ inbox' = [inbox EXCEPT ![b] = Tail(@)]
        /\ msg' = [msg EXCEPT ![w] = Head(inbox[b])]
        /\ UNCHANGED <<cur, taskState, msgState, arg>>
    BY <1>13, <2>1 DEF DrainNext, mailbox_receive, mailbox_peek
  <2>3. A!Take(b)
    BY <2>1, <2>2, ReceiveIsTake DEF SchedInv
  <2> QED
    BY <2>3 DEF A!ActorsNext
<1>14. CASE CloseRefs(w)
  <2>1. UNCHANGED <<inbox, msgState, taskState, pc, cur, msg>> /\ pc[w] = "close"
    BY <1>14 DEF CloseRefs, drop_mailbox_ref, drop_message_ref, mailbox_destroy,
       mailbox_message_destroy
  <2> QED
    BY <1>r, <2>1 DEF SameWork, Handles
<1>15. CASE FreeTask(w)
  <2>1. /\ pc[w] = "close" /\ pc'[w] = "pop" /\ UNCHANGED <<inbox, msgState>>
        /\ taskState' = [taskState EXCEPT ![cur[w]] = "freed"]
    BY <1>15 DEF FreeTask
  <2>2. taskState[cur[w]] = "dead"
    BY <2>1 DEF SchedInv, TaskStateMatches, DyingPC
  <2>3. \A t \in Task : SameAge(t)
    BY <2>1, <2>2 DEF SameAge, TaskTypeOK
  <2> QED
    BY <1>q, <2>1, <2>3 DEF SameWork, Handles, HandlingPC, CallPC
<1>16. CASE LuaReturns(w)
  <2>1. /\ pc[w] = "lua" /\ UNCHANGED <<inbox, msgState, taskState, cur, msg>>
        /\ pc'[w] = IF serving[w] THEN "set_content" ELSE "decide"
    BY <1>16 DEF LuaReturns
  <2>2. ~serving[w] => msg[w] = None
    BY <1>l, <2>1 DEF LocalRight
  <2>3. SameWork(w)
    BY <2>1, <2>2 DEF SameWork, Handles, HandlingPC
  <2> QED
    BY <1>r, <2>1, <2>3
<1>17. CASE PopFails(w)
  <2>1. UNCHANGED <<inbox, msgState, taskState, pc, cur, msg>> /\ pc[w] \in {"set_content", "decide"}
    BY <1>17 DEF PopFails
  <2> QED
    BY <1>r, <2>1 DEF SameWork, Handles
<1> QED
  BY <1>1, <1>2, <1>3, <1>4, <1>5, <1>6, <1>7, <1>8, <1>9, <1>10, <1>11, <1>12, <1>13, <1>14,
     <1>15, <1>16, <1>17 DEF WorkerStep

(* The calls of Lua code. *)
LEMMA CallerActs ==
  ASSUME TypeOK, SchedInv, MsgInv, MboxInv, HandlingRight, HandlingRight', NEW th \in Thread,
         CallStep(th) \/ LuaStep(th) \/ SpuriousWakeup(th)
  PROVE  A!ActorsNext \/ UNCHANGED A!actorVars
<1>0. /\ \A x \in Worker \ {th} : SameWork(x)
      /\ \A x \in Thread \ {th}, m \in Msg : Appending(x, m)' <=> Appending(x, m)
  BY CallerAlone, BystanderActs DEF Thread
<1> USE ProcessAssumption DEF Thread, localVars, taskVars, refVars, mailboxVars, mboxVars, msgVars,
        At, Goto, TypeOK, ThreadTypeOK
<1>q. ASSUME UNCHANGED <<inbox, msgState>>, th \in Worker => SameWork(th),
             \A t \in Task : SameAge(t), pc[th] # "append", pc'[th] # "append"
      PROVE  UNCHANGED A!actorVars
  <2>1. \A x \in Thread, m \in Msg : Appending(x, m)' <=> Appending(x, m)
    BY <1>0, <1>q DEF Appending
  <2>2. \A m \in Msg : SameOutcome(m)
    BY <1>q, <2>1, SameOutcomes
  <2> QED
    BY <1>0, <1>q, <2>2, ActorsStutter
<1>r. ASSUME UNCHANGED <<inbox, msgState, taskState>>, th \in Worker => SameWork(th),
             pc[th] # "append", pc'[th] # "append"
      PROVE  UNCHANGED A!actorVars
  BY <1>q, <1>r DEF SameAge
<1>1. CASE SendAppend(th)
  BY <1>1, AppendIsDeliver DEF A!ActorsNext
<1>2. CASE SendNotify(th)
  <2>1. /\ pc[th] = "notify" /\ pc'[th] = "lua" /\ rcpt[arg[th]] \in Task
        /\ UNCHANGED <<inbox, msgState, cur, msg>>
    <3>1. UNCHANGED <<inbox, msgState, cur, msg>>
      BY <1>2 DEF SendNotify
    <3> QED
      BY <1>2, <3>1, SendNotifyMoves
  <2>2. notify_pointer(rcpt[arg[th]], [pc EXCEPT ![th] = "lua"]) /\ "lua" \in PC
    BY <1>2 DEF SendNotify, PC, BusyPC
  <2>3. \A t \in Task : SameAge(t)
    BY <2>1, <2>2, NotifyAge
  <2> QED
    BY <1>q, <2>1, <2>3 DEF SameWork, Handles, HandlingPC, CallPC
<1>3. CASE GetWait(th) \/ GetReturns(th)
  <2>1. /\ UNCHANGED <<inbox, msgState, taskState, cur, msg>>
        /\ pc[th] = "get" /\ pc'[th] \in {"get_wait", "lua"}
    BY <1>3 DEF GetWait, GetReturns
  <2> QED
    BY <1>r, <2>1 DEF SameWork, Handles, HandlingPC, CallPC
<1>4. CASE SpuriousWakeup(th)
  <2>1. /\ UNCHANGED <<inbox, msgState, taskState, cur, msg>>
        /\ \/ pc[th] = "wait" /\ pc'[th] = "pop"
           \/ pc[th] = "get_wait" /\ pc'[th] = "get"
    BY <1>4 DEF SpuriousWakeup
  <2> QED
    BY <1>r, <2>1 DEF SameWork, Handles, HandlingPC, CallPC
<1>5. ASSUME NEW t \in Task, Spawn(th, t) PROVE A!ActorsNext
  <2>1. A!Born(t)
    BY <1>5, SpawnIsBorn
  <2> QED
    BY <2>1 DEF A!ActorsNext
<1>6. ASSUME NEW t \in Task, SpawnFails(th, t) PROVE UNCHANGED A!actorVars
  <2>1. /\ UNCHANGED <<inbox, msgState, pc, cur, msg>> /\ pc[th] = "lua"
        /\ taskState[t] = "none" /\ taskState' = [taskState EXCEPT ![t] = "leaked"]
    BY <1>6 DEF SpawnFails, mailbox_init
  <2>2. \A c \in Task : SameAge(c)
    BY <2>1 DEF SameAge, TaskTypeOK
  <2> QED
    BY <1>q, <2>1, <2>2 DEF SameWork, Handles
<1>7. ASSUME NEW b \in Task, CollectMailboxRef(th, b) PROVE UNCHANGED A!actorVars
  <2>1. UNCHANGED <<inbox, msgState, taskState, pc, cur, msg>> /\ pc[th] = "lua"
    BY <1>7 DEF CollectMailboxRef, drop_mailbox_ref, mailbox_destroy
  <2> QED
    BY <1>r, <2>1 DEF SameWork, Handles
<1>8. ASSUME NEW new \in SUBSET Worker, ExtendPool(th, new) PROVE UNCHANGED A!actorVars
  <2>1. UNCHANGED <<inbox, msgState, taskState, cur, msg>> /\ pc[th] = "lua" /\ pc'[th] = "lua"
    BY <1>8 DEF ExtendPool
  <2> QED
    BY <1>r, <2>1 DEF SameWork, Handles
<1>9. ASSUME NEW b \in Task, NEW k \in Msg, SendStart(th, b, k) PROVE UNCHANGED A!actorVars
  <2>1. /\ pc[th] = "lua" /\ pc'[th] = "append" /\ arg'[th] = k
        /\ msgState[k] = "none" /\ msgState' = [msgState EXCEPT ![k] = "waiting"]
        /\ UNCHANGED <<inbox, taskState, cur, msg>>
    BY <1>9 DEF SendStart, message_alloc
  <2>2. th \in Worker => SameWork(th)
    BY <2>1 DEF SameWork, Handles, HandlingPC, CallPC
  <2>3. msgState'[k] = "waiting" /\ \A m \in Msg \ {k} : msgState'[m] = msgState[m]
    BY <2>1 DEF MailboxTypeOK
  <2>4. SameOutcome(k)
    <3>1. Appending(th, k)'
      BY <2>1 DEF Appending
    <3> QED
      BY <2>1, <2>3, <3>1 DEF SameOutcome, Open
  <2>5. \A m \in Msg \ {k} : SameOutcome(m)
    <3>1. \A x \in Thread, m \in Msg \ {k} : Appending(x, m)' <=> Appending(x, m)
      BY <1>0, <2>1 DEF Appending
    <3> QED
      BY <2>3, <3>1 DEF SameOutcome, Open
  <2>6. \A t \in Task : SameAge(t)
    BY <2>1 DEF SameAge
  <2> QED
    BY <1>0, <2>1, <2>2, <2>4, <2>5, <2>6, ActorsStutter
<1>10. ASSUME NEW m \in Msg, GetStart(th, m) PROVE UNCHANGED A!actorVars
  <2>1. /\ UNCHANGED <<inbox, msgState, taskState, cur, msg>>
        /\ pc[th] = "lua" /\ pc'[th] = "get"
    BY <1>10 DEF GetStart
  <2> QED
    BY <1>r, <2>1 DEF SameWork, Handles, HandlingPC, CallPC
<1>11. ASSUME NEW m \in Msg, CollectMessageRef(th, m) PROVE UNCHANGED A!actorVars
  <2>1. UNCHANGED <<inbox, msgState, taskState, pc, cur, msg>> /\ pc[th] = "lua"
    BY <1>11 DEF CollectMessageRef, drop_message_ref, mailbox_message_destroy
  <2> QED
    BY <1>r, <2>1 DEF SameWork, Handles
<1> QED
  BY <1>1, <1>2, <1>3, <1>4, <1>5, <1>6, <1>7, <1>8, <1>9, <1>10, <1>11 DEF CallStep, LuaStep

-----------------------------------------------------------------------------
(* The refinement. *)

(* Initially no actor is born and no message is sent. *)
LEMMA ActorsBegin == Init => A!ActorsInit
<1> SUFFICES ASSUME Init PROVE A!ActorsInit
  OBVIOUS
<1>1. /\ taskState = [t \in Task |-> "none"] /\ inbox = [t \in Task |-> <<>>]
      /\ msgState = [m \in Msg |-> "none"] /\ msg = [w \in Worker |-> None]
  BY DEF Init, MailboxInit, ProcessInit
<1>2. lifeOf = [t \in Task |-> "unborn"]
  BY <1>1 DEF lifeOf
<1>3. handlingOf = [t \in Task |-> None]
  BY <1>1 DEF handlingOf
<1>4. outcomeOf = [m \in Msg |-> "unsent"]
  BY <1>1 DEF outcomeOf
<1> QED
  BY <1>1, <1>2, <1>3, <1>4 DEF A!ActorsInit

(* Every step of the runtime is a step of one actor, or none. *)
LEMMA ActorsStep ==
  ASSUME TypeOK, SchedInv, MsgInv, MboxInv, HandlingRight, HandlingRight', [Next]_vars
  PROVE  [A!ActorsNext]_(A!actorVars)
<1>1. ASSUME UNCHANGED vars PROVE UNCHANGED A!actorVars
  BY <1>1 DEF vars, mailboxVars, mboxVars, msgVars, taskVars, localVars, A!actorVars, lifeOf,
     handlingOf, outcomeOf
<1> QED
  BY <1>1, WorkerActs, CallerActs DEF Next

(* The runtime implements Actors: whatever the threads do, every mailbox is *)
(* served in order, one message at a time, and every message is answered or *)
(* rejected at most once, according to its recipient's life.                *)
THEOREM RuntimeImplementsActors == Spec => ImplementsActors
<1>1. TypeOK /\ SchedInv => HandlingRight
  BY HandlingIs DEF SchedInv
<1>2. TypeOK' /\ SchedInv' => HandlingRight'
  BY <1>1, PTL
<1>3. /\ TypeOK /\ SchedInv /\ MsgInv /\ MboxInv /\ HandlingRight /\ HandlingRight' /\ [Next]_vars
      => [A!ActorsNext]_(A!actorVars)
  BY ActorsStep
<1> QED
  BY <1>1, <1>2, <1>3, ActorsBegin, RuntimeInvariant, PTL
     DEF Spec, ImplementsActors, A!ActorsSpec

-----------------------------------------------------------------------------
(* What the users of the runtime get from it. *)

(* A message being handled has been delivered and not yet closed.           *)
LEMMA HandledIsOpen ==
  ASSUME TypeOK, MsgInv, HandlingRight, NEW t \in Task, handlingOf[t] # None
  PROVE  handlingOf[t] \in Msg /\ outcomeOf[handlingOf[t]] = "open"
<1>1. PICK w \in Worker : cur[w] = t /\ pc[w] \in HandlingPC /\ handlingOf[t] = msg[w]
  BY DEF HandlingRight
<1>2. PICK m : m = msg[w]
  OBVIOUS
<1>3. m \in Msg
  BY <1>1, <1>2 DEF TypeOK, ThreadTypeOK
<1>4. ~Replied(w)
  BY <1>1 DEF Replied, HandlingPC, CallPC
<1>5. msgState[m] = "waiting"
  BY <1>2, <1>3, <1>4 DEF MsgInv, HoldInv, StateRight, Unreplied
<1>6. \A th \in Thread : ~Appending(th, m)
  BY <1>2, <1>3 DEF MsgInv, HoldInv, OneRecipient
<1>7. outcomeOf[m] = "open"
  BY <1>3, <1>5, <1>6 DEF outcomeOf, Appending
<1> QED
  BY <1>1, <1>2, <1>3, <1>7

(* How the outcome of a message may change. *)
OutcomeMoves(m) ==
  \/ outcomeOf[m] = "unsent" /\ outcomeOf'[m] = "open"
  \/ \E t \in Task : /\ handlingOf[t] = m /\ outcomeOf[m] = "open"
                     /\ outcomeOf'[m] = IF lifeOf[t] = "ended" THEN "rejected" ELSE "answered"

(* A message is unsent, then open, and then what the task that handles it   *)
(* makes of it (mailbox_send, mailbox_message_reply, task_destroy).         *)
OneOutcome == [][\A m \in Msg : outcomeOf'[m] # outcomeOf[m] => OutcomeMoves(m)]_vars

LEMMA OutcomeStep ==
  ASSUME TypeOK, MsgInv, HandlingRight, [A!ActorsNext]_(A!actorVars)
  PROVE  \A m \in Msg : outcomeOf'[m] # outcomeOf[m] => OutcomeMoves(m)
<1> SUFFICES ASSUME NEW m \in Msg, outcomeOf'[m] # outcomeOf[m] PROVE OutcomeMoves(m)
  OBVIOUS
<1>1. outcomeOf = [k \in Msg |-> outcomeOf[k]]
  BY DEF outcomeOf
<1>2. outcomeOf' # outcomeOf
  OBVIOUS
<1>3. PICK t \in Task : A!Finish(t) \/ \E k \in Msg : A!Deliver(t, k)
  BY <1>2 DEF A!ActorsNext, A!actorVars, A!Born, A!Take, A!End
<1>4. CASE A!Finish(t)
  <2>1. /\ handlingOf[t] # None
        /\ outcomeOf' = [outcomeOf EXCEPT ![handlingOf[t]] =
                           IF lifeOf[t] = "ended" THEN "rejected" ELSE "answered"]
    BY <1>4 DEF A!Finish
  <2>2. handlingOf[t] \in Msg /\ outcomeOf[handlingOf[t]] = "open"
    BY <2>1, HandledIsOpen
  <2>3. m = handlingOf[t]
    BY <1>1, <2>1, <2>2
  <2>4. outcomeOf'[m] = IF lifeOf[t] = "ended" THEN "rejected" ELSE "answered"
    BY <1>1, <2>1, <2>3
  <2> QED
    BY <2>2, <2>3, <2>4 DEF OutcomeMoves
<1>5. ASSUME NEW k \in Msg, A!Deliver(t, k) PROVE OutcomeMoves(m)
  <2>1. outcomeOf[k] = "unsent" /\ outcomeOf' = [outcomeOf EXCEPT ![k] = "open"]
    BY <1>5 DEF A!Deliver
  <2>2. m = k /\ outcomeOf'[m] = "open"
    BY <1>1, <2>1
  <2> QED
    BY <2>1, <2>2 DEF OutcomeMoves
<1> QED
  BY <1>3, <1>4, <1>5

(* A message is delivered once and closed once: only by the task that took  *)
(* it, with an answer if the task lives and as dead if it has ended; an     *)
(* outcome is never taken back, although replies, deaths and drains race    *)
(* (mailbox_message_reply, task_destroy).                                   *)
THEOREM EveryMessageClosedOnce == Spec => OneOutcome
<1>1. TypeOK /\ SchedInv => HandlingRight
  BY HandlingIs DEF SchedInv
<1>2. TypeOK' /\ SchedInv' => HandlingRight'
  BY <1>1, PTL
<1>3. /\ TypeOK /\ SchedInv /\ MsgInv /\ MboxInv /\ HandlingRight /\ HandlingRight' /\ [Next]_vars
      => [\A m \in Msg : outcomeOf'[m] # outcomeOf[m] => OutcomeMoves(m)]_vars
  BY ActorsStep, OutcomeStep
<1> QED
  BY <1>1, <1>2, <1>3, RuntimeInvariant, PTL DEF Spec, OneOutcome
=============================================================================
