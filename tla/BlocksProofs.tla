----------------------------- MODULE BlocksProofs -----------------------------
(***************************************************************************)
(* Proofs about the Blocks runtime for every number of tasks, messages and  *)
(* workers.                                                                *)
(***************************************************************************)
EXTENDS Blocks, SequenceTheorems, FiniteSetTheorems, TLAPS

(* The points that pc can name. *)
PC == IdlePC \union LeavingPC \union BusyPC

-----------------------------------------------------------------------------
(* Condition variables. *)

(* A signal moves at most one of the waiting threads, from its wait to l.   *)
LEMMA SignalledMoves ==
  ASSUME NEW p \in [Thread -> PC], NEW W \in SUBSET Thread, NEW l \in PC,
         NEW q \in Signalled(p, W, l)
  PROVE  /\ q \in [Thread -> PC]
         /\ \A th \in Thread : q[th] = p[th] \/ (th \in W /\ q[th] = l)
  BY DEF Signalled

(* pthread_cond_signal(&pool->new_job) moves a sleeping worker to the queue. *)
LEMMA NewJobMoves ==
  ASSUME NEW p \in [Thread -> PC], NEW q \in signal_new_job(p)
  PROVE  /\ q \in [Thread -> PC]
         /\ \A th \in Thread : q[th] = p[th] \/ (pc[th] = "wait" /\ q[th] = "pop")
<1>1. "pop" \in PC
  BY DEF PC, IdlePC
<1>2. {w \in Worker : pc[w] = "wait"} \in SUBSET Thread
  BY DEF Thread
<1> QED
  BY <1>1, <1>2, SignalledMoves DEF signal_new_job

(* pthread_cond_signal(&message->ready) moves a getter to its next check.   *)
LEMMA ReadyMoves ==
  ASSUME NEW p \in [Thread -> PC], NEW m, NEW q \in signal_ready(p, m)
  PROVE  /\ q \in [Thread -> PC]
         /\ \A th \in Thread : q[th] = p[th] \/ (pc[th] = "get_wait" /\ q[th] = "get")
<1>1. "get" \in PC
  BY DEF PC, BusyPC, CallPC
<1> QED
  BY <1>1, SignalledMoves DEF signal_ready

(* The same for a single thread.                                            *)
LEMMA ReadyMovesThread ==
  ASSUME NEW p \in [Thread -> PC], NEW m, pc' \in signal_ready(p, m), NEW th \in Thread
  PROVE  pc'[th] = p[th] \/ (pc[th] = "get_wait" /\ pc'[th] = "get")
BY ReadyMoves

(* process_notify_task, whatever the pointer it is given leads to, queues   *)
(* one idle task or none.                                                   *)
LEMMA NotifyEffect ==
  ASSUME NEW t \in Task, NEW p \in [Thread -> PC], notify_pointer(t, p)
  PROVE  /\ pc' \in [Thread -> PC]
         /\ \A th \in Thread : pc'[th] = p[th] \/ (pc[th] = "wait" /\ pc'[th] = "pop")
         /\ \/ UNCHANGED <<taskState, taskQueue>>
            \/ \E u \in Task : /\ taskState[u] = "idle"
                               /\ taskState' = [taskState EXCEPT ![u] = "waiting"]
                               /\ taskQueue' = Append(taskQueue, u)
         /\ crashed' = crashed \/ crashed' = TRUE
<1>1. ASSUME NEW u \in Task, process_notify_task(u, p)
      PROVE  /\ pc' \in [Thread -> PC]
             /\ \A th \in Thread : pc'[th] = p[th] \/ (pc[th] = "wait" /\ pc'[th] = "pop")
             /\ \/ UNCHANGED <<taskState, taskQueue>>
                \/ /\ taskState[u] = "idle"
                   /\ taskState' = [taskState EXCEPT ![u] = "waiting"]
                   /\ taskQueue' = Append(taskQueue, u)
  BY <1>1, NewJobMoves DEF process_notify_task, push_task
<1>2. CASE taskState[t] # "freed" /\ process_notify_task(t, p) /\ UNCHANGED crashed
  BY <1>1, <1>2
<1>3. CASE pc' = p /\ UNCHANGED <<taskState, taskQueue, crashed>>
  BY <1>3
<1>4. CASE \E u \in Task : process_notify_task(u, p) /\ UNCHANGED crashed
  BY <1>1, <1>4
<1>5. CASE pc' = p /\ crashed' = TRUE /\ UNCHANGED <<taskState, taskQueue>>
  BY <1>5
<1> QED
  BY <1>2, <1>3, <1>4, <1>5 DEF notify_pointer

(* What it does to a single thread.                                         *)
LEMMA NotifyMovesThread ==
  ASSUME NEW t \in Task, NEW p \in [Thread -> PC], notify_pointer(t, p), NEW th \in Thread
  PROVE  pc'[th] = p[th] \/ (pc[th] = "wait" /\ pc'[th] = "pop")
BY NotifyEffect

-----------------------------------------------------------------------------
(* Types. *)

(* A worker that is past the queue has a task.                               *)
LEMMA BusyHasTask ==
  ASSUME TypeOK, NEW w \in Worker, pc[w] \notin IdlePC
  PROVE  cur[w] \in Task
  BY DEF TypeOK, ThreadTypeOK

(* Initially no thread but the root is inside the library.                  *)
LEMMA TypeInit == Init => TypeOK
<1> SUFFICES ASSUME Init PROVE TypeOK
  OBVIOUS
<1> USE ProcessAssumption DEF Init, MailboxInit, ProcessInit, Thread, LuaState
<1>1. MailboxTypeOK
  BY DEF MailboxTypeOK
<1>2. isLoaded \in [Task -> BOOLEAN] /\ crashed \in BOOLEAN
  BY Zenon
<1>3. TaskTypeOK
  BY <1>2 DEF TaskTypeOK
<1>4. RefTypeOK
  BY DEF RefTypeOK
<1>5. ThreadTypeOK
  BY DEF ThreadTypeOK, IdlePC, LeavingPC, CallPC, ReplyPC, BusyPC
<1> QED
  BY <1>1, <1>3, <1>4, <1>5 DEF TypeOK

(* A notification keeps the types of the scheduler's variables.             *)
LEMMA NotifyTypes ==
  ASSUME TaskTypeOK, NEW t \in Task, NEW p \in [Thread -> PC], notify_pointer(t, p),
         UNCHANGED isLoaded
  PROVE  TaskTypeOK'
<1>1. crashed' \in BOOLEAN
  BY NotifyEffect DEF TaskTypeOK
<1>2. CASE UNCHANGED <<taskState, taskQueue>>
  BY <1>1, <1>2 DEF TaskTypeOK
<1>3. CASE \E u \in Task : /\ taskState[u] = "idle"
                           /\ taskState' = [taskState EXCEPT ![u] = "waiting"]
                           /\ taskQueue' = Append(taskQueue, u)
  BY <1>1, <1>3 DEF TaskTypeOK
<1> QED
  BY <1>2, <1>3, NotifyEffect

(* Every step keeps every variable in its type.                             *)
LEMMA TypeStep == TypeOK /\ [Next]_vars => TypeOK'
<1> SUFFICES ASSUME TypeOK, [Next]_vars PROVE TypeOK'
  OBVIOUS
<1> USE ProcessAssumption DEF Thread, LuaState, IdlePC, LeavingPC, CallPC, ReplyPC, BusyPC,
    mailboxVars, mboxVars, msgVars, taskVars, localVars, refVars, At, Goto, TypeOK
<1>1. ASSUME NEW w \in Worker, pop_task(w) PROVE TypeOK'
  BY <1>1 DEF pop_task, MailboxTypeOK, TaskTypeOK, RefTypeOK, ThreadTypeOK
<1>2. ASSUME NEW w \in Worker, WaitForJob(w) PROVE TypeOK'
  BY <1>2 DEF WaitForJob, MailboxTypeOK, TaskTypeOK, RefTypeOK, ThreadTypeOK
<1>3. ASSUME NEW w \in Worker, StartTask(w) PROVE TypeOK'
  <2>1. MailboxTypeOK' /\ TaskTypeOK' /\ RefTypeOK'
    BY <1>3 DEF StartTask, MailboxTypeOK, TaskTypeOK, RefTypeOK, ThreadTypeOK
  <2>2. serving' \in [Worker -> BOOLEAN]
    <3>1. cur[w] \in Task
      BY <1>3, BusyHasTask DEF StartTask
    <3>2. isLoaded[cur[w]] \in BOOLEAN
      BY <3>1 DEF TaskTypeOK
    <3>3. serving' = [serving EXCEPT ![w] = isLoaded[cur[w]]]
      BY <1>3 DEF StartTask
    <3> QED
      BY <3>2, <3>3, Zenon DEF ThreadTypeOK
  <2>3. ThreadTypeOK'
    BY <1>3, <2>2 DEF StartTask, ThreadTypeOK
  <2> QED
    BY <2>1, <2>3
<1>4. ASSUME NEW w \in Worker, Receive(w) PROVE TypeOK'
  <2>1. cur[w] \in Task /\ inbox[cur[w]] \in Seq(Msg)
    BY <1>4, BusyHasTask DEF Receive, MailboxTypeOK
  <2>2. CASE mailbox_peek(cur[w]) /\ mailbox_receive_content(cur[w])
             /\ msg' = [msg EXCEPT ![w] = Head(inbox[cur[w]])]
    <3>1. Head(inbox[cur[w]]) \in Msg /\ Tail(inbox[cur[w]]) \in Seq(Msg)
      BY <2>1, <2>2, HeadTailProperties DEF mailbox_peek
    <3>2. MailboxTypeOK'
      BY <2>1, <2>2, <3>1 DEF mailbox_receive_content, MailboxTypeOK
    <3>3. TaskTypeOK' /\ RefTypeOK'
      BY <1>4, <2>2 DEF Receive, mailbox_receive_content, TaskTypeOK, RefTypeOK
    <3>4. ThreadTypeOK'
      BY <1>4, <2>2, <3>1 DEF Receive, mailbox_receive_content, ThreadTypeOK
    <3> QED
      BY <3>2, <3>3, <3>4
  <2>3. CASE UNCHANGED <<msg, mailboxVars>>
    BY <1>4, <2>3 DEF Receive, MailboxTypeOK, TaskTypeOK, RefTypeOK, ThreadTypeOK
  <2> QED
    BY <1>4, <2>2, <2>3 DEF Receive
<1>5. ASSUME NEW w \in Worker, SetContent(w) PROVE TypeOK'
  <2>1. CASE msg[w] = None
    BY <1>5, <2>1 DEF SetContent, MailboxTypeOK, TaskTypeOK, RefTypeOK, ThreadTypeOK
  <2>2. CASE msg[w] # None
    <3>1. MailboxTypeOK'
      <4>1. msg[w] \in Msg
        BY <2>2 DEF ThreadTypeOK
      <4> QED
        BY <1>5, <2>2, <4>1 DEF SetContent, mailbox_message_content_set, MailboxTypeOK
    <3>2. TaskTypeOK' /\ RefTypeOK'
      BY <1>5, <2>2 DEF SetContent, mailbox_message_content_set, TaskTypeOK, RefTypeOK
    <3>3. ThreadTypeOK'
      BY <1>5, <2>2 DEF SetContent, mailbox_message_content_set, ThreadTypeOK
    <3> QED
      BY <3>1, <3>2, <3>3
  <2> QED
    BY <2>1, <2>2
<1>6. ASSUME NEW w \in Worker, Reply(w) PROVE TypeOK'
  <2> DEFINE p == [pc EXCEPT ![w] = "unref"]
  <2>1. p \in [Thread -> PC]
    BY DEF ThreadTypeOK, PC
  <2>2. /\ pc' \in [Thread -> PC]
        /\ \A th \in Thread : pc'[th] = p[th] \/ (pc[th] = "get_wait" /\ pc'[th] = "get")
    <3>1. pc' \in signal_ready(p, msg[w])
      BY <1>6 DEF Reply
    <3> HIDE DEF p
    <3> QED
      BY <2>1, <3>1, ReadyMoves
  <2>3. MailboxTypeOK' /\ TaskTypeOK' /\ RefTypeOK'
    BY <1>6 DEF Reply, mailbox_message_reply, MailboxTypeOK, TaskTypeOK, RefTypeOK, ThreadTypeOK
  <2>4. ThreadTypeOK'
    BY <1>6, <2>2 DEF Reply, mailbox_message_reply, ThreadTypeOK, PC
  <2> QED
    BY <2>3, <2>4
<1>7. ASSUME NEW w \in Worker, DestroyMessage(w) PROVE TypeOK'
  <2>1. MailboxTypeOK' /\ TaskTypeOK' /\ RefTypeOK'
    BY <1>7 DEF DestroyMessage, mailbox_message_destroy, MailboxTypeOK, TaskTypeOK, RefTypeOK, ThreadTypeOK
  <2>2. ThreadTypeOK'
    BY <1>7 DEF DestroyMessage, mailbox_message_destroy, ThreadTypeOK
  <2> QED
    BY <2>1, <2>2
<1>8. ASSUME NEW w \in Worker, SetIdle(w) PROVE TypeOK'
  BY <1>8 DEF SetIdle, MailboxTypeOK, TaskTypeOK, RefTypeOK, ThreadTypeOK
<1>9. ASSUME NEW w \in Worker, Peek(w) PROVE TypeOK'
  <2>1. MailboxTypeOK' /\ TaskTypeOK' /\ RefTypeOK'
    BY <1>9 DEF Peek, MailboxTypeOK, TaskTypeOK, RefTypeOK
  <2>2. \/ Goto(w, "renotify") /\ UNCHANGED cur
        \/ Goto(w, "pop") /\ cur' = [cur EXCEPT ![w] = None]
        \/ UNCHANGED <<pc, cur>>
    BY <1>9 DEF Peek
  <2>3. ThreadTypeOK'
    BY <1>9, <2>2 DEF Peek, ThreadTypeOK
  <2> QED
    BY <2>1, <2>3
<1>10. ASSUME NEW w \in Worker, Renotify(w) PROVE TypeOK'
  <2> DEFINE p == [pc EXCEPT ![w] = "pop"]
  <2>1. p \in [Thread -> PC] /\ cur[w] \in Task
    BY <1>10 DEF Renotify, ThreadTypeOK, PC
  <2>2. notify_pointer(cur[w], p)
    BY <1>10 DEF Renotify
  <2>3. TaskTypeOK'
    BY <1>10, <2>1, <2>2, NotifyTypes DEF Renotify
  <2>4. MailboxTypeOK' /\ RefTypeOK'
    BY <1>10 DEF Renotify, MailboxTypeOK, RefTypeOK
  <2>5. ThreadTypeOK'
    <3> HIDE DEF p
    <3>1. /\ pc' \in [Thread -> PC]
          /\ \A th \in Thread : pc'[th] = p[th] \/ (pc[th] = "wait" /\ pc'[th] = "pop")
      BY <2>1, <2>2, NotifyEffect
    <3> QED
      <4>1. /\ pc'[w] = "pop"
            /\ \A th \in Thread \ {w} : pc'[th] = pc[th] \/ (pc[th] = "wait" /\ pc'[th] = "pop")
        <5>1. p[w] = "pop" /\ \A th \in Thread \ {w} : p[th] = pc[th]
          BY DEF TypeOK, ThreadTypeOK, p
        <5>2. pc[w] = "renotify"
          BY <1>10 DEF Renotify, At
        <5> QED
          BY <3>1, <5>1, <5>2 DEF Thread
      <4>2. /\ cur' = [cur EXCEPT ![w] = None]
            /\ UNCHANGED <<msg, serving, arg, rcpt>>
        BY <1>10 DEF Renotify, mailboxVars, msgVars
      <4>3. pc' \in [Thread -> IdlePC \union LeavingPC \union BusyPC]
        BY <3>1 DEF PC
      <4>4. pc'[Root] = pc[Root]
        BY <4>1, ProcessAssumption DEF ThreadTypeOK, CallPC, Thread, ProcessAssumption
      <4>5. \A x \in Worker : cur'[x] = None <=> pc'[x] \in IdlePC
        BY <4>1, <4>2 DEF ThreadTypeOK, IdlePC, Thread
      <4>6. \A x \in Worker : pc'[x] \in ReplyPC => msg[x] # None
        BY <4>1 DEF ThreadTypeOK, ReplyPC, Thread
      <4>7. \A th \in Thread : pc'[th] \in CallPC => pc'[th] = pc[th]
        BY <4>1 DEF CallPC
      <4> QED
        BY <4>2, <4>3, <4>4, <4>5, <4>6, <4>7 DEF ThreadTypeOK
  <2> QED
    BY <2>3, <2>4, <2>5
<1>11. ASSUME NEW w \in Worker, SetLastMessage(w) PROVE TypeOK'
  BY <1>11 DEF SetLastMessage, mailbox_set_last_message, MailboxTypeOK, TaskTypeOK, RefTypeOK, ThreadTypeOK
<1>12. ASSUME NEW w \in Worker, SetDead(w) PROVE TypeOK'
  BY <1>12 DEF SetDead, MailboxTypeOK, TaskTypeOK, RefTypeOK, ThreadTypeOK
<1>13. ASSUME NEW w \in Worker, DrainNext(w) PROVE TypeOK'
  <2>1. cur[w] \in Task /\ inbox[cur[w]] \in Seq(Msg)
    BY <1>13, BusyHasTask DEF DrainNext, MailboxTypeOK
  <2>2. Head(inbox[cur[w]]) \in Msg /\ Tail(inbox[cur[w]]) \in Seq(Msg)
    BY <1>13, <2>1, HeadTailProperties DEF DrainNext, mailbox_peek
  <2>3. MailboxTypeOK' /\ TaskTypeOK' /\ RefTypeOK'
    BY <1>13, <2>2 DEF DrainNext, mailbox_receive, MailboxTypeOK, TaskTypeOK, RefTypeOK
  <2>4. ThreadTypeOK'
    BY <1>13, <2>2 DEF DrainNext, mailbox_receive, ThreadTypeOK
  <2> QED
    BY <2>3, <2>4
<1>14. ASSUME NEW w \in Worker, DrainReply(w) PROVE TypeOK'
  <2> DEFINE p == [pc EXCEPT ![w] = "drain_unref"]
  <2>1. p \in [Thread -> PC]
    BY DEF ThreadTypeOK, PC
  <2>2. /\ pc' \in [Thread -> PC]
        /\ \A th \in Thread : pc'[th] = p[th] \/ (pc[th] = "get_wait" /\ pc'[th] = "get")
    <3>1. pc' \in signal_ready(p, msg[w])
      BY <1>14 DEF DrainReply
    <3> HIDE DEF p
    <3> QED
      BY <2>1, <3>1, ReadyMoves
  <2>3. MailboxTypeOK' /\ TaskTypeOK' /\ RefTypeOK'
    BY <1>14 DEF DrainReply, mailbox_message_reply, MailboxTypeOK, TaskTypeOK, RefTypeOK, ThreadTypeOK
  <2>4. ThreadTypeOK'
    BY <1>14, <2>2 DEF DrainReply, mailbox_message_reply, ThreadTypeOK, PC
  <2> QED
    BY <2>3, <2>4
<1>15. ASSUME NEW w \in Worker, DrainDestroy(w) PROVE TypeOK'
  BY <1>15 DEF DrainDestroy, mailbox_message_destroy, MailboxTypeOK, TaskTypeOK, RefTypeOK, ThreadTypeOK
<1>16. ASSUME NEW w \in Worker, DrainEnd(w) PROVE TypeOK'
  BY <1>16 DEF DrainEnd, MailboxTypeOK, TaskTypeOK, RefTypeOK, ThreadTypeOK
<1>17. ASSUME NEW w \in Worker, DestroyMailbox(w) PROVE TypeOK'
  BY <1>17 DEF DestroyMailbox, mailbox_destroy, MailboxTypeOK, TaskTypeOK, RefTypeOK, ThreadTypeOK
<1>18. ASSUME NEW w \in Worker, CloseRefs(w) PROVE TypeOK'
  <2>1. ASSUME NEW b \in Task, drop_mailbox_ref(b) PROVE TypeOK'
    BY <1>18, <2>1 DEF CloseRefs, drop_mailbox_ref, mailbox_destroy, MailboxTypeOK, TaskTypeOK, RefTypeOK, ThreadTypeOK
  <2>2. ASSUME NEW m \in Msg, drop_message_ref(m) PROVE TypeOK'
    BY <1>18, <2>2 DEF CloseRefs, drop_message_ref, mailbox_message_destroy, MailboxTypeOK, TaskTypeOK, RefTypeOK, ThreadTypeOK
  <2> QED
    BY <1>18, <2>1, <2>2 DEF CloseRefs
<1>19. ASSUME NEW w \in Worker, FreeTask(w) PROVE TypeOK'
  <2>1. MailboxTypeOK' /\ TaskTypeOK' /\ RefTypeOK'
    BY <1>19 DEF FreeTask, MailboxTypeOK, TaskTypeOK, RefTypeOK, ThreadTypeOK
  <2>2. ThreadTypeOK'
    BY <1>19 DEF FreeTask, ThreadTypeOK
  <2> QED
    BY <2>1, <2>2
<1>20. ASSUME NEW w \in Worker, LuaReturns(w) PROVE TypeOK'
  BY <1>20 DEF LuaReturns, MailboxTypeOK, TaskTypeOK, RefTypeOK, ThreadTypeOK
<1>21. ASSUME NEW w \in Worker, PopFails(w) PROVE TypeOK'
  BY <1>21 DEF PopFails, MailboxTypeOK, TaskTypeOK, RefTypeOK, ThreadTypeOK
<1>22. ASSUME NEW th \in Thread, SendAppend(th) PROVE TypeOK'
  BY <1>22 DEF SendAppend, mailbox_append, MailboxTypeOK, TaskTypeOK, RefTypeOK, ThreadTypeOK
<1>23. ASSUME NEW th \in Thread, SendNotify(th) PROVE TypeOK'
  <2> DEFINE p == [pc EXCEPT ![th] = "lua"]
  <2>1. p \in [Thread -> PC] /\ arg[th] \in Msg /\ rcpt[arg[th]] \in Task
    BY <1>23 DEF SendNotify, ThreadTypeOK, MailboxTypeOK, PC
  <2>2. notify_pointer(rcpt[arg[th]], p)
    BY <1>23 DEF SendNotify
  <2>3. TaskTypeOK'
    BY <1>23, <2>1, <2>2, NotifyTypes DEF SendNotify
  <2>4. MailboxTypeOK' /\ RefTypeOK'
    BY <1>23, <2>1 DEF SendNotify, StateOf, MailboxTypeOK, RefTypeOK, ThreadTypeOK
  <2>5. ThreadTypeOK'
    <3> HIDE DEF p
    <3>1. /\ pc' \in [Thread -> PC]
          /\ \A x \in Thread : pc'[x] = p[x] \/ (pc[x] = "wait" /\ pc'[x] = "pop")
      BY <2>1, <2>2, NotifyEffect
    <3> QED
      BY <1>23, <3>1 DEF SendNotify, ThreadTypeOK, PC, p
  <2> QED
    BY <2>3, <2>4, <2>5
<1>24. ASSUME NEW th \in Thread, GetWait(th) PROVE TypeOK'
  BY <1>24 DEF GetWait, MailboxTypeOK, TaskTypeOK, RefTypeOK, ThreadTypeOK
<1>25. ASSUME NEW th \in Thread, GetReturns(th) PROVE TypeOK'
  BY <1>25 DEF GetReturns, MailboxTypeOK, TaskTypeOK, RefTypeOK, ThreadTypeOK
<1>26. ASSUME NEW th \in Thread, NEW t \in Task, Spawn(th, t) PROVE TypeOK'
  <2>1. MailboxTypeOK' /\ TaskTypeOK' /\ RefTypeOK'
    BY <1>26 DEF Spawn, mailbox_init, push_task, StateOf, MailboxTypeOK, TaskTypeOK, RefTypeOK, ThreadTypeOK
  <2>2. /\ pc' \in [Thread -> PC]
        /\ \A x \in Thread : pc'[x] = pc[x] \/ (pc[x] = "wait" /\ pc'[x] = "pop")
    <3>1. pc \in [Thread -> PC]
      BY DEF TypeOK, ThreadTypeOK, PC
    <3>2. pc' \in signal_new_job(pc)
      BY <1>26 DEF Spawn
    <3> QED
      BY <3>1, <3>2, NewJobMoves
  <2>3. ThreadTypeOK'
    BY <1>26, <2>2 DEF Spawn, mailbox_init, ThreadTypeOK, PC
  <2> QED
    BY <2>1, <2>3
<1>27. ASSUME NEW th \in Thread, NEW t \in Task, SpawnFails(th, t) PROVE TypeOK'
  BY <1>27 DEF SpawnFails, mailbox_init, MailboxTypeOK, TaskTypeOK, RefTypeOK, ThreadTypeOK
<1>28. ASSUME NEW th \in Thread, NEW t \in Task, CollectMailboxRef(th, t)
      PROVE  TypeOK'
  BY <1>28 DEF CollectMailboxRef, drop_mailbox_ref, mailbox_destroy, MailboxTypeOK, TaskTypeOK, RefTypeOK, ThreadTypeOK
<1>29. ASSUME NEW th \in Thread, NEW new \in SUBSET Worker, ExtendPool(th, new)
      PROVE  TypeOK'
  BY <1>29 DEF ExtendPool, MailboxTypeOK, TaskTypeOK, RefTypeOK, ThreadTypeOK
<1>30. ASSUME NEW th \in Thread, NEW b \in Task, NEW m \in Msg, SendStart(th, b, m)
      PROVE  TypeOK'
  <2>1. MailboxTypeOK' /\ TaskTypeOK' /\ RefTypeOK'
    BY <1>30 DEF SendStart, message_alloc, MailboxTypeOK, TaskTypeOK, RefTypeOK
  <2>2. rcpt' = [rcpt EXCEPT ![m] = b] /\ b # None /\ m # None
    BY <1>30 DEF SendStart, message_alloc
  <2>3. \A x \in Thread : pc'[x] \in CallPC => arg'[x] # None /\ rcpt'[arg'[x]] # None
    BY <1>30, <2>2 DEF SendStart, MailboxTypeOK, ThreadTypeOK
  <2>4. ThreadTypeOK'
    BY <1>30, <2>3 DEF SendStart, ThreadTypeOK
  <2> QED
    BY <2>1, <2>4
<1>31. ASSUME NEW th \in Thread, NEW m \in Msg, GetStart(th, m) PROVE TypeOK'
  BY <1>31 DEF GetStart, StateOf, MailboxTypeOK, TaskTypeOK, RefTypeOK, ThreadTypeOK
<1>32. ASSUME NEW th \in Thread, NEW m \in Msg, CollectMessageRef(th, m)
      PROVE  TypeOK'
  BY <1>32 DEF CollectMessageRef, drop_message_ref, mailbox_message_destroy, MailboxTypeOK, TaskTypeOK, RefTypeOK, ThreadTypeOK
<1>33. ASSUME NEW th \in Thread, SpuriousWakeup(th) PROVE TypeOK'
  <2>1. MailboxTypeOK' /\ TaskTypeOK' /\ RefTypeOK'
    BY <1>33 DEF SpuriousWakeup, MailboxTypeOK, TaskTypeOK, RefTypeOK
  <2>2. \/ At(th, "wait") /\ Goto(th, "pop") /\ th \in Worker
        \/ At(th, "get_wait") /\ Goto(th, "get")
    BY <1>33 DEF SpuriousWakeup, ThreadTypeOK
  <2>3. ThreadTypeOK'
    BY <1>33, <2>2 DEF SpuriousWakeup, ThreadTypeOK
  <2> QED
    BY <2>1, <2>3
<1>34. CASE UNCHANGED vars
  BY <1>34 DEF vars, MailboxTypeOK, TaskTypeOK, RefTypeOK, ThreadTypeOK
<1> QED
  BY <1>1, <1>2, <1>3, <1>4, <1>5, <1>6, <1>7, <1>8, <1>9, <1>10, <1>11, <1>12,
     <1>13, <1>14, <1>15, <1>16, <1>17, <1>18, <1>19, <1>20, <1>21, <1>22, <1>23,
     <1>24, <1>25, <1>26, <1>27, <1>28, <1>29, <1>30, <1>31, <1>32, <1>33, <1>34
     DEF Next, WorkerStep, CallStep, LuaStep

(* Throughout every execution each variable has its type, and worker and    *)
(* task_destroy have the pointers that they are about to use.               *)
THEOREM TypeCorrect == Spec => []TypeOK
<1>1. Init => TypeOK
  BY TypeInit
<1>2. TypeOK /\ [Next]_vars => TypeOK'
  BY TypeStep
<1> QED
  BY <1>1, <1>2, PTL DEF Spec

-----------------------------------------------------------------------------
(* The scheduler. *)

(* What of a queue is kept when its head is taken off.                      *)
LEMMA QueueTail ==
  ASSUME NEW S, NEW q \in Seq(S), q # <<>>, Distinct(q)
  PROVE  /\ Head(q) \in S /\ Tail(q) \in Seq(S)
         /\ Occurs(Head(q), q) /\ ~Occurs(Head(q), Tail(q))
         /\ \A t : t # Head(q) => (Occurs(t, Tail(q)) <=> Occurs(t, q))
         /\ Distinct(Tail(q))
<1>1. Len(q) \in Nat /\ Len(q) >= 1 /\ DOMAIN q = 1 .. Len(q)
  BY EmptySeq, LenProperties
<1>2. /\ Head(q) = q[1] /\ Head(q) \in S /\ Tail(q) \in Seq(S)
      /\ DOMAIN Tail(q) = 1 .. Len(q) - 1
      /\ \A i \in 1 .. Len(q) - 1 : Tail(q)[i] = q[i + 1]
  BY <1>1, HeadTailProperties, LenProperties
<1>3. Occurs(Head(q), q)
  BY <1>1, <1>2 DEF Occurs
<1>4. ~Occurs(Head(q), Tail(q))
  BY <1>1, <1>2 DEF Occurs, Distinct
<1>5. ASSUME NEW t, t # Head(q) PROVE Occurs(t, Tail(q)) <=> Occurs(t, q)
  <2>1. ASSUME NEW i \in DOMAIN Tail(q), Tail(q)[i] = t PROVE Occurs(t, q)
    BY <1>1, <1>2, <2>1 DEF Occurs
  <2>2. ASSUME NEW i \in DOMAIN q, q[i] = t PROVE Occurs(t, Tail(q))
    <3>1. i # 1 /\ i - 1 \in 1 .. Len(q) - 1 /\ Tail(q)[i - 1] = t
      BY <1>1, <1>2, <1>5, <2>2
    <3> QED
      BY <1>2, <3>1 DEF Occurs
  <2> QED
    BY <2>1, <2>2 DEF Occurs
<1>6. Distinct(Tail(q))
  BY <1>1, <1>2 DEF Distinct
<1> QED
  BY <1>2, <1>3, <1>4, <1>5, <1>6

(* What push_task does to a queue.                                          *)
LEMMA QueueAppend ==
  ASSUME NEW S, NEW q \in Seq(S), NEW u \in S, Distinct(q), ~Occurs(u, q)
  PROVE  /\ \A t : Occurs(t, Append(q, u)) <=> Occurs(t, q) \/ t = u
         /\ Distinct(Append(q, u))
<1>1. Len(q) \in Nat /\ DOMAIN q = 1 .. Len(q)
  BY LenProperties
<1>2. /\ DOMAIN Append(q, u) = 1 .. Len(q) + 1
      /\ \A i \in 1 .. Len(q) : Append(q, u)[i] = q[i]
      /\ Append(q, u)[Len(q) + 1] = u
  BY <1>1, AppendProperties, LenProperties
<1>3. ASSUME NEW t PROVE Occurs(t, Append(q, u)) <=> Occurs(t, q) \/ t = u
  <2>1. Occurs(t, Append(q, u)) => Occurs(t, q) \/ t = u
    BY <1>1, <1>2 DEF Occurs
  <2>2. Occurs(t, q) => Occurs(t, Append(q, u))
    BY <1>1, <1>2 DEF Occurs
  <2>3. Len(q) + 1 \in DOMAIN Append(q, u)
    BY <1>1, <1>2
  <2>4. t = u => Occurs(t, Append(q, u))
    BY <1>2, <2>3 DEF Occurs
  <2> QED
    BY <2>1, <2>2, <2>4
<1>4. Distinct(Append(q, u))
  BY <1>1, <1>2 DEF Occurs, Distinct
<1> QED
  BY <1>3, <1>4

(* The inductive invariant of the scheduler.                                *)
SchedInv == TaskStateMatches /\ OneRunner /\ NoOrphanTask

(* Nothing that the invariant speaks of happens to worker w.                *)
SameStage(w) ==
  \/ pc[w] \in IdlePC \union LeavingPC /\ pc'[w] \in IdlePC \union LeavingPC
  \/ /\ cur'[w] = cur[w]
     /\ \/ pc[w] = "start" /\ pc'[w] = "start"
        \/ pc[w] \in ServingPC /\ pc'[w] \in ServingPC
        \/ pc[w] \in DyingPC /\ pc'[w] \in DyingPC

(* Before the first spawn there is nothing to schedule.                     *)
LEMMA SchedInit == Init => SchedInv
<1> SUFFICES ASSUME Init PROVE SchedInv
  OBVIOUS
<1>0. taskQueue = <<>> /\ \A t \in Task : taskState[t] = "none"
  BY DEF Init, ProcessInit
<1>1. \A t \in Task : ~Queued(t)
  <2>1. taskQueue \in Seq(Task) /\ Len(taskQueue) = 0
    BY <1>0, EmptySeq
  <2>2. DOMAIN taskQueue = 1 .. 0
    BY <2>1, LenProperties
  <2> QED
    BY <2>2 DEF Queued, Occurs
<1>2. \A w \in Worker : pc[w] \in {"pop", "none"} /\ cur[w] = None
  BY ProcessAssumption DEF Init, ProcessInit, Thread
<1>3. TaskStateMatches
  BY <1>1, <1>2 DEF TaskStateMatches, ServingPC, DyingPC, BusyPC, CallPC, ReplyPC
<1>4. OneRunner
  BY <1>0, <1>1, <1>2, ProcessAssumption DEF OneRunner, Running, Distinct
<1>5. NoOrphanTask
  BY <1>0 DEF NoOrphanTask
<1> QED
  BY <1>3, <1>4, <1>5 DEF SchedInv

(* Steps that move no worker from one stage to another and leave task       *)
(* states and queue alone keep the invariant.                               *)
LEMMA QuietStep ==
  ASSUME TypeOK, TypeOK', SchedInv, UNCHANGED <<taskState, taskQueue>>,
         \A w \in Worker : SameStage(w)
  PROVE  SchedInv'
<1>1. \A t : Queued(t)' <=> Queued(t)
  BY DEF Queued
<1>2. ASSUME NEW w \in Worker, NEW t \in Task PROVE Running(w, t)' <=> Running(w, t)
  BY ProcessAssumption DEF SameStage, Running, TypeOK, ThreadTypeOK, Thread, IdlePC, LeavingPC,
     ServingPC, DyingPC, BusyPC, CallPC, ReplyPC
<1>3. OneRunner'
  BY <1>1, <1>2 DEF SchedInv, OneRunner
<1>4. TaskStateMatches'
  BY <1>1 DEF SchedInv, TaskStateMatches, SameStage, IdlePC, LeavingPC, ServingPC, DyingPC,
     BusyPC, CallPC, ReplyPC
<1>5. ASSUME NEW w \in Worker, NEW t \in Task
      PROVE  (cur[w] = t /\ pc[w] = "start") => (cur'[w] = t /\ pc'[w] = "start")
  BY DEF SameStage, IdlePC, LeavingPC, ServingPC, DyingPC, BusyPC, CallPC, ReplyPC
<1>6. NoOrphanTask'
  BY <1>1, <1>2, <1>5 DEF SchedInv, NoOrphanTask
<1> QED
  BY <1>3, <1>4, <1>6 DEF SchedInv

(* Queueing a task that is idle or new keeps the invariant: nobody runs it  *)
(* and it is not queued yet.                                                *)
LEMMA PushStep ==
  ASSUME TypeOK, TypeOK', SchedInv, NEW u \in Task, taskState[u] \in {"idle", "none"},
         NEW s \in {"waiting", "init"}, taskState' = [taskState EXCEPT ![u] = s],
         taskQueue' = Append(taskQueue, u), \A w \in Worker : SameStage(w)
  PROVE  SchedInv'
<1>1. ~Queued(u) /\ \A w \in Worker : ~Running(w, u)
  BY ProcessAssumption DEF SchedInv, TaskStateMatches, Running, TypeOK, ThreadTypeOK, Thread,
     IdlePC, LeavingPC, ServingPC, DyingPC, BusyPC, CallPC, ReplyPC
<1>2. /\ \A t : Queued(t)' <=> Queued(t) \/ t = u
      /\ Distinct(taskQueue')
  BY <1>1, QueueAppend DEF Queued, TypeOK, TaskTypeOK, SchedInv, OneRunner
<1>3. ASSUME NEW w \in Worker, NEW t \in Task PROVE Running(w, t)' <=> Running(w, t)
  BY ProcessAssumption DEF SameStage, Running, TypeOK, ThreadTypeOK, Thread, IdlePC, LeavingPC,
     ServingPC, DyingPC, BusyPC, CallPC, ReplyPC
<1>4. OneRunner'
  BY <1>1, <1>2, <1>3 DEF SchedInv, OneRunner
<1>5. \A t \in Task : taskState'[t] = IF t = u THEN s ELSE taskState[t]
  BY DEF TypeOK, TaskTypeOK
<1>6. TaskStateMatches'
  <2>1. \A t \in Task : Queued(t)' => taskState'[t] \in {"init", "waiting"}
    BY <1>2, <1>5 DEF SchedInv, TaskStateMatches
  <2>2. ASSUME NEW w \in Worker, ~(pc[w] \in IdlePC \union LeavingPC)
        PROVE  cur[w] \in Task /\ cur[w] # u
    <3>1. cur[w] \in Task
      BY <2>2, BusyHasTask
    <3> QED
      BY <1>1, <2>2, <3>1 DEF Running
  <2>3. ASSUME NEW w \in Worker
        PROVE  /\ pc'[w] = "start" => taskState'[cur'[w]] \in {"init", "waiting"}
               /\ pc'[w] \in ServingPC => taskState'[cur'[w]] = "processing"
               /\ pc'[w] \in DyingPC => taskState'[cur'[w]] = "dead"
    BY <1>5, <2>2 DEF SchedInv, TaskStateMatches, SameStage, IdlePC, LeavingPC,
       ServingPC, DyingPC, BusyPC, CallPC, ReplyPC
  <2> QED
    BY <2>1, <2>3 DEF TaskStateMatches
<1>7. ASSUME NEW w \in Worker, NEW t \in Task
      PROVE  (cur[w] = t /\ pc[w] = "start") => (cur'[w] = t /\ pc'[w] = "start")
  BY DEF SameStage, IdlePC, LeavingPC, ServingPC, DyingPC, BusyPC, CallPC, ReplyPC
<1>8. NoOrphanTask'
  BY <1>2, <1>3, <1>5, <1>7 DEF SchedInv, NoOrphanTask
<1> QED
  BY <1>4, <1>6, <1>8 DEF SchedInv

(* A late, a repeated or a stray notification keeps the invariant.          *)
LEMMA NotifyStep ==
  ASSUME TypeOK, TypeOK', SchedInv, NEW t \in Task, NEW p \in [Thread -> PC],
         notify_pointer(t, p), \A w \in Worker : SameStage(w)
  PROVE  SchedInv'
<1>1. CASE UNCHANGED <<taskState, taskQueue>>
  BY <1>1, QuietStep
<1>2. CASE \E u \in Task : /\ taskState[u] = "idle"
                           /\ taskState' = [taskState EXCEPT ![u] = "waiting"]
                           /\ taskQueue' = Append(taskQueue, u)
  BY <1>2, PushStep
<1> QED
  BY <1>1, <1>2, NotifyEffect

(* Every step keeps the scheduler's invariant.                              *)
LEMMA SchedStep == TypeOK /\ TypeOK' /\ SchedInv /\ [Next]_vars => SchedInv'
<1> SUFFICES ASSUME TypeOK, TypeOK', SchedInv, [Next]_vars PROVE SchedInv'
  OBVIOUS
<1> USE ProcessAssumption DEF Thread, IdlePC, LeavingPC, CallPC, ReplyPC, BusyPC, ServingPC, DyingPC,
    mailboxVars, mboxVars, msgVars, taskVars, localVars, refVars, At, Goto
<1>t. ThreadTypeOK
  BY DEF TypeOK
<1> USE <1>t DEF ThreadTypeOK
<1>1. ASSUME NEW w \in Worker, pop_task(w) PROVE SchedInv'
  <2>0. taskQueue \in Seq(Task) /\ taskQueue # <<>> /\ taskQueue' = Tail(taskQueue)
    BY <1>1 DEF pop_task, TypeOK, TaskTypeOK
  <2> PICK t \in Task : t = Head(taskQueue)
    BY <2>0, HeadTailProperties
  <2>1. /\ Queued(t) /\ ~Queued(t)'
        /\ \A u : u # t => (Queued(u)' <=> Queued(u))
        /\ Distinct(taskQueue')
    <3>1. Distinct(taskQueue)
      BY DEF SchedInv, OneRunner
    <3> QED
      BY <2>0, <3>1, QueueTail DEF Queued
  <2>2. /\ cur'[w] = t /\ pc'[w] = "start" /\ UNCHANGED taskState
        /\ \A x \in Worker \ {w} : cur'[x] = cur[x] /\ pc'[x] = pc[x]
    BY <1>1 DEF pop_task
  <2>3. pc[w] = "pop" /\ cur[w] = None
    BY <1>1 DEF pop_task
  <2>4. taskState[t] \in {"init", "waiting"} /\ \A x \in Worker : ~Running(x, t)
    BY <2>1 DEF SchedInv, TaskStateMatches, OneRunner
  <2>5. ASSUME NEW x \in Worker, NEW u \in Task
        PROVE  Running(x, u)' <=> Running(x, u) \/ (x = w /\ u = t)
    BY <2>1, <2>2, <2>3 DEF Running
  <2>6. TaskStateMatches'
    BY <2>1, <2>2, <2>4 DEF SchedInv, TaskStateMatches
  <2>7. OneRunner'
    <3>1. ASSUME NEW x \in Worker, NEW y \in Worker, NEW u \in Task,
                 Running(x, u)', Running(y, u)'
          PROVE  x = y
      BY <2>4, <2>5, <3>1 DEF SchedInv, OneRunner
    <3>2. ASSUME NEW x \in Worker, NEW u \in Task, Running(x, u)' PROVE ~Queued(u)'
      BY <2>1, <2>4, <2>5, <3>2 DEF SchedInv, OneRunner
    <3> QED
      BY <2>1, <3>1, <3>2 DEF OneRunner
  <2>8. NoOrphanTask'
    BY <2>1, <2>2, <2>3, <2>5 DEF SchedInv, NoOrphanTask
  <2> QED
    BY <2>6, <2>7, <2>8 DEF SchedInv
<1>2. ASSUME NEW w \in Worker, WaitForJob(w) PROVE SchedInv'
  <2>1. UNCHANGED <<taskState, taskQueue>>
    BY <1>2 DEF WaitForJob
  <2>2. ASSUME NEW x \in Worker PROVE SameStage(x)
    BY <1>2 DEF WaitForJob, SameStage
  <2> QED
    BY <2>1, <2>2, QuietStep
<1>3. ASSUME NEW w \in Worker, StartTask(w) PROVE SchedInv'
  <2> DEFINE t == cur[w]
  <2>1. t \in Task /\ pc[w] = "start" /\ Running(w, t)
    BY <1>3, BusyHasTask DEF StartTask, Running
  <2>2. /\ taskState'[t] = "processing"
        /\ \A u \in Task \ {t} : taskState'[u] = taskState[u]
    BY <1>3, <2>1 DEF StartTask, TypeOK, TaskTypeOK
  <2>3. /\ pc'[w] \in ServingPC /\ UNCHANGED <<cur, taskQueue>>
        /\ \A x \in Worker \ {w} : pc'[x] = pc[x]
    BY <1>3 DEF StartTask
  <2> HIDE DEF t
  <2>4. ASSUME NEW x \in Worker, NEW u \in Task PROVE Running(x, u)' <=> Running(x, u)
    BY <2>1, <2>3 DEF Running, t
  <2>5. ASSUME NEW x \in Worker \ {w}, ~(pc[x] \in IdlePC \union LeavingPC)
        PROVE  cur[x] \in Task \ {t}
    <3>1. cur[x] \in Task
      BY <2>5, BusyHasTask
    <3>2. Running(x, cur[x])
      BY <2>5 DEF Running
    <3> QED
      BY <2>1, <3>1, <3>2 DEF SchedInv, OneRunner
  <2>6. ~Queued(t)
    BY <2>1 DEF SchedInv, OneRunner
  <2>7. TaskStateMatches'
    BY <2>1, <2>2, <2>3, <2>5, <2>6 DEF SchedInv, TaskStateMatches, Queued, t
  <2>8. OneRunner'
    BY <2>3, <2>4 DEF SchedInv, OneRunner, Queued
  <2>9. NoOrphanTask'
    BY <2>1, <2>2, <2>3, <2>4 DEF SchedInv, NoOrphanTask, Queued, t
  <2> QED
    BY <2>7, <2>8, <2>9 DEF SchedInv
<1>4. ASSUME NEW w \in Worker, Receive(w) PROVE SchedInv'
  <2>1. UNCHANGED <<taskState, taskQueue>>
    BY <1>4 DEF Receive
  <2>2. ASSUME NEW x \in Worker PROVE SameStage(x)
    BY <1>4 DEF Receive, SameStage
  <2> QED
    BY <2>1, <2>2, QuietStep
<1>5. ASSUME NEW w \in Worker, SetContent(w) PROVE SchedInv'
  <2>1. UNCHANGED <<taskState, taskQueue>>
    BY <1>5 DEF SetContent
  <2>2. ASSUME NEW x \in Worker PROVE SameStage(x)
    BY <1>5 DEF SetContent, SameStage
  <2> QED
    BY <2>1, <2>2, QuietStep
<1>6. ASSUME NEW w \in Worker, Reply(w) PROVE SchedInv'
  <2> DEFINE p == [pc EXCEPT ![w] = "unref"]
  <2>1. p \in [Thread -> PC]
    BY DEF PC
  <2>2. \A th \in Thread : pc'[th] = p[th] \/ (pc[th] = "get_wait" /\ pc'[th] = "get")
    <3>1. pc' \in signal_ready(p, msg[w])
      BY <1>6 DEF Reply
    <3> HIDE DEF p
    <3> QED
      BY <2>1, <3>1, ReadyMovesThread
  <2>3. ASSUME NEW x \in Worker PROVE SameStage(x)
    <3>1. pc[w] = "reply" /\ UNCHANGED cur
      BY <1>6 DEF Reply, At, localVars
    <3>2. p[w] = "unref" /\ (x # w => p[x] = pc[x])
      BY DEF TypeOK, ThreadTypeOK, Thread
    <3>3. pc'[x] = p[x] \/ (pc[x] = "get_wait" /\ pc'[x] = "get")
      BY <2>2 DEF Thread
    <3> HIDE DEF p
    <3>4. pc[x] \in PC
      BY DEF TypeOK, ThreadTypeOK, PC, Thread
    <3> QED
      BY <3>1, <3>2, <3>3, <3>4 DEF SameStage, PC
  <2>4. UNCHANGED <<taskState, taskQueue>>
    BY <1>6 DEF Reply
  <2> QED
    BY <2>3, <2>4, QuietStep
<1>7. ASSUME NEW w \in Worker, DestroyMessage(w) PROVE SchedInv'
  <2>1. UNCHANGED <<taskState, taskQueue>>
    BY <1>7 DEF DestroyMessage
  <2>2. ASSUME NEW x \in Worker PROVE SameStage(x)
    BY <1>7 DEF DestroyMessage, SameStage
  <2> QED
    BY <2>1, <2>2, QuietStep
<1>8. ASSUME NEW w \in Worker, SetIdle(w) PROVE SchedInv'
  <2> DEFINE t == cur[w]
  <2>1. t \in Task /\ pc[w] = "decide" /\ Running(w, t)
    BY <1>8, BusyHasTask DEF SetIdle, Running
  <2>2. /\ taskState'[t] = "idle"
        /\ \A u \in Task \ {t} : taskState'[u] = taskState[u]
    BY <1>8, <2>1 DEF SetIdle, TypeOK, TaskTypeOK
  <2>3. /\ pc'[w] = "peek" /\ UNCHANGED <<cur, taskQueue>>
        /\ \A x \in Worker \ {w} : pc'[x] = pc[x]
    BY <1>8 DEF SetIdle
  <2> HIDE DEF t
  <2>4. ASSUME NEW x \in Worker, NEW u \in Task
        PROVE  Running(x, u)' <=> Running(x, u) /\ x # w
    BY <2>3 DEF Running
  <2>5. ASSUME NEW x \in Worker \ {w}, ~(pc[x] \in IdlePC \union LeavingPC)
        PROVE  cur[x] \in Task \ {t}
    <3>1. cur[x] \in Task
      BY <2>5, BusyHasTask
    <3>2. Running(x, cur[x])
      BY <2>5 DEF Running
    <3> QED
      BY <2>1, <3>1, <3>2 DEF SchedInv, OneRunner
  <2>6. ~Queued(t)
    BY <2>1 DEF SchedInv, OneRunner
  <2>7. TaskStateMatches'
    BY <2>1, <2>2, <2>3, <2>5, <2>6 DEF SchedInv, TaskStateMatches, Queued, t
  <2>8. OneRunner'
    BY <2>3, <2>4 DEF SchedInv, OneRunner, Queued
  <2>9. NoOrphanTask'
    <3>1. \A u \in Task : Running(w, u) => u = t
      BY DEF Running, t
    <3> QED
      BY <2>1, <2>2, <2>3, <2>4, <3>1 DEF SchedInv, NoOrphanTask, Queued
  <2> QED
    BY <2>7, <2>8, <2>9 DEF SchedInv
<1>9. ASSUME NEW w \in Worker, Peek(w) PROVE SchedInv'
  <2>1. UNCHANGED <<taskState, taskQueue>>
    BY <1>9 DEF Peek
  <2>2. ASSUME NEW x \in Worker PROVE SameStage(x)
    BY <1>9 DEF Peek, SameStage
  <2> QED
    BY <2>1, <2>2, QuietStep
<1>10. ASSUME NEW w \in Worker, Renotify(w) PROVE SchedInv'
  <2> DEFINE p == [pc EXCEPT ![w] = "pop"]
  <2>1. p \in [Thread -> PC] /\ cur[w] \in Task
    BY <1>10, BusyHasTask DEF Renotify, PC
  <2>2. notify_pointer(cur[w], p)
    BY <1>10 DEF Renotify
  <2>3. ASSUME NEW x \in Worker PROVE SameStage(x)
    <3>1. pc'[x] = p[x] \/ (pc[x] = "wait" /\ pc'[x] = "pop")
      <4> HIDE DEF p
      <4> QED
        BY <2>1, <2>2, NotifyMovesThread DEF Thread
    <3> QED
      <4>1. pc[w] = "renotify" /\ cur' = [cur EXCEPT ![w] = None]
        BY <1>10 DEF Renotify, At
      <4>2. p[w] = "pop" /\ (x # w => p[x] = pc[x])
        BY DEF TypeOK, ThreadTypeOK, Thread
      <4> HIDE DEF p
      <4>3. x # w => cur'[x] = cur[x]
        BY <4>1 DEF TypeOK, ThreadTypeOK
      <4>4. pc[x] \in PC
        BY DEF TypeOK, ThreadTypeOK, PC, Thread
      <4> QED
        BY <3>1, <4>1, <4>2, <4>3, <4>4 DEF SameStage, PC
  <2> HIDE DEF p
  <2> QED
    BY <2>1, <2>2, <2>3, NotifyStep
<1>11. ASSUME NEW w \in Worker, SetLastMessage(w) PROVE SchedInv'
  <2>1. UNCHANGED <<taskState, taskQueue>>
    BY <1>11 DEF SetLastMessage
  <2>2. ASSUME NEW x \in Worker PROVE SameStage(x)
    BY <1>11 DEF SetLastMessage, SameStage
  <2> QED
    BY <2>1, <2>2, QuietStep
<1>12. ASSUME NEW w \in Worker, SetDead(w) PROVE SchedInv'
  <2> DEFINE t == cur[w]
  <2>1. t \in Task /\ pc[w] = "set_dead" /\ Running(w, t)
    BY <1>12, BusyHasTask DEF SetDead, Running
  <2>2. /\ taskState'[t] = "dead"
        /\ \A u \in Task \ {t} : taskState'[u] = taskState[u]
    BY <1>12, <2>1 DEF SetDead, TypeOK, TaskTypeOK
  <2>3. /\ pc'[w] \in DyingPC /\ UNCHANGED <<cur, taskQueue>>
        /\ \A x \in Worker \ {w} : pc'[x] = pc[x]
    BY <1>12 DEF SetDead
  <2> HIDE DEF t
  <2>4. ASSUME NEW x \in Worker, NEW u \in Task PROVE Running(x, u)' <=> Running(x, u)
    BY <2>1, <2>3 DEF Running, t
  <2>5. ASSUME NEW x \in Worker \ {w}, ~(pc[x] \in IdlePC \union LeavingPC)
        PROVE  cur[x] \in Task \ {t}
    <3>1. cur[x] \in Task
      BY <2>5, BusyHasTask
    <3>2. Running(x, cur[x])
      BY <2>5 DEF Running
    <3> QED
      BY <2>1, <3>1, <3>2 DEF SchedInv, OneRunner
  <2>6. ~Queued(t)
    BY <2>1 DEF SchedInv, OneRunner
  <2>7. TaskStateMatches'
    BY <2>1, <2>2, <2>3, <2>5, <2>6 DEF SchedInv, TaskStateMatches, Queued, t
  <2>8. OneRunner'
    BY <2>3, <2>4 DEF SchedInv, OneRunner, Queued
  <2>9. NoOrphanTask'
    BY <2>1, <2>2, <2>3, <2>4 DEF SchedInv, NoOrphanTask, Queued, t
  <2> QED
    BY <2>7, <2>8, <2>9 DEF SchedInv
<1>13. ASSUME NEW w \in Worker, DrainNext(w) PROVE SchedInv'
  <2>1. UNCHANGED <<taskState, taskQueue>>
    BY <1>13 DEF DrainNext
  <2>2. ASSUME NEW x \in Worker PROVE SameStage(x)
    BY <1>13 DEF DrainNext, SameStage
  <2> QED
    BY <2>1, <2>2, QuietStep
<1>14. ASSUME NEW w \in Worker, DrainReply(w) PROVE SchedInv'
  <2> DEFINE p == [pc EXCEPT ![w] = "drain_unref"]
  <2>1. p \in [Thread -> PC]
    BY DEF PC
  <2>2. \A th \in Thread : pc'[th] = p[th] \/ (pc[th] = "get_wait" /\ pc'[th] = "get")
    <3>1. pc' \in signal_ready(p, msg[w])
      BY <1>14 DEF DrainReply
    <3> HIDE DEF p
    <3> QED
      BY <2>1, <3>1, ReadyMovesThread
  <2>3. ASSUME NEW x \in Worker PROVE SameStage(x)
    <3>1. pc[w] = "drain_reply" /\ UNCHANGED cur
      BY <1>14 DEF DrainReply, At, localVars
    <3>2. p[w] = "drain_unref" /\ (x # w => p[x] = pc[x])
      BY DEF TypeOK, ThreadTypeOK, Thread
    <3>3. pc'[x] = p[x] \/ (pc[x] = "get_wait" /\ pc'[x] = "get")
      BY <2>2 DEF Thread
    <3> HIDE DEF p
    <3>4. pc[x] \in PC
      BY DEF TypeOK, ThreadTypeOK, PC, Thread
    <3> QED
      BY <3>1, <3>2, <3>3, <3>4 DEF SameStage, PC
  <2>4. UNCHANGED <<taskState, taskQueue>>
    BY <1>14 DEF DrainReply
  <2> QED
    BY <2>3, <2>4, QuietStep
<1>15. ASSUME NEW w \in Worker, DrainDestroy(w) PROVE SchedInv'
  <2>1. UNCHANGED <<taskState, taskQueue>>
    BY <1>15 DEF DrainDestroy
  <2>2. ASSUME NEW x \in Worker PROVE SameStage(x)
    BY <1>15 DEF DrainDestroy, SameStage
  <2> QED
    BY <2>1, <2>2, QuietStep
<1>16. ASSUME NEW w \in Worker, DrainEnd(w) PROVE SchedInv'
  <2>1. UNCHANGED <<taskState, taskQueue>>
    BY <1>16 DEF DrainEnd
  <2>2. ASSUME NEW x \in Worker PROVE SameStage(x)
    BY <1>16 DEF DrainEnd, SameStage
  <2> QED
    BY <2>1, <2>2, QuietStep
<1>17. ASSUME NEW w \in Worker, DestroyMailbox(w) PROVE SchedInv'
  <2>1. UNCHANGED <<taskState, taskQueue>>
    BY <1>17 DEF DestroyMailbox
  <2>2. ASSUME NEW x \in Worker PROVE SameStage(x)
    BY <1>17 DEF DestroyMailbox, SameStage
  <2> QED
    BY <2>1, <2>2, QuietStep
<1>18. ASSUME NEW w \in Worker, CloseRefs(w) PROVE SchedInv'
  <2>1. UNCHANGED <<taskState, taskQueue>>
    BY <1>18 DEF CloseRefs
  <2>2. ASSUME NEW x \in Worker PROVE SameStage(x)
    BY <1>18 DEF CloseRefs, SameStage
  <2> QED
    BY <2>1, <2>2, QuietStep
<1>19. ASSUME NEW w \in Worker, FreeTask(w) PROVE SchedInv'
  <2> DEFINE t == cur[w]
  <2>1. t \in Task /\ pc[w] = "close" /\ Running(w, t)
    BY <1>19, BusyHasTask DEF FreeTask, Running
  <2>2. /\ taskState'[t] = "freed"
        /\ \A u \in Task \ {t} : taskState'[u] = taskState[u]
    BY <1>19, <2>1 DEF FreeTask, TypeOK, TaskTypeOK
  <2>3. /\ pc'[w] = "pop" /\ cur'[w] = None /\ UNCHANGED taskQueue
        /\ \A x \in Worker \ {w} : pc'[x] = pc[x] /\ cur'[x] = cur[x]
    BY <1>19 DEF FreeTask
  <2> HIDE DEF t
  <2>4. ASSUME NEW x \in Worker, NEW u \in Task
        PROVE  Running(x, u)' <=> Running(x, u) /\ x # w
    BY <2>3 DEF Running
  <2>5. ASSUME NEW x \in Worker \ {w}, ~(pc[x] \in IdlePC \union LeavingPC)
        PROVE  cur[x] \in Task \ {t}
    <3>1. cur[x] \in Task
      BY <2>5, BusyHasTask
    <3>2. Running(x, cur[x])
      BY <2>5 DEF Running
    <3> QED
      BY <2>1, <3>1, <3>2 DEF SchedInv, OneRunner
  <2>6. ~Queued(t)
    BY <2>1 DEF SchedInv, OneRunner
  <2>7. TaskStateMatches'
    BY <2>1, <2>2, <2>3, <2>5, <2>6 DEF SchedInv, TaskStateMatches, Queued, t
  <2>8. OneRunner'
    BY <2>3, <2>4 DEF SchedInv, OneRunner, Queued
  <2>9. NoOrphanTask'
    <3>1. \A u \in Task : Running(w, u) => u = t
      BY DEF Running, t
    <3> QED
      BY <2>1, <2>2, <2>3, <2>4, <3>1 DEF SchedInv, NoOrphanTask, Queued
  <2> QED
    BY <2>7, <2>8, <2>9 DEF SchedInv
<1>20. ASSUME NEW w \in Worker, LuaReturns(w) PROVE SchedInv'
  <2>1. UNCHANGED <<taskState, taskQueue>>
    BY <1>20 DEF LuaReturns
  <2>2. ASSUME NEW x \in Worker PROVE SameStage(x)
    BY <1>20 DEF LuaReturns, SameStage
  <2> QED
    BY <2>1, <2>2, QuietStep
<1>21. ASSUME NEW w \in Worker, PopFails(w) PROVE SchedInv'
  <2>1. UNCHANGED <<taskState, taskQueue>>
    BY <1>21 DEF PopFails
  <2>2. ASSUME NEW x \in Worker PROVE SameStage(x)
    BY <1>21 DEF PopFails, SameStage
  <2> QED
    BY <2>1, <2>2, QuietStep
<1>22. ASSUME NEW th \in Thread, SendAppend(th) PROVE SchedInv'
  <2>1. UNCHANGED <<taskState, taskQueue>>
    BY <1>22 DEF SendAppend
  <2>2. ASSUME NEW x \in Worker PROVE SameStage(x)
    BY <1>22 DEF SendAppend, SameStage
  <2> QED
    BY <2>1, <2>2, QuietStep
<1>23. ASSUME NEW th \in Thread, SendNotify(th) PROVE SchedInv'
  <2> DEFINE p == [pc EXCEPT ![th] = "lua"]
  <2>1. p \in [Thread -> PC] /\ arg[th] \in Msg /\ rcpt[arg[th]] \in Task
    BY <1>23 DEF SendNotify, PC, TypeOK, MailboxTypeOK
  <2>2. notify_pointer(rcpt[arg[th]], p)
    BY <1>23 DEF SendNotify
  <2>3. ASSUME NEW x \in Worker PROVE SameStage(x)
    <3>1. pc'[x] = p[x] \/ (pc[x] = "wait" /\ pc'[x] = "pop")
      <4> HIDE DEF p
      <4> QED
        BY <2>1, <2>2, NotifyMovesThread DEF Thread
    <3> QED
      <4>1. pc[th] = "notify" /\ UNCHANGED cur
        BY <1>23 DEF SendNotify, At
      <4>2. p[th] = "lua" /\ (x # th => p[x] = pc[x])
        BY DEF TypeOK, ThreadTypeOK, Thread
      <4> HIDE DEF p
      <4>3. pc[x] \in PC
        BY DEF TypeOK, ThreadTypeOK, PC, Thread
      <4> QED
        BY <3>1, <4>1, <4>2, <4>3 DEF SameStage, PC
  <2> HIDE DEF p
  <2> QED
    BY <2>1, <2>2, <2>3, NotifyStep
<1>24. ASSUME NEW th \in Thread, GetWait(th) PROVE SchedInv'
  <2>1. UNCHANGED <<taskState, taskQueue>>
    BY <1>24 DEF GetWait
  <2>2. ASSUME NEW x \in Worker PROVE SameStage(x)
    BY <1>24 DEF GetWait, SameStage
  <2> QED
    BY <2>1, <2>2, QuietStep
<1>25. ASSUME NEW th \in Thread, GetReturns(th) PROVE SchedInv'
  <2>1. UNCHANGED <<taskState, taskQueue>>
    BY <1>25 DEF GetReturns
  <2>2. ASSUME NEW x \in Worker PROVE SameStage(x)
    BY <1>25 DEF GetReturns, SameStage
  <2> QED
    BY <2>1, <2>2, QuietStep
<1>26. ASSUME NEW th \in Thread, NEW t \in Task, Spawn(th, t) PROVE SchedInv'
  <2>1. \A x \in Thread : pc'[x] = pc[x] \/ (pc[x] = "wait" /\ pc'[x] = "pop")
    <3>1. pc \in [Thread -> PC] /\ pc' \in signal_new_job(pc)
      BY <1>26 DEF Spawn, PC
    <3> QED
      BY <3>1, NewJobMoves
  <2>2. ASSUME NEW x \in Worker PROVE SameStage(x)
    BY <1>26, <2>1 DEF Spawn, SameStage
  <2> QED
    BY <1>26, <2>2, PushStep DEF Spawn, push_task
<1>27. ASSUME NEW th \in Thread, NEW t \in Task, SpawnFails(th, t) PROVE SchedInv'
  <2>1. ~Queued(t) /\ \A w \in Worker : ~Running(w, t)
    BY <1>27 DEF SpawnFails, SchedInv, TaskStateMatches, Running
  <2>2. ASSUME NEW u \in Task, u # t PROVE taskState'[u] = taskState[u]
    BY <1>27, <2>2 DEF SpawnFails, TypeOK, TaskTypeOK
  <2>3. taskState'[t] = "leaked"
    BY <1>27 DEF SpawnFails, TypeOK, TaskTypeOK
  <2>4. UNCHANGED <<taskQueue, pc, cur>>
    BY <1>27 DEF SpawnFails
  <2>5. ASSUME NEW w \in Worker, ~(pc[w] \in IdlePC \union LeavingPC)
        PROVE  cur[w] \in Task /\ cur[w] # t
    BY <2>1, <2>5, BusyHasTask DEF Running
  <2>6. TaskStateMatches'
    BY <2>1, <2>2, <2>4, <2>5 DEF SchedInv, TaskStateMatches, Queued
  <2>7. OneRunner'
    BY <2>4 DEF SchedInv, OneRunner, Running, Queued
  <2>8. NoOrphanTask'
    BY <2>2, <2>3, <2>4 DEF SchedInv, NoOrphanTask, Running, Queued
  <2> QED
    BY <2>6, <2>7, <2>8 DEF SchedInv
<1>28. ASSUME NEW th \in Thread, NEW t \in Task, CollectMailboxRef(th, t)
      PROVE  SchedInv'
  <2>1. UNCHANGED <<taskState, taskQueue>>
    BY <1>28 DEF CollectMailboxRef
  <2>2. ASSUME NEW x \in Worker PROVE SameStage(x)
    BY <1>28 DEF CollectMailboxRef, SameStage
  <2> QED
    BY <2>1, <2>2, QuietStep
<1>29. ASSUME NEW th \in Thread, NEW new \in SUBSET Worker, ExtendPool(th, new)
      PROVE  SchedInv'
  <2>1. UNCHANGED <<taskState, taskQueue>>
    BY <1>29 DEF ExtendPool
  <2>2. ASSUME NEW x \in Worker PROVE SameStage(x)
    BY <1>29 DEF ExtendPool, SameStage
  <2> QED
    BY <2>1, <2>2, QuietStep
<1>30. ASSUME NEW th \in Thread, NEW b \in Task, NEW m \in Msg, SendStart(th, b, m)
      PROVE  SchedInv'
  <2>1. UNCHANGED <<taskState, taskQueue>>
    BY <1>30 DEF SendStart
  <2>2. ASSUME NEW x \in Worker PROVE SameStage(x)
    BY <1>30 DEF SendStart, SameStage
  <2> QED
    BY <2>1, <2>2, QuietStep
<1>31. ASSUME NEW th \in Thread, NEW m \in Msg, GetStart(th, m) PROVE SchedInv'
  <2>1. UNCHANGED <<taskState, taskQueue>>
    BY <1>31 DEF GetStart
  <2>2. ASSUME NEW x \in Worker PROVE SameStage(x)
    BY <1>31 DEF GetStart, SameStage
  <2> QED
    BY <2>1, <2>2, QuietStep
<1>32. ASSUME NEW th \in Thread, NEW m \in Msg, CollectMessageRef(th, m)
      PROVE  SchedInv'
  <2>1. UNCHANGED <<taskState, taskQueue>>
    BY <1>32 DEF CollectMessageRef
  <2>2. ASSUME NEW x \in Worker PROVE SameStage(x)
    BY <1>32 DEF CollectMessageRef, SameStage
  <2> QED
    BY <2>1, <2>2, QuietStep
<1>33. ASSUME NEW th \in Thread, SpuriousWakeup(th) PROVE SchedInv'
  <2>1. UNCHANGED <<taskState, taskQueue>>
    BY <1>33 DEF SpuriousWakeup
  <2>2. ASSUME NEW x \in Worker PROVE SameStage(x)
    BY <1>33 DEF SpuriousWakeup, SameStage
  <2> QED
    BY <2>1, <2>2, QuietStep
<1>34. CASE UNCHANGED vars
  <2>1. \A x \in Worker : SameStage(x)
    BY <1>34 DEF vars, SameStage
  <2> QED
    BY <1>34, <2>1, QuietStep DEF vars
<1> QED
  BY <1>1, <1>2, <1>3, <1>4, <1>5, <1>6, <1>7, <1>8, <1>9, <1>10, <1>11, <1>12,
     <1>13, <1>14, <1>15, <1>16, <1>17, <1>18, <1>19, <1>20, <1>21, <1>22, <1>23,
     <1>24, <1>25, <1>26, <1>27, <1>28, <1>29, <1>30, <1>31, <1>32, <1>33, <1>34
     DEF Next, WorkerStep, CallStep, LuaStep

(* The invariant of the scheduler holds throughout every execution.         *)
LEMMA SchedInvariant == Spec => [](TypeOK /\ SchedInv)
<1>1. Init => TypeOK /\ SchedInv
  BY TypeInit, SchedInit
<1>2. TypeOK /\ SchedInv /\ [Next]_vars => TypeOK' /\ SchedInv'
  BY TypeStep, SchedStep
<1> QED
  BY <1>1, <1>2, PTL DEF Spec

(* No two workers ever run the same Lua state, no task is queued twice and  *)
(* none is queued while it runs, for any number of workers, tasks and       *)
(* senders and whatever a notification finds behind a dangling pointer.     *)
THEOREM ExclusiveExecution == Spec => []OneRunner
<1>1. TypeOK /\ SchedInv => OneRunner
  BY DEF SchedInv
<1> QED
  BY <1>1, SchedInvariant, PTL

(* task.state always tells what becomes of the task.                        *)
THEOREM StatesMatch == Spec => []TaskStateMatches
<1>1. TypeOK /\ SchedInv => TaskStateMatches
  BY DEF SchedInv
<1> QED
  BY <1>1, SchedInvariant, PTL

(* No task that is new, TASK_WAITING, TASK_PROCESSING or TASK_DEAD is ever  *)
(* without a place on the queue or a worker.                                *)
THEOREM NoTaskLost == Spec => []NoOrphanTask
<1>1. TypeOK /\ SchedInv => NoOrphanTask
  BY DEF SchedInv
<1> QED
  BY <1>1, SchedInvariant, PTL

(* A dead task is never scheduled again: the only writes to task.state that *)
(* do not come from the worker that runs the task are those of              *)
(* process_notify_task, and they need TASK_IDLE.                            *)
LEMMA DeadStep ==
  ASSUME TypeOK, SchedInv, [Next]_vars, NEW t \in Task, taskState[t] \in {"dead", "freed"}
  PROVE  taskState'[t] \in {"dead", "freed"}
<1> USE ProcessAssumption DEF Thread, taskVars, At, Goto
<1>1. ASSUME NEW w \in Worker, StartTask(w) \/ SetIdle(w)
      PROVE  taskState'[t] = taskState[t]
  <2>1. cur[w] \in Task
    BY <1>1, BusyHasTask DEF StartTask, SetIdle, IdlePC
  <2>2. taskState[cur[w]] \notin {"dead", "freed"}
    BY <1>1 DEF StartTask, SetIdle, SchedInv, TaskStateMatches, ServingPC, DyingPC, BusyPC
  <2> QED
    BY <1>1, <2>1, <2>2 DEF StartTask, SetIdle, TypeOK, TaskTypeOK
<1>2. ASSUME NEW w \in Worker, SetDead(w) \/ FreeTask(w)
      PROVE  taskState'[t] \in {"dead", "freed"}
  BY <1>2 DEF SetDead, FreeTask, TypeOK, TaskTypeOK
<1>3. ASSUME NEW u \in Task, NEW p \in [Thread -> PC], notify_pointer(u, p)
      PROVE  taskState'[t] = taskState[t]
  BY <1>3, NotifyEffect DEF TypeOK, TaskTypeOK
<1>4. ASSUME NEW w \in Worker, Renotify(w) PROVE taskState'[t] = taskState[t]
  <2>1. [pc EXCEPT ![w] = "pop"] \in [Thread -> PC] /\ cur[w] \in Task
    BY <1>4, BusyHasTask DEF Renotify, TypeOK, ThreadTypeOK, PC, IdlePC
  <2> QED
    BY <1>3, <1>4, <2>1 DEF Renotify
<1>5. ASSUME NEW th \in Thread, SendNotify(th) PROVE taskState'[t] = taskState[t]
  <2>1. [pc EXCEPT ![th] = "lua"] \in [Thread -> PC]
    BY DEF TypeOK, ThreadTypeOK, PC, BusyPC
  <2>2. rcpt[arg[th]] \in Task
    BY <1>5 DEF SendNotify, TypeOK, ThreadTypeOK, MailboxTypeOK, CallPC
  <2> QED
    BY <1>3, <1>5, <2>1, <2>2 DEF SendNotify
<1>6. ASSUME NEW th \in Thread, NEW u \in Task, Spawn(th, u) \/ SpawnFails(th, u)
      PROVE  taskState'[t] = taskState[t]
  BY <1>6 DEF Spawn, SpawnFails, TypeOK, TaskTypeOK
<1>7. CASE UNCHANGED taskState
  BY <1>7
<1>8. ASSUME NEW w \in Worker, WorkerStep(w) \/ LuaReturns(w) \/ PopFails(w)
      PROVE  taskState'[t] \in {"dead", "freed"}
  BY <1>1, <1>2, <1>4, <1>7, <1>8
     DEF WorkerStep, LuaReturns, PopFails, pop_task, WaitForJob, Receive, SetContent, Reply,
         DestroyMessage, Peek, SetLastMessage, DrainNext, DrainReply, DrainDestroy, DrainEnd,
         DestroyMailbox, CloseRefs
<1>9. ASSUME NEW th \in Thread, CallStep(th) \/ LuaStep(th) \/ SpuriousWakeup(th)
      PROVE  taskState'[t] \in {"dead", "freed"}
  BY <1>5, <1>6, <1>7, <1>9
     DEF CallStep, LuaStep, SpuriousWakeup, SendAppend, GetWait, GetReturns, ExtendPool,
         SendStart, GetStart, CollectMailboxRef, CollectMessageRef
<1> QED
  BY <1>7, <1>8, <1>9 DEF Next, vars

(* Death is final: once TASK_DEAD, always TASK_DEAD or freed.               *)
THEOREM DeathIsFinal == Spec => DeadStaysDead
<1>1. TypeOK /\ SchedInv /\ [Next]_vars =>
        (\A t \in Task : taskState[t] \in {"dead", "freed"} =>
           taskState'[t] \in {"dead", "freed"})
  BY DeadStep
<1> QED
  BY <1>1, SchedInvariant, PTL DEF Spec, DeadStaysDead

-----------------------------------------------------------------------------
(* Each step is the work of one thread; another one may be woken by it.     *)

(* Thread x does not act in this step. *)
Bystander(x) ==
  /\ arg'[x] = arg[x] /\ StateOf(x)' = StateOf(x)
  /\ x \in Worker => cur'[x] = cur[x] /\ msg'[x] = msg[x] /\ serving'[x] = serving[x]
  /\ \/ pc'[x] = pc[x]
     \/ pc[x] \in {"none", "wait"} /\ pc'[x] = "pop"
     \/ pc[x] = "get_wait" /\ pc'[x] = "get"

(* The signal to who waits for message m, from worker w, which goes on to l. *)
LEMMA AnswererMoves ==
  ASSUME TypeOK, NEW w \in Worker, NEW m, NEW l \in PC, pc[w] # "get_wait",
         pc' \in signal_ready([pc EXCEPT ![w] = l], m)
  PROVE  /\ pc'[w] = l
         /\ \A x \in Thread \ {w} : pc'[x] = pc[x] \/ (pc[x] = "get_wait" /\ pc'[x] = "get")
<1> DEFINE p == [pc EXCEPT ![w] = l]
<1>1. w \in Thread
  BY DEF Thread
<1>2. p \in [Thread -> PC] /\ p[w] = l /\ \A x \in Thread \ {w} : p[x] = pc[x]
  BY <1>1 DEF TypeOK, ThreadTypeOK, PC
<1>3. pc' \in signal_ready(p, m)
  OBVIOUS
<1> HIDE DEF p
<1> QED
  BY <1>1, <1>2, <1>3, ReadyMovesThread

(* mailbox_message_reply of a served message.                               *)
LEMMA ReplyMoves ==
  ASSUME TypeOK, NEW w \in Worker, Reply(w)
  PROVE  /\ pc[w] = "reply" /\ pc'[w] = "unref"
         /\ \A x \in Thread \ {w} : Bystander(x)
<1>1. pc[w] = "reply" /\ UNCHANGED <<cur, msg, serving, arg>>
  BY DEF Reply, At, localVars
<1>2. pc' \in signal_ready([pc EXCEPT ![w] = "unref"], msg[w])
  BY DEF Reply
<1>3. "unref" \in PC
  BY DEF PC, BusyPC, ReplyPC
<1> QED
  BY <1>1, <1>2, <1>3, AnswererMoves DEF Bystander, StateOf

(* mailbox_message_reply of a message left in a dying task's mailbox.       *)
LEMMA DrainReplyMoves ==
  ASSUME TypeOK, NEW w \in Worker, DrainReply(w)
  PROVE  /\ pc[w] = "drain_reply" /\ pc'[w] = "drain_unref"
         /\ \A x \in Thread \ {w} : Bystander(x)
<1>1. pc[w] = "drain_reply" /\ UNCHANGED <<cur, msg, serving, arg>>
  BY DEF DrainReply, At, localVars
<1>2. pc' \in signal_ready([pc EXCEPT ![w] = "drain_unref"], msg[w])
  BY DEF DrainReply
<1>3. "drain_unref" \in PC
  BY DEF PC, BusyPC, ReplyPC
<1> QED
  BY <1>1, <1>2, <1>3, AnswererMoves DEF Bystander, StateOf

(* A notification from thread th, which goes on to l.                       *)
LEMMA NotifierMoves ==
  ASSUME TypeOK, NEW th \in Thread, NEW t \in Task, NEW l \in PC, pc[th] \notin {"wait"},
         notify_pointer(t, [pc EXCEPT ![th] = l])
  PROVE  /\ pc'[th] = l
         /\ \A x \in Thread \ {th} : pc'[x] = pc[x] \/ (pc[x] = "wait" /\ pc'[x] = "pop")
<1> DEFINE p == [pc EXCEPT ![th] = l]
<1>1. p \in [Thread -> PC] /\ p[th] = l /\ \A x \in Thread \ {th} : p[x] = pc[x]
  BY DEF TypeOK, ThreadTypeOK, PC
<1>2. notify_pointer(t, p)
  OBVIOUS
<1> HIDE DEF p
<1> QED
  BY <1>1, <1>2, NotifyMovesThread

(* The notification at the end of mailbox_send. *)
LEMMA SendNotifyMoves ==
  ASSUME TypeOK, NEW th \in Thread, SendNotify(th)
  PROVE  /\ pc[th] = "notify" /\ pc'[th] = "lua" /\ arg[th] \in Msg /\ rcpt[arg[th]] \in Task
         /\ \A x \in Thread \ {th} : Bystander(x)
<1>1. pc[th] = "notify" /\ arg' = [arg EXCEPT ![th] = None] /\ UNCHANGED <<cur, msg, serving>>
  BY DEF SendNotify, At
<1>2. arg[th] \in Msg /\ rcpt[arg[th]] \in Task
  BY <1>1 DEF TypeOK, ThreadTypeOK, MailboxTypeOK, CallPC
<1>3. notify_pointer(rcpt[arg[th]], [pc EXCEPT ![th] = "lua"]) /\ "lua" \in PC
  BY DEF SendNotify, PC, BusyPC
<1>4. /\ pc'[th] = "lua"
      /\ \A x \in Thread \ {th} : pc'[x] = pc[x] \/ (pc[x] = "wait" /\ pc'[x] = "pop")
  BY <1>1, <1>2, <1>3, NotifierMoves
<1>5. \A x \in Thread \ {th} : arg'[x] = arg[x]
  BY <1>1 DEF TypeOK, ThreadTypeOK
<1> QED
  BY <1>1, <1>2, <1>4, <1>5 DEF Bystander, StateOf

(* The notification at the end of worker. *)
LEMMA RenotifyMoves ==
  ASSUME TypeOK, NEW w \in Worker, Renotify(w)
  PROVE  /\ pc[w] = "renotify" /\ pc'[w] = "pop"
         /\ \A x \in Thread \ {w} : Bystander(x)
<1>1. pc[w] = "renotify" /\ cur' = [cur EXCEPT ![w] = None] /\ UNCHANGED <<arg, msg, serving>>
  BY DEF Renotify, At
<1>2. w \in Thread /\ cur[w] \in Task
  BY <1>1, BusyHasTask DEF Thread, IdlePC
<1>3. notify_pointer(cur[w], [pc EXCEPT ![w] = "pop"]) /\ "pop" \in PC
  BY DEF Renotify, PC, IdlePC
<1>4. /\ pc'[w] = "pop"
      /\ \A x \in Thread \ {w} : pc'[x] = pc[x] \/ (pc[x] = "wait" /\ pc'[x] = "pop")
  BY <1>1, <1>2, <1>3, NotifierMoves
<1>5. \A x \in Worker \ {w} : cur'[x] = cur[x]
  BY <1>1 DEF TypeOK, ThreadTypeOK
<1>6. \A x \in Thread \ {w} : StateOf(x)' = StateOf(x)
  BY <1>5 DEF StateOf, Thread
<1> QED
  BY <1>1, <1>4, <1>5, <1>6 DEF Bystander

(* process_spawn: the spawner goes on in its Lua code.                      *)
LEMMA SpawnMoves ==
  ASSUME TypeOK, NEW th \in Thread, NEW t \in Task, Spawn(th, t)
  PROVE  pc[th] = "lua" /\ \A x \in Thread : Bystander(x) /\ (pc[x] = "lua" => pc'[x] = "lua")
<1>1. pc \in [Thread -> PC] /\ pc' \in signal_new_job(pc)
  BY DEF Spawn, TypeOK, ThreadTypeOK, PC
<1>2. \A x \in Thread : pc'[x] = pc[x] \/ (pc[x] = "wait" /\ pc'[x] = "pop")
  BY <1>1, NewJobMoves
<1>3. pc[th] = "lua" /\ UNCHANGED <<cur, msg, serving, arg>>
  BY DEF Spawn, At, localVars
<1> QED
  BY <1>2, <1>3 DEF Bystander, StateOf

(* A step of a worker leaves the other threads where they are, but may wake *)
(* one of them.                                                             *)
LEMMA WorkerAlone ==
  ASSUME TypeOK, NEW w \in Worker, WorkerStep(w) \/ LuaReturns(w) \/ PopFails(w)
  PROVE  \A x \in Thread \ {w} : Bystander(x)
<1> USE ProcessAssumption DEF Thread, localVars, taskVars, At, Goto, TypeOK, ThreadTypeOK,
        Bystander, StateOf
<1>1. CASE pop_task(w) \/ WaitForJob(w) \/ StartTask(w)
  BY <1>1 DEF pop_task, WaitForJob, StartTask
<1>2. CASE Receive(w)
  BY <1>2 DEF Receive
<1>3. CASE SetContent(w)
  BY <1>3 DEF SetContent
<1>4. CASE DestroyMessage(w) \/ SetIdle(w) \/ SetLastMessage(w) \/ SetDead(w)
  BY <1>4 DEF DestroyMessage, SetIdle, SetLastMessage, SetDead
<1>5. CASE Peek(w)
  BY <1>5 DEF Peek
<1>6. CASE DrainNext(w) \/ DrainDestroy(w) \/ DrainEnd(w)
  BY <1>6 DEF DrainNext, DrainDestroy, DrainEnd
<1>7. CASE DestroyMailbox(w) \/ CloseRefs(w) \/ FreeTask(w)
  BY <1>7 DEF DestroyMailbox, CloseRefs, FreeTask
<1>8. CASE LuaReturns(w) \/ PopFails(w)
  BY <1>8 DEF LuaReturns, PopFails
<1>9. CASE Reply(w) \/ DrainReply(w)
  BY <1>9, ReplyMoves, DrainReplyMoves
<1>10. CASE Renotify(w)
  BY <1>10, RenotifyMoves
<1> QED
  BY <1>1, <1>2, <1>3, <1>4, <1>5, <1>6, <1>7, <1>8, <1>9, <1>10 DEF WorkerStep

(* The same for a step that Lua code or a library call makes.               *)
LEMMA CallerAlone ==
  ASSUME TypeOK, NEW th \in Thread, CallStep(th) \/ LuaStep(th) \/ SpuriousWakeup(th)
  PROVE  \A x \in Thread \ {th} : Bystander(x)
<1> USE ProcessAssumption DEF Thread, localVars, taskVars, At, Goto, TypeOK, ThreadTypeOK,
        Bystander, StateOf
<1>1. CASE SendAppend(th) \/ GetWait(th) \/ GetReturns(th) \/ SpuriousWakeup(th)
  BY <1>1 DEF SendAppend, GetWait, GetReturns, SpuriousWakeup
<1>2. CASE SendNotify(th)
  BY <1>2, SendNotifyMoves
<1>3. ASSUME NEW t \in Task, Spawn(th, t) PROVE \A x \in Thread \ {th} : Bystander(x)
  BY <1>3, SpawnMoves
<1>4. ASSUME NEW t \in Task, SpawnFails(th, t) \/ CollectMailboxRef(th, t)
      PROVE  \A x \in Thread \ {th} : Bystander(x)
  BY <1>4 DEF SpawnFails, CollectMailboxRef
<1>5. ASSUME NEW new \in SUBSET Worker, ExtendPool(th, new)
      PROVE  \A x \in Thread \ {th} : Bystander(x)
  BY <1>5 DEF ExtendPool
<1>6. ASSUME NEW b \in Task, NEW m \in Msg, SendStart(th, b, m)
      PROVE  \A x \in Thread \ {th} : Bystander(x)
  BY <1>6 DEF SendStart
<1>7. ASSUME NEW m \in Msg, GetStart(th, m) \/ CollectMessageRef(th, m)
      PROVE  \A x \in Thread \ {th} : Bystander(x)
  BY <1>7 DEF GetStart, CollectMessageRef
<1> QED
  BY <1>1, <1>2, <1>3, <1>4, <1>5, <1>6, <1>7 DEF CallStep, LuaStep

-----------------------------------------------------------------------------
(* The signal on new_job. *)

(* The workers blocked on new_job, and those on their way to the queue.     *)
Sleepers == {w \in Worker : pc[w] = "wait"}
Poppers  == {w \in Worker : pc[w] = "pop"}

(* The pool is finite, and so is every part of it.                          *)
LEMMA PoolCount ==
  ASSUME NEW S \in SUBSET Worker
  PROVE  /\ IsFiniteSet(S) /\ Cardinality(S) \in Nat
         /\ \A T \in SUBSET S : Cardinality(T) <= Cardinality(S)
<1>1. IsFiniteSet(S)
  BY PoolAssumption, FS_Subset
<1> QED
  BY <1>1, FS_Subset, FS_CardinalityType

(* The length of pool.task_queue, an empty one above all.                   *)
LEMMA QueueLength ==
  ASSUME TypeOK
  PROVE  Len(taskQueue) \in Nat /\ (taskQueue = <<>> => Len(taskQueue) = 0)
BY DEF TypeOK, TaskTypeOK

(* Steps that queue nothing and send no worker to sleep or away from the    *)
(* queue.                                                                   *)
LEMMA WakeQuiet ==
  ASSUME TypeOK, TypeOK', NoLostWakeup, Len(taskQueue') <= Len(taskQueue),
         \A x \in Worker : (pc[x] = "pop" => pc'[x] = "pop") /\ (pc'[x] = "wait" => pc[x] = "wait")
  PROVE  NoLostWakeup'
<1> SUFFICES ASSUME NEW y \in Worker, pc'[y] = "wait"
             PROVE  Len(taskQueue') <= Cardinality(Poppers')
  BY DEF NoLostWakeup, Poppers
<1>1. Len(taskQueue) <= Cardinality(Poppers)
  BY DEF NoLostWakeup, Poppers
<1>2. Poppers \in SUBSET Poppers' /\ Poppers' \in SUBSET Worker
  BY DEF Poppers
<1>3. Cardinality(Poppers) <= Cardinality(Poppers')
  BY <1>2, PoolCount
<1>4. Cardinality(Poppers) \in Nat /\ Cardinality(Poppers') \in Nat
  BY <1>2, PoolCount
<1>5. Len(taskQueue) \in Nat /\ Len(taskQueue') \in Nat
  BY DEF TypeOK, TaskTypeOK
<1> QED
  BY <1>1, <1>3, <1>4, <1>5

(* Who queues a task, on the way to p, wakes one more worker if any sleeps. *)
LEMMA WakePush ==
  ASSUME TypeOK, NoLostWakeup, NEW u \in Task, taskQueue' = Append(taskQueue, u),
         NEW p \in [Thread -> PC], pc' \in signal_new_job(p),
         \A x \in Worker : (pc[x] = "pop" => p[x] = "pop") /\ (p[x] = "wait" => pc[x] = "wait")
  PROVE  NoLostWakeup'
<1>1. pc' \in Signalled(p, Sleepers, "pop")
  BY DEF signal_new_job, Sleepers
<1>2. CASE Sleepers = {}
  <2>1. pc' = p
    BY <1>1, <1>2 DEF Signalled
  <2>2. \A y \in Worker : pc'[y] # "wait"
    BY <1>2, <2>1 DEF Sleepers
  <2> QED
    BY <2>2 DEF NoLostWakeup
<1>3. CASE Sleepers # {}
  <2>1. PICK x \in Sleepers : pc' = [p EXCEPT ![x] = "pop"]
    BY <1>1, <1>3 DEF Signalled
  <2>2. Len(taskQueue) <= Cardinality(Poppers)
    BY <1>3 DEF NoLostWakeup, Sleepers, Poppers
  <2>3. x \in Worker /\ x \notin Poppers /\ Poppers \in SUBSET Worker
    BY DEF Sleepers, Poppers
  <2>4. Poppers \union {x} \in SUBSET Poppers' /\ Poppers' \in SUBSET Worker
    BY <2>1, <2>3 DEF Poppers, Thread
  <2>5. Cardinality(Poppers \union {x}) = Cardinality(Poppers) + 1
    BY <2>3, PoolCount, FS_AddElement
  <2>6. Cardinality(Poppers \union {x}) <= Cardinality(Poppers')
    BY <2>4, PoolCount
  <2>7. Cardinality(Poppers) \in Nat /\ Cardinality(Poppers') \in Nat
    BY <2>3, <2>4, PoolCount
  <2>8. Len(taskQueue) \in Nat /\ Len(taskQueue') = Len(taskQueue) + 1
    BY DEF TypeOK, TaskTypeOK
  <2>9. Len(taskQueue') <= Cardinality(Poppers')
    BY <2>2, <2>5, <2>6, <2>7, <2>8
  <2> QED
    BY <2>9 DEF NoLostWakeup, Poppers
<1> QED
  BY <1>2, <1>3

(* The same for a notification.                                             *)
LEMMA WakeNotify ==
  ASSUME TypeOK, TypeOK', NoLostWakeup, NEW t \in Task, NEW p \in [Thread -> PC],
         notify_pointer(t, p),
         \A x \in Worker : (pc[x] = "pop" => p[x] = "pop") /\ (p[x] = "wait" => pc[x] = "wait")
  PROVE  NoLostWakeup'
<1>1. ASSUME NEW u \in Task, process_notify_task(u, p) PROVE NoLostWakeup'
  <2>1. CASE taskQueue' = Append(taskQueue, u) /\ pc' \in signal_new_job(p)
    BY <2>1, WakePush
  <2>2. CASE pc' = p /\ UNCHANGED taskQueue
    <3>1. Len(taskQueue') <= Len(taskQueue)
      BY <2>2, QueueLength
    <3> QED
      BY <2>2, <3>1, WakeQuiet
  <2> QED
    BY <1>1, <2>1, <2>2 DEF process_notify_task, push_task
<1>2. CASE pc' = p /\ UNCHANGED taskQueue
  <2>1. Len(taskQueue') <= Len(taskQueue)
    BY <1>2, QueueLength
  <2> QED
    BY <1>2, <2>1, WakeQuiet
<1> QED
  BY <1>1, <1>2 DEF notify_pointer

(* A worker that takes a task leaves one less for the others.               *)
LEMMA WakePop ==
  ASSUME TypeOK, NoLostWakeup, NEW w \in Worker, pop_task(w)
  PROVE  NoLostWakeup'
<1>1. /\ pc[w] = "pop" /\ pc'[w] = "start" /\ \A x \in Thread \ {w} : pc'[x] = pc[x]
      /\ taskQueue # <<>> /\ taskQueue' = Tail(taskQueue)
  BY DEF pop_task, At, Goto, TypeOK, ThreadTypeOK, Thread
<1> SUFFICES ASSUME NEW y \in Worker, pc'[y] = "wait"
             PROVE  Len(taskQueue') <= Cardinality(Poppers')
  BY DEF NoLostWakeup, Poppers
<1>2. pc[y] = "wait"
  BY <1>1 DEF Thread
<1>3. Len(taskQueue) <= Cardinality(Poppers)
  BY <1>2 DEF NoLostWakeup, Poppers
<1>4. Poppers' = Poppers \ {w} /\ w \in Poppers /\ Poppers \in SUBSET Worker
  BY <1>1 DEF Poppers, Thread
<1>5. Cardinality(Poppers') = Cardinality(Poppers) - 1 /\ Cardinality(Poppers) \in Nat
  BY <1>4, PoolCount, FS_RemoveElement
<1>6. Len(taskQueue) \in Nat /\ Len(taskQueue') = Len(taskQueue) - 1
  BY <1>1 DEF TypeOK, TaskTypeOK
<1> QED
  BY <1>3, <1>5, <1>6

(* No step of a worker leaves a queued task to sleeping workers ...         *)
LEMMA WorkerWakes ==
  ASSUME TypeOK, TypeOK', NoLostWakeup, NEW w \in Worker,
         WorkerStep(w) \/ LuaReturns(w) \/ PopFails(w)
  PROVE  NoLostWakeup'
<1>0. \A x \in Worker \ {w} : (pc[x] = "pop" => pc'[x] = "pop") /\ (pc'[x] = "wait" => pc[x] = "wait")
  BY WorkerAlone DEF Bystander, Thread
<1>q. ASSUME UNCHANGED taskQueue, pc[w] # "pop", pc'[w] # "wait" PROVE NoLostWakeup'
  <2>1. Len(taskQueue') <= Len(taskQueue)
    BY <1>q, QueueLength
  <2> QED
    BY <1>0, <1>q, <2>1, WakeQuiet
<1> USE ProcessAssumption DEF Thread, localVars, taskVars, refVars, mailboxVars, mboxVars, msgVars,
        At, Goto, TypeOK, ThreadTypeOK
<1>1. CASE pop_task(w)
  BY <1>1, WakePop
<1>2. CASE WaitForJob(w)
  <2>1. taskQueue = <<>> /\ UNCHANGED taskQueue
    BY <1>2 DEF WaitForJob
  <2>2. Len(taskQueue') = 0
    BY <2>1, QueueLength
  <2>3. Poppers' \in SUBSET Worker
    BY DEF Poppers
  <2>4. Cardinality(Poppers') \in Nat
    BY <2>3, PoolCount
  <2> QED
    BY <2>2, <2>4 DEF NoLostWakeup, Poppers
<1>3. CASE Renotify(w)
  <2>1. PICK b \in Task : b = cur[w]
    BY <1>3, BusyHasTask DEF Renotify, IdlePC
  <2>2. notify_pointer(b, [pc EXCEPT ![w] = "pop"]) /\ pc[w] = "renotify"
    BY <1>3, <2>1 DEF Renotify
  <2>3. [pc EXCEPT ![w] = "pop"] \in [Thread -> PC]
    BY DEF PC, IdlePC
  <2>4. \A x \in Worker : /\ pc[x] = "pop" => [pc EXCEPT ![w] = "pop"][x] = "pop"
                          /\ [pc EXCEPT ![w] = "pop"][x] = "wait" => pc[x] = "wait"
    OBVIOUS
  <2> QED
    BY <2>2, <2>3, <2>4, WakeNotify
<1>4. CASE StartTask(w) \/ SetIdle(w) \/ SetDead(w) \/ FreeTask(w)
  BY <1>4, <1>q DEF StartTask, SetIdle, SetDead, FreeTask
<1>5. CASE Receive(w)
  BY <1>5, <1>q DEF Receive
<1>6. CASE SetContent(w)
  <2>1. UNCHANGED taskQueue /\ pc[w] = "set_content" /\ pc'[w] \in {"set_content", "reply"}
    BY <1>6 DEF SetContent
  <2> QED
    BY <1>q, <2>1
<1>7. CASE Reply(w) \/ DrainReply(w)
  <2>1. UNCHANGED taskQueue
    BY <1>7 DEF Reply, DrainReply
  <2> QED
    BY <1>7, <1>q, <2>1, ReplyMoves, DrainReplyMoves
<1>8. CASE DestroyMessage(w) \/ DrainDestroy(w)
  BY <1>8, <1>q DEF DestroyMessage, DrainDestroy
<1>9. CASE Peek(w)
  <2>1. UNCHANGED taskQueue /\ pc[w] = "peek" /\ pc'[w] \in {"peek", "renotify", "pop"}
    BY <1>9 DEF Peek
  <2> QED
    BY <1>q, <2>1
<1>10. CASE SetLastMessage(w) \/ DrainNext(w) \/ DrainEnd(w) \/ DestroyMailbox(w)
  BY <1>10, <1>q DEF SetLastMessage, DrainNext, DrainEnd, DestroyMailbox
<1>11. CASE CloseRefs(w)
  <2>1. UNCHANGED <<taskQueue, pc>> /\ pc[w] = "close"
    BY <1>11 DEF CloseRefs
  <2> QED
    BY <1>q, <2>1
<1>12. CASE LuaReturns(w) \/ PopFails(w)
  <2>1. UNCHANGED taskQueue /\ pc[w] \in {"lua", "set_content", "decide"} /\ pc'[w] # "wait"
    BY <1>12 DEF LuaReturns, PopFails
  <2> QED
    BY <1>q, <2>1
<1> QED
  BY <1>1, <1>2, <1>3, <1>4, <1>5, <1>6, <1>7, <1>8, <1>9, <1>10, <1>11, <1>12 DEF WorkerStep

(* ... and no call of Lua code does.                                        *)
LEMMA CallerWakes ==
  ASSUME TypeOK, TypeOK', NoLostWakeup, NEW th \in Thread,
         CallStep(th) \/ LuaStep(th) \/ SpuriousWakeup(th)
  PROVE  NoLostWakeup'
<1>0. \A x \in Worker \ {th} : (pc[x] = "pop" => pc'[x] = "pop") /\ (pc'[x] = "wait" => pc[x] = "wait")
  BY CallerAlone DEF Bystander, Thread
<1>q. ASSUME UNCHANGED taskQueue, pc[th] # "pop", pc'[th] # "wait" PROVE NoLostWakeup'
  <2>1. Len(taskQueue') <= Len(taskQueue)
    BY <1>q, QueueLength
  <2> QED
    BY <1>0, <1>q, <2>1, WakeQuiet
<1> USE ProcessAssumption DEF Thread, localVars, taskVars, refVars, mailboxVars, mboxVars, msgVars,
        At, Goto, TypeOK, ThreadTypeOK
<1>1. CASE SendAppend(th) \/ GetWait(th) \/ GetReturns(th) \/ SpuriousWakeup(th)
  <2>1. /\ UNCHANGED taskQueue /\ pc[th] \in {"append", "get", "wait", "get_wait"}
        /\ pc'[th] # "wait"
    BY <1>1 DEF SendAppend, GetWait, GetReturns, SpuriousWakeup
  <2> QED
    BY <1>q, <2>1
<1>2. CASE SendNotify(th)
  <2>1. pc[th] = "notify" /\ rcpt[arg[th]] \in Task
    BY <1>2, SendNotifyMoves
  <2>2. notify_pointer(rcpt[arg[th]], [pc EXCEPT ![th] = "lua"])
    BY <1>2 DEF SendNotify
  <2>3. [pc EXCEPT ![th] = "lua"] \in [Thread -> PC]
    BY DEF PC, BusyPC
  <2>4. \A x \in Worker : /\ pc[x] = "pop" => [pc EXCEPT ![th] = "lua"][x] = "pop"
                          /\ [pc EXCEPT ![th] = "lua"][x] = "wait" => pc[x] = "wait"
    BY <2>1
  <2> QED
    BY <2>1, <2>2, <2>3, <2>4, WakeNotify
<1>3. ASSUME NEW t \in Task, Spawn(th, t) PROVE NoLostWakeup'
  <2>1. taskQueue' = Append(taskQueue, t) /\ pc' \in signal_new_job(pc)
    BY <1>3 DEF Spawn, push_task
  <2>2. pc \in [Thread -> PC]
    BY DEF PC
  <2> QED
    BY <2>1, <2>2, WakePush
<1>4. ASSUME NEW new \in SUBSET Worker, ExtendPool(th, new) PROVE NoLostWakeup'
  <2>1. UNCHANGED taskQueue /\ pc[th] = "lua" /\ pc'[th] # "wait"
    BY <1>4 DEF ExtendPool
  <2> QED
    BY <1>q, <2>1
<1>5. ASSUME NEW t \in Task, SpawnFails(th, t) \/ CollectMailboxRef(th, t) PROVE NoLostWakeup'
  <2>1. UNCHANGED <<taskQueue, pc>> /\ pc[th] = "lua"
    BY <1>5 DEF SpawnFails, CollectMailboxRef
  <2> QED
    BY <1>q, <2>1
<1>6. ASSUME NEW b \in Task, NEW m \in Msg, SendStart(th, b, m) PROVE NoLostWakeup'
  BY <1>6, <1>q DEF SendStart
<1>7. ASSUME NEW m \in Msg, GetStart(th, m) \/ CollectMessageRef(th, m) PROVE NoLostWakeup'
  <2>1. UNCHANGED taskQueue /\ pc[th] = "lua" /\ pc'[th] \in {"lua", "get"}
    BY <1>7 DEF GetStart, CollectMessageRef
  <2> QED
    BY <1>q, <2>1
<1> QED
  BY <1>1, <1>2, <1>3, <1>4, <1>5, <1>6, <1>7 DEF CallStep, LuaStep

(* No signal on new_job is lost: while a worker sleeps, every queued task   *)
(* has an awake worker on its way to the queue.                             *)
THEOREM NoWakeupLost == Spec => []NoLostWakeup
<1>1. Init => NoLostWakeup
  <2> SUFFICES ASSUME Init PROVE NoLostWakeup
    OBVIOUS
  <2>1. \A w \in Worker : pc[w] # "wait"
    BY DEF Init, ProcessInit, Thread
  <2> QED
    BY <2>1 DEF NoLostWakeup
<1>2. TypeOK /\ TypeOK' /\ NoLostWakeup /\ [Next]_vars => NoLostWakeup'
  <2> SUFFICES ASSUME TypeOK, TypeOK', NoLostWakeup, [Next]_vars PROVE NoLostWakeup'
    OBVIOUS
  <2>1. ASSUME UNCHANGED vars PROVE NoLostWakeup'
    BY <2>1 DEF vars, taskVars, NoLostWakeup
  <2> QED
    BY <2>1, WorkerWakes, CallerWakes DEF Next
<1> QED
  BY <1>1, <1>2, TypeCorrect, PTL DEF Spec
=============================================================================
