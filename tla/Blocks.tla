-------------------------------- MODULE Blocks --------------------------------
(***************************************************************************)
(* The Lua library `blocks' (src/blocks/blocks.c) on top of the task        *)
(* scheduler and the mailboxes: what running Lua code may call, composed    *)
(* with the workers into the specification of the whole runtime.            *)
(*                                                                         *)
(* Lua code runs in a Lua state: the root state on the main thread, or a    *)
(* task's state on the worker that serves the task.  A state owns the       *)
(* userdata that spawn and send returned to it; luaL_checkudata rejects     *)
(* them anywhere else (spawn and send turn userdata into light userdata),   *)
(* so only a task's spawner can send to it, and only a message's sender     *)
(* can wait for the answer.                                                *)
(***************************************************************************)
EXTENDS Process, FiniteSets

CONSTANT Getters    \* the Lua states whose program calls r:get()

ASSUME GettersAssumption == Getters \subseteq LuaState

(* The pool has finitely many threads. *)
ASSUME PoolAssumption == IsFiniteSet(Worker)

(* The Lua state that thread th is running. *)
StateOf(th) == IF th = Root THEN Root ELSE cur[th]

-----------------------------------------------------------------------------
(* blocks.spawn and blocks.extend_pool *)

(* l_spawn and process_spawn: a new Lua state with its mailbox, queued.     *)
Spawn(th, t) ==
  /\ At(th, "lua")
  /\ taskState[t] = "none"
  /\ mailbox_init(t)
  /\ taskState' = [taskState EXCEPT ![t] = "init"]
  /\ push_task(t)
  /\ pc' \in signal_new_job(pc)
  /\ mboxRef' = [mboxRef EXCEPT ![t] = StateOf(th)]
  /\ UNCHANGED <<isLoaded, localVars, msgRef, crashed>>

(* copy_stack raises an error (no function to run, or one that cannot be    *)
(* dumped): the task and its mailbox are left behind.                       *)
SpawnFails(th, t) ==
  /\ At(th, "lua")
  /\ taskState[t] = "none"
  /\ mailbox_init(t)
  /\ taskState' = [taskState EXCEPT ![t] = "leaked"]
  /\ UNCHANGED <<isLoaded, taskQueue, pc, localVars, refVars, crashed>>

(* l_pool_extend: new threads enter the worker loop. *)
ExtendPool(th, new) ==
  /\ At(th, "lua")
  /\ new # {} /\ \A w \in new : pc[w] = "none"
  /\ pc' = [x \in Thread |-> IF x \in new THEN "pop" ELSE pc[x]]
  /\ UNCHANGED <<mailboxVars, taskVars, localVars, refVars, crashed>>

-----------------------------------------------------------------------------
(* mailbox:send *)

(* The mailbox's state is read without its mutex.  A dead recipient makes   *)
(* send return false: nothing changes.                                      *)
SendStart(th, b, m) ==
  /\ At(th, "lua")
  /\ mboxRef[b] = StateOf(th)
  /\ mailbox_isactive(b)
  /\ msgState[m] = "none"
  /\ message_alloc(m, b)
  /\ arg' = [arg EXCEPT ![th] = m]
  /\ Goto(th, "append")
  /\ UNCHANGED <<taskVars, cur, msg, serving, refVars, crashed>>

SendAppend(th) ==
  /\ At(th, "append")
  /\ mailbox_append(rcpt[arg[th]], arg[th])
  /\ Goto(th, "notify")
  /\ UNCHANGED <<taskVars, localVars, refVars, crashed>>

SendNotify(th) ==
  LET m == arg[th] IN
  /\ At(th, "notify")
  /\ notify_pointer(rcpt[m], [pc EXCEPT ![th] = "lua"])
  /\ msgRef' = [msgRef EXCEPT ![m] = StateOf(th)]
  /\ arg' = [arg EXCEPT ![th] = None]
  /\ UNCHANGED <<mailboxVars, isLoaded, cur, msg, serving, mboxRef>>

-----------------------------------------------------------------------------
(* message:get, which is mailbox_wait_for_reply *)

GetStart(th, m) ==
  /\ At(th, "lua")
  /\ StateOf(th) \in Getters
  /\ msgRef[m] = StateOf(th)
  /\ arg' = [arg EXCEPT ![th] = m]
  /\ Goto(th, "get")
  /\ UNCHANGED <<mailboxVars, taskVars, cur, msg, serving, refVars, crashed>>

(* With the message's mutex held: wait while it is not answered. *)
GetWait(th) ==
  /\ At(th, "get")
  /\ msgState[arg[th]] = "waiting"
  /\ Goto(th, "get_wait")
  /\ UNCHANGED <<mailboxVars, taskVars, localVars, refVars, crashed>>

GetReturns(th) ==
  /\ At(th, "get")
  /\ msgState[arg[th]] # "waiting"
  /\ arg' = [arg EXCEPT ![th] = None]
  /\ Goto(th, "lua")
  /\ UNCHANGED <<mailboxVars, taskVars, cur, msg, serving, refVars, crashed>>

-----------------------------------------------------------------------------
(* Garbage collection while Lua code runs: the __gc metamethods. *)

CollectMailboxRef(th, b) ==
  /\ At(th, "lua")
  /\ mboxRef[b] = StateOf(th)
  /\ drop_mailbox_ref(b)
  /\ UNCHANGED <<taskVars, pc, localVars, crashed>>

CollectMessageRef(th, m) ==
  /\ At(th, "lua")
  /\ msgRef[m] = StateOf(th)
  /\ drop_message_ref(m)
  /\ UNCHANGED <<taskVars, pc, localVars, crashed>>

-----------------------------------------------------------------------------
(* The specification. *)

Init == MailboxInit /\ ProcessInit

(* What a worker does once it has a task, user code apart. *)
WorkerStep(w) ==
  \/ pop_task(w) \/ WaitForJob(w) \/ StartTask(w) \/ Receive(w)
  \/ SetContent(w) \/ Reply(w) \/ DestroyMessage(w)
  \/ SetIdle(w) \/ Peek(w) \/ Renotify(w)
  \/ SetLastMessage(w) \/ SetDead(w) \/ DrainNext(w) \/ DrainReply(w) \/ DrainDestroy(w)
  \/ DrainEnd(w) \/ DestroyMailbox(w) \/ CloseRefs(w) \/ FreeTask(w)

(* A library call that a thread has begun. *)
CallStep(th) == SendAppend(th) \/ SendNotify(th) \/ GetWait(th) \/ GetReturns(th)

(* The calls that user code may make, and what the collector may do. *)
LuaStep(th) ==
  \/ \E t \in Task : Spawn(th, t) \/ SpawnFails(th, t) \/ CollectMailboxRef(th, t)
  \/ \E new \in SUBSET Worker : ExtendPool(th, new)
  \/ \E b \in Task, m \in Msg : SendStart(th, b, m)
  \/ \E m \in Msg : GetStart(th, m) \/ CollectMessageRef(th, m)

Next ==
  \/ \E w \in Worker : WorkerStep(w) \/ LuaReturns(w) \/ PopFails(w)
  \/ \E th \in Thread : CallStep(th) \/ LuaStep(th) \/ SpuriousWakeup(th)

Spec == Init /\ [][Next]_vars

(* The threads are scheduled, and the functions that users give to tasks    *)
(* return; the root program may stop calling the library at any point.      *)
Fairness ==
  /\ \A w \in Worker : WF_vars(WorkerStep(w))
  /\ \A w \in Worker : SF_vars(LuaReturns(w))
  /\ \A th \in Thread : WF_vars(CallStep(th))

FairSpec == Spec /\ Fairness

-----------------------------------------------------------------------------
(* Types. *)

IdlePC    == {"none", "pop", "wait"}
LeavingPC == {"peek", "renotify"}
CallPC    == {"append", "notify", "get", "get_wait"}
ReplyPC   == {"reply", "unref", "drain_reply", "drain_unref"}
BusyPC    == {"start", "receive", "lua", "set_content", "decide", "set_dead", "drain",
              "mbox_destroy", "close"} \union CallPC \union ReplyPC

MailboxTypeOK ==
  /\ mboxState \in [Task -> {"none", "alive", "dead", "freed"}]
  /\ inbox \in [Task -> Seq(Msg)]
  /\ lastMessage \in [Task -> BOOLEAN]
  /\ msgState \in [Msg -> {"none", "waiting", "ready", "dead"}]
  /\ refCount \in [Msg -> Int]
  /\ content \in [Msg -> {"null", "request", "reply"}]
  /\ rcpt \in [Msg -> Task \union {None}]
  /\ freedMsgs \in SUBSET Msg

TaskTypeOK ==
  /\ taskState \in [Task -> {"none", "init", "idle", "waiting", "processing", "dead",
                             "freed", "leaked"}]
  /\ isLoaded \in [Task -> BOOLEAN]
  /\ taskQueue \in Seq(Task)
  /\ crashed \in BOOLEAN

RefTypeOK ==
  /\ mboxRef \in [Task -> LuaState \union {None}]
  /\ msgRef \in [Msg -> LuaState \union {None}]
  /\ \A m \in Msg : msgRef[m] # None => rcpt[m] # None

(* A thread's locals hold what the point it has reached needs. *)
ThreadTypeOK ==
  /\ pc \in [Thread -> IdlePC \union LeavingPC \union BusyPC]
  /\ pc[Root] \in {"lua"} \union CallPC
  /\ cur \in [Worker -> Task \union {None}]
  /\ \A w \in Worker : cur[w] = None <=> pc[w] \in IdlePC
  /\ msg \in [Worker -> Msg \union {None}]
  /\ \A w \in Worker : pc[w] \in ReplyPC => msg[w] # None
  /\ serving \in [Worker -> BOOLEAN]
  /\ arg \in [Thread -> Msg \union {None}]
  /\ \A th \in Thread : pc[th] \in CallPC => arg[th] # None /\ rcpt[arg[th]] # None

(* Every variable has its type; in particular worker and task_destroy never *)
(* use a task or message pointer that they have not set, once past the use  *)
(* of a NULL msg that ends the process.                                     *)
TypeOK == MailboxTypeOK /\ TaskTypeOK /\ RefTypeOK /\ ThreadTypeOK

-----------------------------------------------------------------------------
(* The scheduler. *)

Running(w, t) == cur[w] = t /\ pc[w] \notin LeavingPC

Occurs(x, q) == \E i \in DOMAIN q : q[i] = x

Distinct(q) == \A i, j \in DOMAIN q : q[i] = q[j] => i = j

Queued(t) == Occurs(t, taskQueue)

(* A Lua state is not thread-safe, and worker (process.c) uses it without a *)
(* lock: the task states alone must see to it that a task is queued at most *)
(* once, that no two workers run it, and that a task being run is not also  *)
(* queued for somebody else to take.                                        *)
OneRunner ==
  /\ \A w1, w2 \in Worker, t \in Task : Running(w1, t) /\ Running(w2, t) => w1 = w2
  /\ \A w \in Worker, t \in Task : Running(w, t) => ~Queued(t)
  /\ Distinct(taskQueue)

DyingPC   == {"drain", "drain_reply", "drain_unref", "mbox_destroy", "close"}
ServingPC == BusyPC \ (DyingPC \union {"start"})

(* task.state says what becomes of the task: only a new or TASK_WAITING     *)
(* one is taken off the queue, and while a worker serves or destroys a task *)
(* nothing that another thread does (a notification, above all) changes the *)
(* state under it.                                                          *)
TaskStateMatches ==
  /\ \A t \in Task : Queued(t) => taskState[t] \in {"init", "waiting"}
  /\ \A w \in Worker :
       /\ pc[w] = "start" => taskState[cur[w]] \in {"init", "waiting"}
       /\ pc[w] \in ServingPC => taskState[cur[w]] = "processing"
       /\ pc[w] \in DyingPC => taskState[cur[w]] = "dead"

(* No task falls out of the scheduler: one that is new or TASK_WAITING is   *)
(* on the queue or already in a worker's hands, and one that is             *)
(* TASK_PROCESSING or TASK_DEAD has a worker.                               *)
NoOrphanTask ==
  \A t \in Task :
    /\ taskState[t] \in {"init", "waiting"} =>
         Queued(t) \/ \E w \in Worker : cur[w] = t /\ pc[w] = "start"
    /\ taskState[t] \in {"processing", "dead"} => \E w \in Worker : Running(w, t)

(* The signal on new_job is never lost: as long as a worker sleeps, every   *)
(* queued task has an awake worker on its way to the queue (worker,         *)
(* process_notify_task and process_spawn).                                  *)
NoLostWakeup ==
  (\E w \in Worker : pc[w] = "wait") =>
     Len(taskQueue) <= Cardinality({w \in Worker : pc[w] = "pop"})

(* A task is not left idle over a message in its mailbox: someone is about  *)
(* to notify it, either the sender (mailbox_send) or the worker that has    *)
(* just made it idle (the mailbox_peek at the end of worker).               *)
WorkNotForgotten ==
  \A t \in Task : taskState[t] = "idle" /\ mailbox_peek(t) =>
    \/ \E th \in Thread : pc[th] = "notify" /\ rcpt[arg[th]] = t
    \/ \E w \in Worker : cur[w] = t /\ pc[w] \in LeavingPC

(* A task that is TASK_DEAD is never scheduled again, however late the      *)
(* notification that still has a pointer to it.                             *)
DeadStaysDead ==
  [][\A t \in Task : taskState[t] \in {"dead", "freed"} =>
       taskState'[t] \in {"dead", "freed"}]_vars

-----------------------------------------------------------------------------
(* Messages and mailboxes. *)

InInbox(m) == \E b \in Task : Occurs(m, inbox[b])

SenderHolds(m) ==
  msgRef[m] # None \/ \E th \in Thread : pc[th] \in {"append", "notify"} /\ arg[th] = m

RecipientHolds(m) ==
  \/ \E th \in Thread : pc[th] = "append" /\ arg[th] = m
  \/ InInbox(m)
  \/ \E w \in Worker : msg[w] = m

(* mailbox_message_destroy frees a message exactly when the sending and the *)
(* receiving side have both let go of it, so no side ever reads a freed     *)
(* message or leaks one.                                                    *)
MessageLifetime ==
  \A m \in Msg : msgState[m] # "none" =>
    (m \in freedMsgs <=> ~SenderHolds(m) /\ ~RecipientHolds(m))

TaskReleased(b) ==
  taskState[b] = "freed" \/ \E w \in Worker : cur[w] = b /\ pc[w] = "close"

(* A mailbox is alive while both its task and the spawner's reference last, *)
(* dead after the first mailbox_destroy and freed only by the second: a     *)
(* sender that passed the unlocked check in mailbox_send still writes into  *)
(* allocated memory.                                                        *)
MailboxLifetime ==
  /\ \A b \in Task : taskState[b] \notin {"none", "leaked"} =>
       mboxState[b] = CASE mboxRef[b] = None /\ TaskReleased(b) -> "freed"
                        [] mboxRef[b] # None /\ ~TaskReleased(b) -> "alive"
                        [] OTHER -> "dead"
  /\ \A th \in Thread : pc[th] \in {"append", "notify"} => mboxState[rcpt[arg[th]]] # "freed"

(* Whoever sees a message MSG_READY finds the reply in it, not the request  *)
(* and not the NULL that stood there while the task ran.                    *)
AnswerComplete == \A m \in Msg : msgState[m] = "ready" => content[m] = "reply"

(* No reply slips in between the check and the wait of                      *)
(* mailbox_wait_for_reply: who sleeps in get() sleeps on an open message    *)
(* that is still allocated.                                                 *)
NoMissedReply ==
  \A th \in Thread : pc[th] = "get_wait" =>
    msgState[arg[th]] = "waiting" /\ arg[th] \notin freedMsgs

(* mailbox:state() reads the final value without a lock: whoever still has  *)
(* a reference and sees the mailbox dead finds the value stored.            *)
FinalValueKept ==
  \A b \in Task : mboxRef[b] # None /\ ~mailbox_isactive(b) => lastMessage[b]

-----------------------------------------------------------------------------
(* Progress. *)

(* The message came after its recipient had emptied its mailbox for the     *)
(* last time: nobody will ever take it.                                     *)
Stranded(m) == rcpt[m] # None /\ taskState[rcpt[m]] = "freed" /\ InInbox(m)

(* get blocks the thread that calls it.  Nothing answers m while every      *)
(* worker waits for an answer, or the one that runs the recipient does.     *)
InGet(th) == pc[th] \in {"get", "get_wait"}

Blocked(m) == \/ \A w \in Worker : pc[w] # "none" => InGet(w)
              \/ \E w \in Worker : cur[w] = rcpt[m] /\ InGet(w)

(* Every message sent is answered or rejected, unless it is stranded or     *)
(* blocked for good.                                                        *)
EventuallyAnswered ==
  \A m \in Msg : []<>~Blocked(m) =>
    (msgState[m] = "waiting" ~> (msgState[m] # "waiting" \/ Stranded(m) \/ crashed))

(* Every get() returns, unless the message it waits for is stranded, or     *)
(* blocked for good.                                                        *)
GetReturnsEventually ==
  \A th \in Thread : \A m \in Msg : []<>~Blocked(m) =>
    (InGet(th) /\ arg[th] = m ~> (pc[th] = "lua" \/ crashed \/ Stranded(m)))

-----------------------------------------------------------------------------
(* What the comments of the code promise. *)

(* "Pop message from queue and pass the values to the function left on the  *)
(* stack" (worker): a task that is loaded runs only when a message is there *)
(* to be popped.                                                            *)
RunHasMessage == \A w \in Worker : pc[w] = "receive" => mailbox_peek(cur[w])

(* "Remove messages as well" (mailbox_destroy): a freed mailbox leaves no   *)
(* message behind.                                                          *)
FreedMailboxEmpty == \A b \in Task : mboxState[b] = "freed" => ~mailbox_peek(b)
=============================================================================
