------------------------------- MODULE Process -------------------------------
(***************************************************************************)
(* Tasks and the thread pool that runs them: src/blocks/process.c.          *)
(*                                                                         *)
(* A task is a Lua state with a mailbox.  It is run by at most one worker   *)
(* at a time, first to load its function and then once per message; in      *)
(* between it is TASK_IDLE and owned by no thread, and whoever sends it a   *)
(* message puts it back on the pool's run queue (process_notify_task).      *)
(*                                                                         *)
(* Each action is one worker's progress to the next point where another     *)
(* thread can interfere: a section under one mutex, or one unprotected      *)
(* access to shared memory.  `pc' names the point a thread has reached.     *)
(***************************************************************************)
EXTENDS Mailbox

CONSTANTS Worker,         \* the pool threads that can ever be created
          InitialWorkers, \* those created by threadpool_init
          Root            \* the Lua state (and thread) of the main program

ASSUME ProcessAssumption ==
  /\ InitialWorkers \subseteq Worker
  /\ Root \notin Worker \union Task
  /\ None \notin Task \union Msg \union Worker \union {Root}

VARIABLES
  taskState,  \* task.state, with "none" before malloc, "leaked" for a task that
              \* is still TASK_INIT and that nobody refers to, "freed" after free
  isLoaded,   \* task.is_loaded
  taskQueue,  \* the list from pool.task_queue
  pc,         \* where each thread is
  cur,        \* worker's local `t'
  msg,        \* worker's (or task_destroy's) local `msg'
  serving,    \* is the worker in the branch that serves a message?
  arg,        \* the message of the library call a thread is in
  mboxRef,    \* which Lua state holds the mailbox-ref userdata of a task
  msgRef,     \* which Lua state holds the message-ref userdata of a message
  crashed     \* the process has died: a bad memory access, or a Lua panic

Thread   == Worker \union {Root}
LuaState == Task \union {Root}

taskVars   == <<taskState, isLoaded, taskQueue>>
localVars  == <<cur, msg, serving, arg>>
refVars    == <<mboxRef, msgRef>>
vars == <<mailboxVars, taskVars, pc, localVars, refVars, crashed>>

(* threadpool_init, called when the library is first opened by the root.    *)
ProcessInit ==
  /\ taskState = [t \in Task |-> "none"]
  /\ isLoaded  = [t \in Task |-> FALSE]
  /\ taskQueue = <<>>
  /\ pc = [th \in Thread |-> CASE th = Root -> "lua"
                               [] th \in InitialWorkers -> "pop"
                               [] OTHER -> "none"]
  /\ cur     = [w \in Worker |-> None]
  /\ msg     = [w \in Worker |-> None]
  /\ serving = [w \in Worker |-> FALSE]
  /\ arg     = [th \in Thread |-> None]
  /\ mboxRef = [t \in Task |-> None]
  /\ msgRef  = [m \in Msg |-> None]
  /\ crashed = FALSE

-----------------------------------------------------------------------------
(* Condition variables and the run queue. *)

(* pthread_cond_signal, for a caller whose own move leads to p: one of the  *)
(* threads W blocked on the condition, if any, is made to go on from l.     *)
Signalled(p, W, l) ==
  IF W = {} THEN {p} ELSE {[p EXCEPT ![th] = l] : th \in W}

(* Mutation: no thread is woken. *)
signal_new_job_never(p) == {p}

(* pthread_cond_signal(&pool->new_job) *)
signal_new_job(p) == Signalled(p, {w \in Worker : pc[w] = "wait"}, "pop")

(* pthread_cond_signal(&message->ready) *)
signal_ready(p, m) ==
  Signalled(p, {th \in Thread : pc[th] = "get_wait" /\ arg[th] = m}, "get")

(* Mutation: the new item becomes the whole list. *)
push_task_overwrites(t) == taskQueue' = <<t>>

push_task(t) == taskQueue' = Append(taskQueue, t)

(* Mutation: the task is queued whatever it is doing. *)
process_notify_task_always(t, p) ==
  /\ taskState' = [taskState EXCEPT ![t] = "waiting"]
  /\ push_task(t)
  /\ pc' \in signal_new_job(p)

(* Under the task's mutex and, inside it, the pool's. *)
process_notify_task(t, p) ==
  \/ /\ taskState[t] = "idle"
     /\ taskState' = [taskState EXCEPT ![t] = "waiting"]
     /\ push_task(t)
     /\ pc' \in signal_new_job(p)
  \/ /\ taskState[t] # "idle"
     /\ pc' = p
     /\ UNCHANGED <<taskState, taskQueue>>

(* process_notify_task on a pointer to a task that may be freed already.    *)
(* What a read of freed memory gives is undefined: the old contents (the    *)
(* task reads as dead and nothing happens), a task that now lives at the    *)
(* same address, or a crash.                                                *)
notify_pointer(t, p) ==
  \/ taskState[t] # "freed" /\ process_notify_task(t, p) /\ UNCHANGED crashed
  \/ /\ taskState[t] = "freed"
     /\ \/ pc' = p /\ UNCHANGED <<taskState, taskQueue, crashed>>
        \/ \E u \in Task : /\ taskState[u] \notin {"none", "freed"}
                           /\ process_notify_task(u, p)
                           /\ UNCHANGED crashed
        \/ pc' = p /\ crashed' = TRUE /\ UNCHANGED <<taskState, taskQueue>>

-----------------------------------------------------------------------------
(* The references that userdata in a Lua state's heap hold, as the __gc     *)
(* metamethods l_mailbox_ref_destroy and l_mailbox_message_destroy drop     *)
(* them: when the garbage collector runs, or in lua_close.                  *)

drop_mailbox_ref(b) ==
  /\ mailbox_destroy(b)
  /\ mboxRef' = [mboxRef EXCEPT ![b] = None]
  /\ UNCHANGED msgRef

drop_message_ref(m) ==
  /\ mailbox_message_destroy(m)
  /\ msgRef' = [msgRef EXCEPT ![m] = None]
  /\ UNCHANGED mboxRef

-----------------------------------------------------------------------------
(* worker *)

At(th, l) == ~crashed /\ pc[th] = l

Goto(th, l) == pc' = [pc EXCEPT ![th] = l]

pop_task(w) ==
  /\ At(w, "pop")
  /\ taskQueue # <<>>
  /\ cur' = [cur EXCEPT ![w] = Head(taskQueue)]
  /\ taskQueue' = Tail(taskQueue)
  /\ Goto(w, "start")
  /\ UNCHANGED <<mailboxVars, taskState, isLoaded, msg, serving, arg, refVars, crashed>>

(* Nothing to do: pthread_cond_wait(&pool->new_job). *)
WaitForJob(w) ==
  /\ At(w, "pop")
  /\ taskQueue = <<>>
  /\ Goto(w, "wait")
  /\ UNCHANGED <<mailboxVars, taskVars, localVars, refVars, crashed>>

(* pthread_cond_wait may also return without a signal. *)
SpuriousWakeup(th) ==
  /\ \/ At(th, "wait") /\ Goto(th, "pop")
     \/ At(th, "get_wait") /\ Goto(th, "get")
  /\ UNCHANGED <<mailboxVars, taskVars, localVars, refVars, crashed>>

(* The first run loads the function and evaluates it, later ones serve a    *)
(* message.                                                                 *)
StartTask(w) ==
  LET t == cur[w] IN
  /\ At(w, "start")
  /\ taskState' = [taskState EXCEPT ![t] = "processing"]
  /\ isLoaded'  = [isLoaded EXCEPT ![t] = TRUE]
  /\ serving'   = [serving EXCEPT ![w] = isLoaded[t]]
  /\ Goto(w, IF isLoaded[t] THEN "receive" ELSE "lua")
  /\ UNCHANGED <<mailboxVars, taskQueue, cur, msg, arg, refVars, crashed>>

Receive(w) ==
  LET t == cur[w] IN
  /\ At(w, "receive")
  /\ \/ /\ mailbox_peek(t)
        /\ msg' = [msg EXCEPT ![w] = Head(inbox[t])]
        /\ mailbox_receive_content(t)
     \/ ~mailbox_peek(t) /\ UNCHANGED <<msg, mailboxVars>>
  /\ Goto(w, "lua")
  /\ UNCHANGED <<taskVars, cur, serving, arg, refVars, crashed>>

(* lua_eval returns. *)
LuaReturns(w) ==
  /\ At(w, "lua")
  /\ Goto(w, IF serving[w] THEN "set_content" ELSE "decide")
  /\ UNCHANGED <<mailboxVars, taskVars, localVars, refVars, crashed>>

(* Mutation: the sender is told before the reply is in place. *)
SetContent_after_reply(w) ==
  /\ At(w, "set_content")
  /\ IF msg[w] = None
       THEN crashed' = TRUE /\ UNCHANGED <<mailboxVars, pc>>
       ELSE /\ mailbox_message_reply(msg[w], FALSE)
            /\ pc' \in signal_ready([pc EXCEPT ![w] = "reply"], msg[w])
            /\ UNCHANGED crashed
  /\ UNCHANGED <<taskVars, localVars, refVars>>

(* Mutation: a NULL msg is let through here, and only here. *)
SetContent_null_passes(w) ==
  /\ At(w, "set_content")
  /\ IF msg[w] = None THEN UNCHANGED mailboxVars ELSE mailbox_message_content_set(msg[w])
  /\ Goto(w, "reply")
  /\ UNCHANGED <<taskVars, localVars, refVars, crashed>>

(* mailbox_message_content_set(msg, ...): there is no check for a NULL msg. *)
SetContent(w) ==
  /\ At(w, "set_content")
  /\ IF msg[w] = None
       THEN crashed' = TRUE /\ UNCHANGED <<mailboxVars, pc>>
       ELSE mailbox_message_content_set(msg[w]) /\ Goto(w, "reply") /\ UNCHANGED crashed
  /\ UNCHANGED <<taskVars, localVars, refVars>>

(* Mutation: nobody is signalled. *)
Reply_silent(w) ==
  /\ At(w, "reply")
  /\ mailbox_message_reply(msg[w], FALSE)
  /\ Goto(w, "unref")
  /\ UNCHANGED <<taskVars, localVars, refVars, crashed>>

Reply(w) ==
  /\ At(w, "reply")
  /\ mailbox_message_reply(msg[w], FALSE)
  /\ pc' \in signal_ready([pc EXCEPT ![w] = "unref"], msg[w])
  /\ UNCHANGED <<taskVars, localVars, refVars, crashed>>

DestroyMessage(w) ==
  /\ At(w, "unref")
  /\ mailbox_message_destroy(msg[w])
  /\ msg' = [msg EXCEPT ![w] = None]
  /\ Goto(w, "decide")
  /\ UNCHANGED <<taskVars, cur, serving, arg, refVars, crashed>>

(* The task left a function: it survives. *)
SetIdle(w) ==
  /\ At(w, "decide")
  /\ taskState' = [taskState EXCEPT ![cur[w]] = "idle"]
  /\ Goto(w, "peek")
  /\ UNCHANGED <<mailboxVars, isLoaded, taskQueue, localVars, refVars, crashed>>

(* Mutation: the mailbox is not looked at again. *)
Peek_skipped(w) ==
  /\ At(w, "peek")
  /\ Goto(w, "pop")
  /\ cur' = [cur EXCEPT ![w] = None]
  /\ UNCHANGED <<mailboxVars, taskVars, msg, serving, arg, refVars, crashed>>

(* The worker still uses the Lua state's mbox_ref here, although another    *)
(* worker may have run the task, closed the state and freed it, and the     *)
(* mailbox with it, since.  What it reads there is then undefined.          *)
Peek(w) ==
  LET t == cur[w]
      Dangling == taskState[t] = "freed" \/ mboxState[t] = "freed" IN
  /\ At(w, "peek")
  /\ \/ /\ mailbox_peek(t) \/ Dangling
        /\ Goto(w, "renotify")
        /\ UNCHANGED <<cur, crashed>>
     \/ /\ ~mailbox_peek(t) \/ Dangling
        /\ Goto(w, "pop")
        /\ cur' = [cur EXCEPT ![w] = None]
        /\ UNCHANGED crashed
     \/ /\ Dangling
        /\ crashed' = TRUE
        /\ UNCHANGED <<pc, cur>>
  /\ UNCHANGED <<mailboxVars, taskVars, msg, serving, arg, refVars>>

Renotify(w) ==
  /\ At(w, "renotify")
  /\ notify_pointer(cur[w], [pc EXCEPT ![w] = "pop"])
  /\ cur' = [cur EXCEPT ![w] = None]
  /\ UNCHANGED <<mailboxVars, isLoaded, msg, serving, arg, refVars>>

(* Mutation: the final value is dropped. *)
SetLastMessage_skipped(w) ==
  /\ At(w, "decide")
  /\ Goto(w, "set_dead")
  /\ UNCHANGED <<mailboxVars, taskVars, localVars, refVars, crashed>>

(* The task left no function: store its final value. *)
SetLastMessage(w) ==
  /\ At(w, "decide")
  /\ mailbox_set_last_message(cur[w])
  /\ Goto(w, "set_dead")
  /\ UNCHANGED <<taskVars, localVars, refVars, crashed>>

(* lua_message_pop raises "Max message size exceeded" here outside any      *)
(* protected call: the Lua panic aborts the process.                        *)
PopFails(w) ==
  /\ At(w, "set_content") \/ At(w, "decide")
  /\ crashed' = TRUE
  /\ UNCHANGED <<mailboxVars, taskVars, pc, localVars, refVars>>

-----------------------------------------------------------------------------
(* task_destroy *)

SetDead(w) ==
  /\ At(w, "set_dead")
  /\ taskState' = [taskState EXCEPT ![cur[w]] = "dead"]
  /\ Goto(w, "drain")
  /\ UNCHANGED <<mailboxVars, isLoaded, taskQueue, localVars, refVars, crashed>>

DrainNext(w) ==
  /\ At(w, "drain")
  /\ mailbox_peek(cur[w])
  /\ msg' = [msg EXCEPT ![w] = Head(inbox[cur[w]])]
  /\ mailbox_receive(cur[w])
  /\ Goto(w, "drain_reply")
  /\ UNCHANGED <<taskVars, cur, serving, arg, refVars, crashed>>

DrainReply(w) ==
  /\ At(w, "drain_reply")
  /\ mailbox_message_reply(msg[w], TRUE)
  /\ pc' \in signal_ready([pc EXCEPT ![w] = "drain_unref"], msg[w])
  /\ UNCHANGED <<taskVars, localVars, refVars, crashed>>

DrainDestroy(w) ==
  /\ At(w, "drain_unref")
  /\ mailbox_message_destroy(msg[w])
  /\ msg' = [msg EXCEPT ![w] = None]
  /\ Goto(w, "drain")
  /\ UNCHANGED <<taskVars, cur, serving, arg, refVars, crashed>>

(* The mailbox is empty now; a sender may still append to it. *)
DrainEnd(w) ==
  /\ At(w, "drain")
  /\ ~mailbox_peek(cur[w])
  /\ Goto(w, "mbox_destroy")
  /\ UNCHANGED <<mailboxVars, taskVars, localVars, refVars, crashed>>

DestroyMailbox(w) ==
  /\ At(w, "mbox_destroy")
  /\ mailbox_destroy(cur[w])
  /\ Goto(w, "close")
  /\ UNCHANGED <<taskVars, localVars, refVars, crashed>>

(* lua_close finalises every userdata of the state ... *)
CloseRefs(w) ==
  /\ At(w, "close")
  /\ \/ \E b \in Task : mboxRef[b] = cur[w] /\ drop_mailbox_ref(b)
     \/ \E m \in Msg : msgRef[m] = cur[w] /\ drop_message_ref(m)
  /\ UNCHANGED <<taskVars, pc, localVars, crashed>>

(* ... and then the state and the task are freed. *)
FreeTask(w) ==
  LET t == cur[w] IN
  /\ At(w, "close")
  /\ \A b \in Task : mboxRef[b] # t
  /\ \A m \in Msg : msgRef[m] # t
  /\ taskState' = [taskState EXCEPT ![t] = "freed"]
  /\ cur' = [cur EXCEPT ![w] = None]
  /\ Goto(w, "pop")
  /\ UNCHANGED <<mailboxVars, isLoaded, taskQueue, msg, serving, arg, refVars, crashed>>
=============================================================================
