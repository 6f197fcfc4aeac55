------------------------------- MODULE Mailbox -------------------------------
(***************************************************************************)
(* The mailboxes and messages of the Blocks runtime: src/blocks/mailbox.c.  *)
(*                                                                         *)
(* Every spawned task has one mailbox, allocated with it, so the task's     *)
(* name also names its mailbox.  Each operator below is one function of     *)
(* mailbox.c, or the part of one between two points where another thread    *)
(* can interfere: a section under one mutex is one step.  An operator       *)
(* fixes the next value of every variable of this module; the modules that  *)
(* call it (Process, Blocks) fix the rest.                                 *)
(*                                                                         *)
(* `count' only feeds a log line and is Len(inbox[b]); the root state's     *)
(* own mailbox is never the target of a reference and is left out.          *)
(***************************************************************************)
EXTENDS Integers, Sequences

CONSTANTS Task,   \* the tasks (and mailboxes) that can ever be spawned
          Msg,    \* the messages that can ever be sent
          None    \* the NULL pointer

VARIABLES
  mboxState,    \* mailbox.state, with "none" before malloc and "freed" after free
  inbox,        \* the list from mailbox.head
  lastMessage,  \* mailbox.last_message: has the task's final value been stored?
  msgState,     \* message.state, with "none" before malloc
  refCount,     \* message.ref_count
  content,      \* message.content: "null", the "request" or the "reply"
  rcpt,         \* message.mailbox
  freedMsgs     \* the messages that have been freed

mboxVars == <<mboxState, inbox, lastMessage>>
msgVars  == <<msgState, refCount, content, rcpt, freedMsgs>>
mailboxVars == <<mboxVars, msgVars>>

MailboxInit ==
  /\ mboxState   = [b \in Task |-> "none"]
  /\ inbox       = [b \in Task |-> <<>>]
  /\ lastMessage = [b \in Task |-> FALSE]
  /\ msgState    = [m \in Msg |-> "none"]
  /\ refCount    = [m \in Msg |-> 0]
  /\ content     = [m \in Msg |-> "null"]
  /\ rcpt        = [m \in Msg |-> None]
  /\ freedMsgs   = {}

-----------------------------------------------------------------------------
(* Mailboxes. *)

mailbox_init(b) ==
  /\ mboxState' = [mboxState EXCEPT ![b] = "alive"]
  /\ UNCHANGED <<inbox, lastMessage, msgVars>>

mailbox_isactive(b) == mboxState[b] = "alive"

mailbox_set_last_message(b) ==
  /\ lastMessage' = [lastMessage EXCEPT ![b] = TRUE]
  /\ UNCHANGED <<mboxState, inbox, msgVars>>

(* Mutation: the first of the two owners to let go already frees. *)
mailbox_destroy_first_frees(b) ==
  /\ mboxState' = [mboxState EXCEPT ![b] = "freed"]
  /\ UNCHANGED <<inbox, lastMessage, msgVars>>

(* The owner of the reference and the task each call this once: the first   *)
(* call marks the mailbox dead, the second one frees it.                    *)
mailbox_destroy(b) ==
  /\ mboxState' = [mboxState EXCEPT ![b] = IF @ = "dead" THEN "freed" ELSE "dead"]
  /\ UNCHANGED <<inbox, lastMessage, msgVars>>

(* mailbox_send up to the lock: allocate and fill in the message. *)
message_alloc(m, b) ==
  /\ msgState' = [msgState EXCEPT ![m] = "waiting"]
  /\ refCount' = [refCount EXCEPT ![m] = 2]
  /\ content'  = [content  EXCEPT ![m] = "request"]
  /\ rcpt'     = [rcpt     EXCEPT ![m] = b]
  /\ UNCHANGED <<mboxVars, freedMsgs>>

(* Mutation: the new message goes to the front of the list. *)
mailbox_append_front(b, m) ==
  /\ inbox' = [inbox EXCEPT ![b] = <<m>> \o @]
  /\ UNCHANGED <<mboxState, lastMessage, msgVars>>

(* mailbox_send under the mailbox's mutex. *)
mailbox_append(b, m) ==
  /\ inbox' = [inbox EXCEPT ![b] = Append(@, m)]
  /\ UNCHANGED <<mboxState, lastMessage, msgVars>>

mailbox_receive(b) ==
  /\ inbox' = [inbox EXCEPT ![b] = Tail(@)]
  /\ UNCHANGED <<mboxState, lastMessage, msgVars>>

mailbox_peek(b) == inbox[b] # <<>>

-----------------------------------------------------------------------------
(* Messages. *)

mailbox_message_reply(m, is_dead) ==
  /\ msgState' = [msgState EXCEPT ![m] = IF is_dead THEN "dead" ELSE "ready"]
  /\ UNCHANGED <<mboxVars, refCount, content, rcpt, freedMsgs>>

(* Mutation: whoever lets go of an answered message frees it. *)
mailbox_message_destroy_any_ref(m) ==
  /\ refCount'  = [refCount EXCEPT ![m] = @ - 1]
  /\ freedMsgs' = IF msgState[m] \in {"ready", "dead"} THEN freedMsgs \union {m} ELSE freedMsgs
  /\ UNCHANGED <<mboxVars, msgState, content, rcpt>>

(* Drop one reference; free when it was the last and the message is         *)
(* answered.                                                                *)
mailbox_message_destroy(m) ==
  /\ refCount'  = [refCount EXCEPT ![m] = @ - 1]
  /\ freedMsgs' = IF refCount[m] - 1 <= 0 /\ msgState[m] \in {"ready", "dead"}
                    THEN freedMsgs \union {m} ELSE freedMsgs
  /\ UNCHANGED <<mboxVars, msgState, content, rcpt>>

(* mailbox_receive followed, before anyone else can look at the message,    *)
(* by mailbox_message_content_destroy.                                      *)
mailbox_receive_content(b) ==
  /\ inbox'   = [inbox EXCEPT ![b] = Tail(@)]
  /\ content' = [content EXCEPT ![Head(inbox[b])] = "null"]
  /\ UNCHANGED <<mboxState, lastMessage, msgState, refCount, rcpt, freedMsgs>>

mailbox_message_content_set(m) ==
  /\ content' = [content EXCEPT ![m] = "reply"]
  /\ UNCHANGED <<mboxVars, msgState, refCount, rcpt, freedMsgs>>

=============================================================================
