----------------------------- MODULE MessageProofs -----------------------------
(***************************************************************************)
(* Proofs about the life of messages and mailboxes in the Blocks runtime:   *)
(* who holds them, who frees them, and what an answer contains.             *)
(***************************************************************************)
EXTENDS BlocksProofs

-----------------------------------------------------------------------------
(* The inductive invariant of the messages. *)

(* mailbox_send: from the allocation on, and up to the append; a worker     *)
(* between the reply and mailbox_message_destroy.                           *)
Sending(th, m)   == pc[th] \in {"append", "notify"} /\ arg[th] = m
Appending(th, m) == pc[th] = "append" /\ arg[th] = m
Replied(w)       == pc[w] \in {"unref", "drain_unref"}

(* From taking a message to letting go of it. *)
HoldPC == {"lua", "set_content", "reply", "unref", "drain_reply", "drain_unref"} \union CallPC

(* worker's locals msg and serving tell where it is.                       *)
LocalRight(w) ==
  /\ msg[w] # None => pc[w] \in HoldPC
  /\ pc[w] \in {"lua"} \union CallPC /\ ~serving[w] => msg[w] = None
  /\ pc[w] = "receive" => serving[w]

LocalsRight == \A w \in Worker : LocalRight(w)

(* A message has one sender: the call to mailbox_send that made it, and     *)
(* then the userdata that the call returned.                                *)
OneSender ==
  /\ \A th1, th2 \in Thread, m \in Msg : Sending(th1, m) /\ Sending(th2, m) => th1 = th2
  /\ \A th \in Thread, m \in Msg : Sending(th, m) => msgRef[m] = None

(* On the other side a message is in one place: in the hands of who appends *)
(* it, once in the one list of its mailbox, or with one worker.             *)
OneRecipient ==
  /\ \A b \in Task : Distinct(inbox[b])
  /\ \A b \in Task, m \in Msg : Occurs(m, inbox[b]) => rcpt[m] = b
  /\ \A w \in Worker, m \in Msg : msg[w] = m => ~InInbox(m)
  /\ \A w1, w2 \in Worker, m \in Msg : msg[w1] = m /\ msg[w2] = m => w1 = w2
  /\ \A th \in Thread, m \in Msg : Appending(th, m) =>
       ~InInbox(m) /\ \A w \in Worker : msg[w] # m

(* What of a message is still to be done before its reply. *)
Unreplied(m) ==
  \/ \E th \in Thread : Appending(th, m)
  \/ InInbox(m)
  \/ \E w \in Worker : msg[w] = m /\ ~Replied(w)

(* message.state tells whether the reply is still to be done.               *)
StateRight ==
  \A m \in Msg :
    /\ msgState[m] = "waiting" <=> Unreplied(m)
    /\ \A w \in Worker : msg[w] = m /\ Replied(w) => msgState[m] \in {"ready", "dead"}
    /\ msgState[m] = "none" =>
         /\ ~SenderHolds(m)
         /\ m \notin freedMsgs

(* message.ref_count counts the sides that hold the message.                *)
CountRight ==
  \A m \in Msg : msgState[m] # "none" =>
    /\ refCount[m] = (IF SenderHolds(m) THEN 1 ELSE 0) + (IF RecipientHolds(m) THEN 1 ELSE 0)
    /\ m \in freedMsgs <=> ~SenderHolds(m) /\ ~RecipientHolds(m)

(* Who holds a message, and what its fields say of that.                    *)
HoldInv == OneSender /\ OneRecipient /\ StateRight /\ CountRight

(* A reply is in place before the message is answered.                      *)
AnswerStored ==
  /\ AnswerComplete
  /\ \A w \in Worker : pc[w] = "reply" => content[msg[w]] = "reply"

(* Who is in get() belongs to the Lua state that holds the message ...      *)
GetterHolds ==
  \A th \in Thread : InGet(th) => msgRef[arg[th]] = StateOf(th)

(* ... and sleeps only until the reply.                                     *)
SleepsUntilReply ==
  \A th \in Thread : pc[th] = "get_wait" => msgState[arg[th]] = "waiting"

(* All of this is inductive together with the scheduler's invariant.        *)
MsgInv == LocalsRight /\ HoldInv /\ AnswerStored /\ GetterHolds /\ SleepsUntilReply

(* What MailboxLifetime says of a mailbox, and that nobody refers to one     *)
(* that was not spawned.                                                    *)
OwnersRight ==
  \A b \in Task :
    /\ taskState[b] \in {"none", "leaked"} => mboxRef[b] = None
    /\ taskState[b] \notin {"none", "leaked"} =>
         /\ mboxState[b] # "none"
         /\ mboxState[b] = "alive" <=> mboxRef[b] # None /\ ~TaskReleased(b)
         /\ mboxState[b] = "freed" <=> mboxRef[b] = None /\ TaskReleased(b)

(* A Lua state keeps its reference to a mailbox while it is in send().      *)
SenderHasRef ==
  \A th \in Thread : pc[th] \in {"append", "notify"} => mboxRef[rcpt[arg[th]]] = StateOf(th)

(* The final value is stored before the task is marked dead.                *)
FinalStored ==
  /\ \A w \in Worker : pc[w] \in {"set_dead"} \union DyingPC => lastMessage[cur[w]]
  /\ \A b \in Task : taskState[b] = "freed" => lastMessage[b]

(* The same for mailboxes: inductive together with MsgInv.                  *)
MboxInv == OwnersRight /\ SenderHasRef /\ FinalStored

-----------------------------------------------------------------------------
(* Lists of messages. *)

(* What mailbox_append does to the lists.                                   *)
LEMMA InboxAppend ==
  ASSUME MailboxTypeOK, OneRecipient, NEW b \in Task, NEW k \in Msg, ~InInbox(k),
         inbox' = [inbox EXCEPT ![b] = Append(@, k)]
  PROVE  /\ \A c \in Task, m \in Msg : Occurs(m, inbox'[c]) <=> Occurs(m, inbox[c]) \/ (c = b /\ m = k)
         /\ \A c \in Task : Distinct(inbox'[c])
         /\ \A m \in Msg : InInbox(m)' <=> InInbox(m) \/ m = k
<1>1. /\ inbox'[b] = Append(inbox[b], k) /\ inbox[b] \in Seq(Msg)
      /\ \A c \in Task \ {b} : inbox'[c] = inbox[c]
  BY DEF MailboxTypeOK
<1>2. ~Occurs(k, inbox[b]) /\ Distinct(inbox[b])
  BY DEF InInbox, OneRecipient
<1>3. /\ \A m : Occurs(m, inbox'[b]) <=> Occurs(m, inbox[b]) \/ m = k
      /\ Distinct(inbox'[b])
  BY <1>1, <1>2, QueueAppend
<1>4. \A c \in Task, m \in Msg : Occurs(m, inbox'[c]) <=> Occurs(m, inbox[c]) \/ (c = b /\ m = k)
  BY <1>1, <1>3
<1>5. \A c \in Task : Distinct(inbox'[c])
  BY <1>1, <1>3 DEF OneRecipient
<1> QED
  BY <1>4, <1>5 DEF InInbox

(* What mailbox_receive does to them.                                       *)
LEMMA InboxTail ==
  ASSUME MailboxTypeOK, OneRecipient, NEW b \in Task, inbox[b] # <<>>,
         inbox' = [inbox EXCEPT ![b] = Tail(@)]
  PROVE  LET k == Head(inbox[b]) IN
         /\ k \in Msg /\ InInbox(k) /\ rcpt[k] = b
         /\ \A c \in Task, m \in Msg : Occurs(m, inbox'[c]) <=> Occurs(m, inbox[c]) /\ m # k
         /\ \A c \in Task : Distinct(inbox'[c])
         /\ \A m \in Msg : InInbox(m)' <=> InInbox(m) /\ m # k
<1> DEFINE k == Head(inbox[b])
<1>1. /\ inbox'[b] = Tail(inbox[b]) /\ inbox[b] \in Seq(Msg)
      /\ \A c \in Task \ {b} : inbox'[c] = inbox[c]
  BY DEF MailboxTypeOK
<1>2. Distinct(inbox[b])
  BY DEF OneRecipient
<1>3. /\ k \in Msg /\ Occurs(k, inbox[b]) /\ ~Occurs(k, inbox'[b])
      /\ \A m : m # k => (Occurs(m, inbox'[b]) <=> Occurs(m, inbox[b]))
      /\ Distinct(inbox'[b])
  BY <1>1, <1>2, QueueTail
<1> HIDE DEF k
<1>4. rcpt[k] = b /\ \A c \in Task \ {b} : ~Occurs(k, inbox[c])
  BY <1>3 DEF OneRecipient
<1>5. \A c \in Task, m \in Msg : Occurs(m, inbox'[c]) <=> Occurs(m, inbox[c]) /\ m # k
  BY <1>1, <1>3, <1>4
<1>6. \A c \in Task : Distinct(inbox'[c])
  BY <1>1, <1>3 DEF OneRecipient
<1>7. InInbox(k) /\ \A m \in Msg : InInbox(m)' <=> InInbox(m) /\ m # k
  BY <1>3, <1>5 DEF InInbox
<1> QED
  BY <1>3, <1>4, <1>5, <1>6, <1>7 DEF k

-----------------------------------------------------------------------------
(* Who holds a message. *)

(* Thread x begins and ends no send, worker w takes and answers no message. *)
SameHolder(x) ==
  \A m \in Msg : (Sending(x, m)' <=> Sending(x, m)) /\ (Appending(x, m)' <=> Appending(x, m))

SameReceiver(w) == msg'[w] = msg[w] /\ (Replied(w)' <=> Replied(w))

(* A woken thread holds what it held. *)
LEMMA BystanderHolds ==
  ASSUME NEW x \in Thread, Bystander(x)
  PROVE  SameHolder(x) /\ (x \in Worker => SameReceiver(x))
BY DEF Bystander, SameHolder, SameReceiver, Sending, Appending, Replied

(* SenderHolds and RecipientHolds by the holders defined above.             *)
LEMMA Holders ==
  ASSUME NEW m \in Msg
  PROVE  /\ SenderHolds(m) <=> msgRef[m] # None \/ \E th \in Thread : Sending(th, m)
         /\ RecipientHolds(m) <=> \/ \E th \in Thread : Appending(th, m)
                                  \/ InInbox(m)
                                  \/ \E w \in Worker : msg[w] = m
BY DEF SenderHolds, RecipientHolds, Sending, Appending

(* The same after a step. *)
LEMMA HoldersNext ==
  ASSUME NEW m \in Msg
  PROVE  /\ SenderHolds(m)' <=> msgRef'[m] # None \/ \E th \in Thread : Sending(th, m)'
         /\ RecipientHolds(m)' <=> \/ \E th \in Thread : Appending(th, m)'
                                   \/ InInbox(m)'
                                   \/ \E w \in Worker : msg'[w] = m
BY DEF SenderHolds, RecipientHolds, Sending, Appending

(* Steps that no message is involved in.                                    *)
LEMMA HoldQuiet ==
  ASSUME HoldInv, UNCHANGED <<inbox, msgState, refCount, rcpt, freedMsgs, msgRef>>,
         \A x \in Thread : SameHolder(x), \A w \in Worker : SameReceiver(w)
  PROVE  HoldInv'
<1>1. \A m \in Msg : InInbox(m)' <=> InInbox(m)
  BY DEF InInbox
<1>2. ASSUME NEW m \in Msg
      PROVE  /\ SenderHolds(m)' <=> SenderHolds(m)
             /\ RecipientHolds(m)' <=> RecipientHolds(m)
             /\ Unreplied(m)' <=> Unreplied(m)
  BY <1>1, Holders, HoldersNext DEF SameHolder, SameReceiver, Unreplied
<1>3. OneSender'
  BY DEF HoldInv, OneSender, SameHolder
<1>4. OneRecipient'
  BY <1>1 DEF HoldInv, OneRecipient, SameHolder, SameReceiver
<1>5. StateRight'
  BY <1>2 DEF HoldInv, StateRight, SameReceiver
<1>6. CountRight'
  BY <1>2 DEF HoldInv, CountRight
<1> QED
  BY <1>3, <1>4, <1>5, <1>6 DEF HoldInv

(* A new message has its sender and, before it is appended, the same thread *)
(* in place of the recipient.                                               *)
LEMMA HoldSendStart ==
  ASSUME TypeOK, HoldInv, NEW th \in Thread, NEW b \in Task, NEW k \in Msg, SendStart(th, b, k)
  PROVE  HoldInv'
<1>1. /\ pc[th] = "lua" /\ pc'[th] = "append" /\ arg'[th] = k
      /\ msgState[k] = "none"
      /\ UNCHANGED <<inbox, msgRef, msg, freedMsgs>>
  BY DEF SendStart, message_alloc, At, Goto, TypeOK, ThreadTypeOK, refVars, mboxVars
<1>2. /\ msgState' = [msgState EXCEPT ![k] = "waiting"]
      /\ refCount' = [refCount EXCEPT ![k] = 2]
      /\ rcpt' = [rcpt EXCEPT ![k] = b]
  BY DEF SendStart, message_alloc
<1>3. \A x \in Thread \ {th} : Bystander(x)
  BY CallerAlone DEF LuaStep
<1>4. ASSUME NEW x \in Thread, NEW m \in Msg
      PROVE  /\ Sending(x, m)' <=> Sending(x, m) \/ (x = th /\ m = k)
             /\ Appending(x, m)' <=> Appending(x, m) \/ (x = th /\ m = k)
  BY <1>1, <1>3, BystanderHolds DEF SameHolder, Sending, Appending
<1>5. \A w \in Worker : SameReceiver(w)
  BY <1>1, <1>3, BystanderHolds DEF SameReceiver, Replied, Thread
<1>6. /\ ~SenderHolds(k) /\ k \notin freedMsgs
      /\ ~Unreplied(k) /\ \A w \in Worker : msg[w] # k
  BY <1>1 DEF HoldInv, StateRight, Unreplied
<1>7. msgRef[k] = None /\ (\A x \in Thread : ~Sending(x, k)) /\ ~InInbox(k)
  BY <1>6, Holders DEF Unreplied
<1>8. \A m \in Msg : InInbox(m)' <=> InInbox(m)
  BY <1>1 DEF InInbox
<1>9. /\ msgState'[k] = "waiting" /\ refCount'[k] = 2
      /\ \A m \in Msg \ {k} : msgState'[m] = msgState[m] /\ refCount'[m] = refCount[m]
                              /\ rcpt'[m] = rcpt[m]
  BY <1>2 DEF TypeOK, MailboxTypeOK
<1>10. OneSender'
  BY <1>1, <1>4, <1>7 DEF HoldInv, OneSender
<1>11. OneRecipient'
  <2>1. \A c \in Task, m \in Msg : Occurs(m, inbox'[c]) => rcpt'[m] = c
    BY <1>1, <1>7, <1>9 DEF HoldInv, OneRecipient, InInbox
  <2>2. \A c \in Task : Distinct(inbox'[c])
    BY <1>1 DEF HoldInv, OneRecipient
  <2>3. \A x \in Thread, m \in Msg : Appending(x, m)' =>
          ~InInbox(m)' /\ \A w \in Worker : msg'[w] # m
    BY <1>1, <1>4, <1>6, <1>7, <1>8 DEF HoldInv, OneRecipient
  <2> QED
    BY <1>1, <1>8, <2>1, <2>2, <2>3 DEF HoldInv, OneRecipient
<1>12. ASSUME NEW m \in Msg
       PROVE  /\ SenderHolds(m)' <=> SenderHolds(m) \/ m = k
              /\ RecipientHolds(m)' <=> RecipientHolds(m) \/ m = k
              /\ Unreplied(m)' <=> Unreplied(m) \/ m = k
  BY <1>1, <1>4, <1>5, <1>8, Holders, HoldersNext DEF Unreplied, SameReceiver
<1>13. StateRight'
  BY <1>1, <1>5, <1>6, <1>9, <1>12 DEF HoldInv, StateRight, SameReceiver
<1>14. CountRight'
  BY <1>1, <1>6, <1>9, <1>12 DEF HoldInv, CountRight
<1> QED
  BY <1>10, <1>11, <1>13, <1>14 DEF HoldInv

(* mailbox_append hands it over to the list.                                *)
LEMMA HoldSendAppend ==
  ASSUME TypeOK, HoldInv, NEW th \in Thread, SendAppend(th)
  PROVE  HoldInv'
<1> DEFINE k == arg[th]
<1>1. /\ pc[th] = "append" /\ pc'[th] = "notify" /\ k \in Msg /\ rcpt[k] \in Task
      /\ UNCHANGED <<arg, msg, msgRef>>
  BY DEF SendAppend, At, Goto, TypeOK, ThreadTypeOK, MailboxTypeOK, CallPC, localVars, refVars
<1>2. /\ inbox' = [inbox EXCEPT ![rcpt[k]] = Append(@, k)]
      /\ UNCHANGED <<msgState, refCount, rcpt, freedMsgs>>
  BY DEF SendAppend, mailbox_append, msgVars
<1>3. \A x \in Thread \ {th} : Bystander(x)
  BY CallerAlone DEF CallStep
<1> HIDE DEF k
<1>4. ASSUME NEW x \in Thread, NEW m \in Msg
      PROVE  /\ Sending(x, m)' <=> Sending(x, m)
             /\ Appending(x, m)' <=> Appending(x, m) /\ ~(x = th /\ m = k)
  BY <1>1, <1>3, BystanderHolds DEF SameHolder, Sending, Appending, k
<1>5. Appending(th, k) /\ Sending(th, k)
  BY <1>1 DEF Appending, Sending, k
<1>6. \A w \in Worker : SameReceiver(w)
  BY <1>1, <1>3, BystanderHolds DEF SameReceiver, Replied, Thread
<1>7. ~InInbox(k) /\ \A w \in Worker : msg[w] # k
  BY <1>1, <1>5 DEF HoldInv, OneRecipient
<1>8. /\ \A c \in Task, m \in Msg :
           Occurs(m, inbox'[c]) <=> Occurs(m, inbox[c]) \/ (c = rcpt[k] /\ m = k)
      /\ \A c \in Task : Distinct(inbox'[c])
      /\ \A m \in Msg : InInbox(m)' <=> InInbox(m) \/ m = k
  BY <1>1, <1>2, <1>7, InboxAppend DEF HoldInv, TypeOK
<1>9. \A x \in Thread : Appending(x, k) => x = th
  BY <1>1, <1>5 DEF HoldInv, OneSender, Sending, Appending
<1>10. OneSender'
  BY <1>1, <1>4 DEF HoldInv, OneSender
<1>11. OneRecipient'
  <2>1. \A c \in Task, m \in Msg : Occurs(m, inbox'[c]) => rcpt'[m] = c
    BY <1>2, <1>8 DEF HoldInv, OneRecipient
  <2>2. \A w \in Worker, m \in Msg : msg'[w] = m => ~InInbox(m)'
    BY <1>1, <1>7, <1>8 DEF HoldInv, OneRecipient
  <2>3. \A x \in Thread, m \in Msg : Appending(x, m)' =>
          ~InInbox(m)' /\ \A w \in Worker : msg'[w] # m
    BY <1>1, <1>4, <1>8, <1>9 DEF HoldInv, OneRecipient
  <2> QED
    BY <1>1, <1>8, <2>1, <2>2, <2>3 DEF HoldInv, OneRecipient
<1>12. ASSUME NEW m \in Msg
       PROVE  /\ SenderHolds(m)' <=> SenderHolds(m)
              /\ RecipientHolds(m)' <=> RecipientHolds(m)
              /\ Unreplied(m)' <=> Unreplied(m)
  BY <1>1, <1>4, <1>5, <1>6, <1>8, Holders, HoldersNext DEF Unreplied, SameReceiver
<1>13. StateRight'
  BY <1>2, <1>6, <1>12 DEF HoldInv, StateRight, SameReceiver
<1>14. CountRight'
  BY <1>2, <1>12 DEF HoldInv, CountRight
<1> QED
  BY <1>10, <1>11, <1>13, <1>14 DEF HoldInv

(* The sender's Lua state takes the reference over from the call.           *)
LEMMA HoldSendNotify ==
  ASSUME TypeOK, HoldInv, NEW th \in Thread, SendNotify(th)
  PROVE  HoldInv'
<1> DEFINE k == arg[th]
<1>1. /\ pc[th] = "notify" /\ pc'[th] = "lua" /\ k \in Msg
      /\ \A x \in Thread \ {th} : Bystander(x)
  BY SendNotifyMoves
<1>2. /\ msgRef' = [msgRef EXCEPT ![k] = StateOf(th)]
      /\ UNCHANGED <<inbox, msgState, refCount, rcpt, freedMsgs, msg>>
  BY DEF SendNotify, mailboxVars, mboxVars, msgVars
<1>3. StateOf(th) # None
  BY <1>1, BusyHasTask, ProcessAssumption DEF StateOf, Thread, IdlePC
<1>4. /\ msgRef'[k] # None
      /\ \A m \in Msg \ {k} : msgRef'[m] = msgRef[m]
  BY <1>1, <1>2, <1>3 DEF TypeOK, RefTypeOK
<1>5. Sending(th, k)
  BY <1>1 DEF Sending
<1> HIDE DEF k
<1>6. ASSUME NEW x \in Thread, NEW m \in Msg
      PROVE  /\ Sending(x, m)' <=> Sending(x, m) /\ ~(x = th /\ m = k)
             /\ Appending(x, m)' <=> Appending(x, m)
  BY <1>1, BystanderHolds DEF SameHolder, Sending, Appending, k
<1>7. \A w \in Worker : SameReceiver(w)
  BY <1>1, <1>2, BystanderHolds DEF SameReceiver, Replied, Thread
<1>8. \A m \in Msg : InInbox(m)' <=> InInbox(m)
  BY <1>2 DEF InInbox
<1>9. \A x \in Thread : Sending(x, k) => x = th
  BY <1>1, <1>5 DEF HoldInv, OneSender
<1>10. OneSender'
  BY <1>1, <1>4, <1>6, <1>9 DEF HoldInv, OneSender
<1>11. OneRecipient'
  BY <1>2, <1>6, <1>8 DEF HoldInv, OneRecipient
<1>12. ASSUME NEW m \in Msg
       PROVE  /\ SenderHolds(m)' <=> SenderHolds(m)
              /\ RecipientHolds(m)' <=> RecipientHolds(m)
              /\ Unreplied(m)' <=> Unreplied(m)
  BY <1>1, <1>2, <1>4, <1>5, <1>6, <1>7, <1>8, Holders, HoldersNext DEF Unreplied, SameReceiver
<1>13. StateRight'
  BY <1>2, <1>7, <1>12 DEF HoldInv, StateRight, SameReceiver
<1>14. CountRight'
  BY <1>2, <1>12 DEF HoldInv, CountRight
<1> QED
  BY <1>10, <1>11, <1>13, <1>14 DEF HoldInv

(* A worker takes the head of its task's list.                              *)
LEMMA HoldTake ==
  ASSUME TypeOK, HoldInv, NEW w \in Worker, NEW b \in Task, inbox[b] # <<>>, msg[w] = None,
         msg' = [msg EXCEPT ![w] = Head(inbox[b])], inbox' = [inbox EXCEPT ![b] = Tail(@)],
         UNCHANGED <<msgState, refCount, rcpt, freedMsgs, msgRef>>,
         \A x \in Thread : SameHolder(x), \A x \in Worker \ {w} : SameReceiver(x),
         ~Replied(w), ~Replied(w)'
  PROVE  HoldInv'
<1> DEFINE k == Head(inbox[b])
<1>1. /\ k \in Msg /\ InInbox(k) /\ rcpt[k] = b
      /\ \A c \in Task, m \in Msg : Occurs(m, inbox'[c]) <=> Occurs(m, inbox[c]) /\ m # k
      /\ \A c \in Task : Distinct(inbox'[c])
      /\ \A m \in Msg : InInbox(m)' <=> InInbox(m) /\ m # k
  BY InboxTail DEF HoldInv, TypeOK
<1>2. msg' = [msg EXCEPT ![w] = k]
  OBVIOUS
<1> HIDE DEF k
<1>3. msg'[w] = k /\ \A x \in Worker \ {w} : msg'[x] = msg[x]
  BY <1>2 DEF TypeOK, ThreadTypeOK
<1>4. \A x \in Worker : msg[x] # k
  BY <1>1 DEF HoldInv, OneRecipient
<1>5. \A x \in Thread : ~Appending(x, k)
  BY <1>1 DEF HoldInv, OneRecipient
<1>6. OneSender'
  BY DEF HoldInv, OneSender, SameHolder
<1>7. OneRecipient'
  <2>1. \A c \in Task, m \in Msg : Occurs(m, inbox'[c]) => rcpt'[m] = c
    BY <1>1 DEF HoldInv, OneRecipient
  <2>2. \A x \in Worker, m \in Msg : msg'[x] = m => ~InInbox(m)'
    BY <1>1, <1>3 DEF HoldInv, OneRecipient
  <2>3. \A x, y \in Worker, m \in Msg : msg'[x] = m /\ msg'[y] = m => x = y
    BY <1>3, <1>4 DEF HoldInv, OneRecipient
  <2>4. \A x \in Thread, m \in Msg : Appending(x, m)' =>
          ~InInbox(m)' /\ \A y \in Worker : msg'[y] # m
    BY <1>1, <1>3, <1>5 DEF HoldInv, OneRecipient, SameHolder
  <2> QED
    BY <1>1, <2>1, <2>2, <2>3, <2>4 DEF OneRecipient
<1>8. ASSUME NEW m \in Msg
      PROVE  /\ SenderHolds(m)' <=> SenderHolds(m)
             /\ RecipientHolds(m)' <=> RecipientHolds(m)
             /\ Unreplied(m)' <=> Unreplied(m)
  <2>1. m # None
    BY ProcessAssumption
  <2> QED
    BY <1>1, <1>3, <2>1, Holders, HoldersNext DEF Unreplied, SameHolder, SameReceiver
<1>9. StateRight'
  <2>1. ASSUME NEW x \in Worker, NEW m \in Msg, msg'[x] = m, Replied(x)'
        PROVE  msg[x] = m /\ Replied(x)
    BY <1>3, <2>1 DEF SameReceiver
  <2> QED
    BY <1>8, <2>1 DEF HoldInv, StateRight
<1>10. CountRight'
  BY <1>8 DEF HoldInv, CountRight
<1> QED
  BY <1>6, <1>7, <1>9, <1>10 DEF HoldInv

(* It replies: from then on the message is answered, and only then.         *)
LEMMA HoldReply ==
  ASSUME TypeOK, HoldInv, NEW w \in Worker, NEW k \in Msg, msg[w] = k,
         NEW is_dead \in BOOLEAN, mailbox_message_reply(k, is_dead),
         UNCHANGED <<msg, msgRef>>,
         \A x \in Thread : SameHolder(x), \A x \in Worker \ {w} : SameReceiver(x),
         ~Replied(w), Replied(w)'
  PROVE  HoldInv'
<1>1. /\ msgState'[k] \in {"ready", "dead"}
      /\ \A m \in Msg \ {k} : msgState'[m] = msgState[m]
  BY DEF mailbox_message_reply, TypeOK, MailboxTypeOK
<1>2. UNCHANGED <<inbox, refCount, rcpt, freedMsgs>>
  BY DEF mailbox_message_reply, mboxVars
<1>3. \A m \in Msg : InInbox(m)' <=> InInbox(m)
  BY <1>2 DEF InInbox
<1>4. /\ ~InInbox(k) /\ (\A x \in Thread : ~Appending(x, k))
      /\ \A x \in Worker : msg[x] = k => x = w
  BY DEF HoldInv, OneRecipient
<1>5. msgState[k] = "waiting"
  BY DEF HoldInv, StateRight, Unreplied
<1>6. OneSender'
  BY DEF HoldInv, OneSender, SameHolder
<1>7. OneRecipient'
  BY <1>2, <1>3 DEF HoldInv, OneRecipient, SameHolder
<1>8. ASSUME NEW m \in Msg
      PROVE  /\ SenderHolds(m)' <=> SenderHolds(m)
             /\ RecipientHolds(m)' <=> RecipientHolds(m)
             /\ Unreplied(m)' <=> Unreplied(m) /\ m # k
  BY <1>3, <1>4, Holders, HoldersNext DEF Unreplied, SameHolder, SameReceiver
<1>9. StateRight'
  BY <1>1, <1>2, <1>8 DEF HoldInv, StateRight, SameReceiver
<1>10. CountRight'
  BY <1>1, <1>2, <1>5, <1>8 DEF HoldInv, CountRight
<1> QED
  BY <1>6, <1>7, <1>9, <1>10 DEF HoldInv

(* What mailbox_message_destroy does to a message with a reference left.    *)
LEMMA DestroyEffect ==
  ASSUME TypeOK, NEW k \in Msg, mailbox_message_destroy(k)
  PROVE  /\ refCount'[k] = refCount[k] - 1
         /\ \A m \in Msg \ {k} : refCount'[m] = refCount[m] /\ (m \in freedMsgs' <=> m \in freedMsgs)
         /\ k \in freedMsgs' <=>
              k \in freedMsgs \/ (refCount[k] - 1 =< 0 /\ msgState[k] \in {"ready", "dead"})
         /\ UNCHANGED <<inbox, msgState, rcpt, content>>
<1>1. refCount'[k] = refCount[k] - 1 /\ \A m \in Msg \ {k} : refCount'[m] = refCount[m]
  BY DEF mailbox_message_destroy, TypeOK, MailboxTypeOK
<1>2. freedMsgs' = IF refCount[k] - 1 <= 0 /\ msgState[k] \in {"ready", "dead"}
                     THEN freedMsgs \union {k} ELSE freedMsgs
  BY DEF mailbox_message_destroy
<1>3. UNCHANGED <<inbox, msgState, rcpt, content>>
  BY DEF mailbox_message_destroy, mboxVars
<1> QED
  BY <1>1, <1>2, <1>3

(* It lets go of an answered message.                                       *)
LEMMA HoldLetGo ==
  ASSUME TypeOK, HoldInv, NEW w \in Worker, NEW k \in Msg, msg[w] = k,
         mailbox_message_destroy(k), msg' = [msg EXCEPT ![w] = None], UNCHANGED msgRef,
         \A x \in Thread : SameHolder(x), \A x \in Worker \ {w} : SameReceiver(x),
         Replied(w), ~Replied(w)'
  PROVE  HoldInv'
<1>1. /\ refCount'[k] = refCount[k] - 1
      /\ \A m \in Msg \ {k} : refCount'[m] = refCount[m] /\ (m \in freedMsgs' <=> m \in freedMsgs)
      /\ k \in freedMsgs' <=>
           k \in freedMsgs \/ (refCount[k] - 1 =< 0 /\ msgState[k] \in {"ready", "dead"})
      /\ UNCHANGED <<inbox, msgState, rcpt>>
  BY DestroyEffect
<1>2. k # None /\ msg'[w] = None /\ \A x \in Worker \ {w} : msg'[x] = msg[x]
  BY ProcessAssumption DEF TypeOK, ThreadTypeOK
<1>3. \A m \in Msg : InInbox(m)' <=> InInbox(m)
  BY <1>1 DEF InInbox
<1>4. /\ ~InInbox(k) /\ (\A x \in Thread : ~Appending(x, k))
      /\ \A x \in Worker : msg[x] = k => x = w
  BY DEF HoldInv, OneRecipient
<1>5. msgState[k] \in {"ready", "dead"}
  BY DEF HoldInv, StateRight
<1>6. OneSender'
  BY DEF HoldInv, OneSender, SameHolder
<1>7. \A x \in Worker, m \in Msg : msg'[x] = m => msg[x] = m
  BY <1>2, ProcessAssumption
<1>8. OneRecipient'
  BY <1>1, <1>3, <1>7 DEF HoldInv, OneRecipient, SameHolder
<1>9. ASSUME NEW m \in Msg
      PROVE  /\ SenderHolds(m)' <=> SenderHolds(m)
             /\ RecipientHolds(m)' <=> RecipientHolds(m) /\ m # k
             /\ Unreplied(m)' <=> Unreplied(m)
  BY <1>2, <1>3, <1>4, <1>7, Holders, HoldersNext, ProcessAssumption
     DEF Unreplied, SameHolder, SameReceiver
<1>10. RecipientHolds(k)
  BY Holders
<1>11. StateRight'
  <2>1. ASSUME NEW x \in Worker, NEW m \in Msg, msg'[x] = m, Replied(x)'
        PROVE  msg[x] = m /\ Replied(x)
    BY <1>2, <1>7, <2>1 DEF SameReceiver
  <2> QED
    BY <1>1, <1>5, <1>9, <2>1 DEF HoldInv, StateRight
<1>12. CountRight'
  <2>1. ASSUME NEW m \in Msg \ {k}, msgState[m] # "none"
        PROVE  /\ refCount'[m] = (IF SenderHolds(m)' THEN 1 ELSE 0) + (IF RecipientHolds(m)' THEN 1 ELSE 0)
               /\ m \in freedMsgs' <=> ~SenderHolds(m)' /\ ~RecipientHolds(m)'
    BY <1>1, <1>9, <2>1 DEF HoldInv, CountRight
  <2>2. /\ refCount'[k] = (IF SenderHolds(k)' THEN 1 ELSE 0) + (IF RecipientHolds(k)' THEN 1 ELSE 0)
        /\ k \in freedMsgs' <=> ~SenderHolds(k)' /\ ~RecipientHolds(k)'
    BY <1>1, <1>5, <1>9, <1>10 DEF HoldInv, CountRight
  <2> QED
    BY <1>1, <2>1, <2>2 DEF CountRight
<1> QED
  BY <1>6, <1>8, <1>11, <1>12 DEF HoldInv

(* A Lua state lets go of a message: unlike the recipient it may do so      *)
(* before the reply.                                                        *)
LEMMA HoldDrop ==
  ASSUME TypeOK, HoldInv, NEW k \in Msg, msgRef[k] # None, drop_message_ref(k),
         \A x \in Thread : SameHolder(x), \A x \in Worker : SameReceiver(x)
  PROVE  HoldInv'
<1>0. mailbox_message_destroy(k) /\ msgRef' = [msgRef EXCEPT ![k] = None]
  BY DEF drop_message_ref
<1>1. /\ refCount'[k] = refCount[k] - 1
      /\ \A m \in Msg \ {k} : refCount'[m] = refCount[m] /\ (m \in freedMsgs' <=> m \in freedMsgs)
      /\ k \in freedMsgs' <=>
           k \in freedMsgs \/ (refCount[k] - 1 =< 0 /\ msgState[k] \in {"ready", "dead"})
      /\ UNCHANGED <<inbox, msgState, rcpt>>
  BY <1>0, DestroyEffect
<1>2. msgRef'[k] = None /\ \A m \in Msg \ {k} : msgRef'[m] = msgRef[m]
  BY <1>0 DEF TypeOK, RefTypeOK
<1>3. \A m \in Msg : InInbox(m)' <=> InInbox(m)
  BY <1>1 DEF InInbox
<1>4. \A x \in Thread : ~Sending(x, k)
  BY DEF HoldInv, OneSender
<1>5. SenderHolds(k) /\ msgState[k] # "none"
  BY Holders DEF HoldInv, StateRight
<1>6. OneSender'
  BY <1>2 DEF HoldInv, OneSender, SameHolder
<1>7. OneRecipient'
  BY <1>1, <1>3 DEF HoldInv, OneRecipient, SameHolder, SameReceiver
<1>8. ASSUME NEW m \in Msg
      PROVE  /\ SenderHolds(m)' <=> SenderHolds(m) /\ m # k
             /\ RecipientHolds(m)' <=> RecipientHolds(m)
             /\ Unreplied(m)' <=> Unreplied(m)
  BY <1>2, <1>3, <1>4, Holders, HoldersNext DEF Unreplied, SameHolder, SameReceiver
<1>9. StateRight'
  BY <1>1, <1>5, <1>8 DEF HoldInv, StateRight, SameReceiver
<1>10. ~RecipientHolds(k) => msgState[k] \in {"ready", "dead"}
  <2>1. Unreplied(k) => RecipientHolds(k)
    BY Holders DEF Unreplied
  <2>2. msgState[k] \in {"none", "waiting", "ready", "dead"}
    BY DEF TypeOK, MailboxTypeOK
  <2> QED
    BY <1>5, <2>1, <2>2 DEF HoldInv, StateRight
<1>11. CountRight'
  <2>1. ASSUME NEW m \in Msg \ {k}, msgState[m] # "none"
        PROVE  /\ refCount'[m] = (IF SenderHolds(m)' THEN 1 ELSE 0) + (IF RecipientHolds(m)' THEN 1 ELSE 0)
               /\ m \in freedMsgs' <=> ~SenderHolds(m)' /\ ~RecipientHolds(m)'
    BY <1>1, <1>8, <2>1 DEF HoldInv, CountRight
  <2>2. /\ refCount'[k] = (IF SenderHolds(k)' THEN 1 ELSE 0) + (IF RecipientHolds(k)' THEN 1 ELSE 0)
        /\ k \in freedMsgs' <=> ~SenderHolds(k)' /\ ~RecipientHolds(k)'
    BY <1>1, <1>5, <1>8, <1>10 DEF HoldInv, CountRight
  <2> QED
    BY <1>1, <2>1, <2>2 DEF CountRight
<1> QED
  BY <1>6, <1>7, <1>9, <1>11 DEF HoldInv

-----------------------------------------------------------------------------
(* A worker holds a message while it serves it and at no other time.        *)

(* A woken thread keeps its locals. *)
LEMMA BystanderLocal ==
  ASSUME NEW x \in Worker, Bystander(x), LocalRight(x)
  PROVE  LocalRight(x)'
BY DEF Bystander, LocalRight, HoldPC, CallPC

(* The locals of worker stay right in its own steps ...                     *)
LEMMA WorkerLocal ==
  ASSUME TypeOK, NEW w \in Worker, LocalRight(w), WorkerStep(w) \/ LuaReturns(w) \/ PopFails(w)
  PROVE  LocalRight(w)'
<1> USE ProcessAssumption DEF Thread, localVars, taskVars, At, Goto, TypeOK, ThreadTypeOK,
        LocalRight, HoldPC, CallPC
<1>1. CASE pop_task(w) \/ WaitForJob(w)
  BY <1>1 DEF pop_task, WaitForJob
<1>2. CASE StartTask(w)
  <2>1. pc[w] = "start" /\ UNCHANGED msg
    BY <1>2 DEF StartTask
  <2>2. msg[w] = None
    BY <2>1
  <2>3. pc'[w] = "receive" => serving'[w]
    BY <1>2 DEF StartTask
  <2>4. pc'[w] \notin CallPC
    BY <1>2 DEF StartTask
  <2> QED
    BY <2>1, <2>2, <2>3, <2>4
<1>3. CASE Receive(w)
  <2>1. pc[w] = "receive" /\ pc'[w] = "lua" /\ UNCHANGED serving
    BY <1>3 DEF Receive
  <2> QED
    BY <2>1
<1>4. CASE SetContent(w)
  BY <1>4 DEF SetContent
<1>5. CASE DestroyMessage(w) \/ SetIdle(w) \/ SetLastMessage(w) \/ SetDead(w)
  BY <1>5 DEF DestroyMessage, SetIdle, SetLastMessage, SetDead
<1>6. CASE Peek(w)
  BY <1>6 DEF Peek
<1>7. CASE DrainNext(w) \/ DrainDestroy(w) \/ DrainEnd(w)
  BY <1>7 DEF DrainNext, DrainDestroy, DrainEnd
<1>8. CASE DestroyMailbox(w) \/ CloseRefs(w) \/ FreeTask(w)
  BY <1>8 DEF DestroyMailbox, CloseRefs, FreeTask
<1>9. CASE LuaReturns(w)
  <2>1. pc[w] = "lua" /\ UNCHANGED <<msg, serving>>
    BY <1>9 DEF LuaReturns
  <2>2. IF serving[w] THEN pc'[w] = "set_content" ELSE pc'[w] = "decide"
    BY <1>9 DEF LuaReturns
  <2> QED
    BY <2>1, <2>2
<1>10. CASE PopFails(w)
  BY <1>10 DEF PopFails
<1>11. CASE Reply(w) \/ DrainReply(w)
  <2>1. UNCHANGED <<msg, serving>>
    BY <1>11 DEF Reply, DrainReply
  <2> QED
    BY <1>11, <2>1, ReplyMoves, DrainReplyMoves
<1>12. CASE Renotify(w)
  <2>1. UNCHANGED <<msg, serving>>
    BY <1>12 DEF Renotify
  <2> QED
    BY <1>12, <2>1, RenotifyMoves
<1> QED
  BY <1>1, <1>2, <1>3, <1>4, <1>5, <1>6, <1>7, <1>8, <1>9, <1>10, <1>11, <1>12 DEF WorkerStep

(* ... and in the library calls of the code that it runs ...                *)
LEMMA CallerLocal ==
  ASSUME TypeOK, NEW w \in Worker, LocalRight(w), CallStep(w) \/ LuaStep(w) \/ SpuriousWakeup(w)
  PROVE  LocalRight(w)'
<1> USE ProcessAssumption DEF Thread, localVars, taskVars, At, Goto, TypeOK, ThreadTypeOK,
        LocalRight, HoldPC, CallPC
<1>1. CASE SendAppend(w) \/ GetWait(w) \/ GetReturns(w) \/ SpuriousWakeup(w)
  BY <1>1 DEF SendAppend, GetWait, GetReturns, SpuriousWakeup
<1>2. CASE SendNotify(w)
  <2>1. UNCHANGED <<msg, serving>>
    BY <1>2 DEF SendNotify
  <2> QED
    BY <1>2, <2>1, SendNotifyMoves
<1>3. ASSUME NEW t \in Task, Spawn(w, t) PROVE LocalRight(w)'
  <2>1. UNCHANGED <<msg, serving>>
    BY <1>3 DEF Spawn
  <2> QED
    BY <1>3, <2>1, SpawnMoves
<1>4. ASSUME NEW t \in Task, SpawnFails(w, t) \/ CollectMailboxRef(w, t) PROVE LocalRight(w)'
  BY <1>4 DEF SpawnFails, CollectMailboxRef
<1>5. ASSUME NEW new \in SUBSET Worker, ExtendPool(w, new) PROVE LocalRight(w)'
  BY <1>5 DEF ExtendPool
<1>6. ASSUME NEW b \in Task, NEW m \in Msg, SendStart(w, b, m) PROVE LocalRight(w)'
  BY <1>6 DEF SendStart
<1>7. ASSUME NEW m \in Msg, GetStart(w, m) \/ CollectMessageRef(w, m) PROVE LocalRight(w)'
  BY <1>7 DEF GetStart, CollectMessageRef
<1> QED
  BY <1>1, <1>2, <1>3, <1>4, <1>5, <1>6, <1>7 DEF CallStep, LuaStep

(* ... and so in every step. *)
LEMMA LocalsStep == TypeOK /\ LocalsRight /\ [Next]_vars => LocalsRight'
<1> SUFFICES ASSUME TypeOK, LocalsRight, [Next]_vars PROVE LocalsRight'
  OBVIOUS
<1>1. ASSUME NEW w \in Worker, WorkerStep(w) \/ LuaReturns(w) \/ PopFails(w) PROVE LocalsRight'
  BY <1>1, WorkerAlone, WorkerLocal, BystanderLocal DEF LocalsRight, Thread
<1>2. ASSUME NEW th \in Thread, CallStep(th) \/ LuaStep(th) \/ SpuriousWakeup(th)
      PROVE  LocalsRight'
  BY <1>2, CallerAlone, CallerLocal, BystanderLocal DEF LocalsRight, Thread
<1>3. CASE UNCHANGED vars
  BY <1>3 DEF vars, localVars, LocalsRight, LocalRight
<1> QED
  BY <1>1, <1>2, <1>3 DEF Next

(* Initially there are no messages.                                         *)
LEMMA LocalsInit == Init => LocalsRight
BY ProcessAssumption DEF Init, ProcessInit, LocalsRight, LocalRight, Thread, CallPC, HoldPC

-----------------------------------------------------------------------------
(* Every step keeps account of the holders. *)

(* Before the first send there is no message. *)
LEMMA HoldInit == Init => HoldInv
<1> SUFFICES ASSUME Init PROVE HoldInv
  OBVIOUS
<1>1. /\ \A m \in Msg : msgState[m] = "none" /\ msgRef[m] = None /\ m \notin freedMsgs
      /\ \A b \in Task : inbox[b] = <<>>
      /\ \A w \in Worker : msg[w] = None
      /\ \A th \in Thread : pc[th] \notin {"append", "notify"}
  BY DEF Init, MailboxInit, ProcessInit
<1>2. \A b \in Task : DOMAIN inbox[b] = {}
  <2>1. <<>> \in Seq(Msg) /\ Len(<<>>) = 0
    BY EmptySeq
  <2>2. DOMAIN <<>> = {}
    BY <2>1, LenProperties
  <2> QED
    BY <1>1, <2>2
<1>3. \A m \in Msg : ~InInbox(m)
  BY <1>2 DEF InInbox, Occurs
<1>4. \A m \in Msg, w \in Worker : msg[w] # m
  BY <1>1, ProcessAssumption
<1>5. \A m \in Msg, th \in Thread : ~Sending(th, m) /\ ~Appending(th, m)
  BY <1>1 DEF Sending, Appending
<1>6. OneSender
  BY <1>5 DEF OneSender
<1>7. OneRecipient
  BY <1>2, <1>4, <1>5 DEF OneRecipient, Distinct, Occurs
<1>8. StateRight
  BY <1>1, <1>3, <1>4, <1>5, Holders DEF StateRight, Unreplied
<1>9. CountRight
  BY <1>1 DEF CountRight
<1> QED
  BY <1>6, <1>7, <1>8, <1>9 DEF HoldInv

(* The steps of workers that concern no message.                            *)
LEMMA WorkerQuiet ==
  ASSUME TypeOK, HoldInv, NEW w \in Worker, WorkerStep(w) \/ LuaReturns(w) \/ PopFails(w),
         UNCHANGED <<inbox, msgState, refCount, rcpt, freedMsgs, msgRef, arg, msg>>,
         pc[w] \notin {"append", "notify", "unref", "drain_unref"},
         pc'[w] \notin {"append", "notify", "unref", "drain_unref"}
  PROVE  HoldInv'
<1>1. \A x \in Thread \ {w} : SameHolder(x) /\ (x \in Worker => SameReceiver(x))
  BY WorkerAlone, BystanderHolds
<1>2. SameHolder(w) /\ SameReceiver(w)
  BY DEF SameHolder, SameReceiver, Sending, Appending, Replied
<1> QED
  BY <1>1, <1>2, HoldQuiet DEF Thread

(* And those of callers.                                                    *)
LEMMA CallerQuiet ==
  ASSUME TypeOK, HoldInv, NEW th \in Thread, CallStep(th) \/ LuaStep(th) \/ SpuriousWakeup(th),
         UNCHANGED <<inbox, msgState, refCount, rcpt, freedMsgs, msgRef, msg>>,
         pc[th] \notin {"append", "notify", "unref", "drain_unref"},
         pc'[th] \notin {"append", "notify", "unref", "drain_unref"}
  PROVE  HoldInv'
<1>1. \A x \in Thread \ {th} : SameHolder(x) /\ (x \in Worker => SameReceiver(x))
  BY CallerAlone, BystanderHolds
<1>2. SameHolder(th) /\ SameReceiver(th)
  BY DEF SameHolder, SameReceiver, Sending, Appending, Replied
<1> QED
  BY <1>1, <1>2, HoldQuiet DEF Thread

(* The steps of worker and task_destroy keep who holds a message right ...  *)
LEMMA WorkerHold ==
  ASSUME TypeOK, LocalsRight, HoldInv, NEW w \in Worker,
         WorkerStep(w) \/ LuaReturns(w) \/ PopFails(w)
  PROVE  HoldInv'
<1>0. LocalRight(w)
  BY DEF LocalsRight
<1> USE ProcessAssumption DEF Thread, localVars, taskVars, refVars, mailboxVars, mboxVars, msgVars,
        At, Goto, TypeOK, ThreadTypeOK
<1>1. CASE pop_task(w) \/ WaitForJob(w) \/ StartTask(w)
  BY <1>1, WorkerQuiet DEF pop_task, WaitForJob, StartTask
<1>2. CASE Receive(w)
  <2>1. pc[w] = "receive" /\ pc'[w] = "lua" /\ UNCHANGED <<arg, msgRef>>
    BY <1>2 DEF Receive
  <2>2. CASE UNCHANGED <<msg, mailboxVars>>
    BY <2>1, <2>2, WorkerQuiet
  <2>3. CASE /\ mailbox_peek(cur[w]) /\ mailbox_receive_content(cur[w])
             /\ msg' = [msg EXCEPT ![w] = Head(inbox[cur[w]])]
    <3>1. cur[w] \in Task
      BY <2>1, BusyHasTask DEF IdlePC
    <3>2. msg[w] = None
      BY <1>0, <2>1 DEF LocalRight, HoldPC, CallPC
    <3>3. /\ inbox[cur[w]] # <<>> /\ inbox' = [inbox EXCEPT ![cur[w]] = Tail(@)]
          /\ UNCHANGED <<msgState, refCount, rcpt, freedMsgs>>
      BY <2>3 DEF mailbox_peek, mailbox_receive_content
    <3>4. SameHolder(w) /\ ~Replied(w) /\ ~Replied(w)'
      BY <2>1 DEF SameHolder, Sending, Appending, Replied
    <3>5. \A x \in Thread \ {w} : SameHolder(x) /\ (x \in Worker => SameReceiver(x))
      BY WorkerAlone, BystanderHolds
    <3> QED
      BY <2>1, <2>3, <3>1, <3>2, <3>3, <3>4, <3>5, HoldTake
  <2> QED
    BY <1>2, <2>2, <2>3 DEF Receive
<1>3. CASE SetContent(w)
  <2>1. CASE msg[w] = None
    BY <1>3, <2>1, WorkerQuiet DEF SetContent
  <2>2. CASE msg[w] # None
    BY <1>3, <2>2, WorkerQuiet DEF SetContent, mailbox_message_content_set
  <2> QED
    BY <2>1, <2>2
<1>4. CASE SetIdle(w) \/ SetLastMessage(w) \/ SetDead(w)
  BY <1>4, WorkerQuiet DEF SetIdle, SetLastMessage, SetDead, mailbox_set_last_message
<1>5. CASE DestroyMessage(w) \/ DrainDestroy(w)
  <2>1. /\ pc[w] \in {"unref", "drain_unref"} /\ pc'[w] \notin {"unref", "drain_unref"} \union CallPC
        /\ mailbox_message_destroy(msg[w]) /\ msg' = [msg EXCEPT ![w] = None]
        /\ UNCHANGED <<msgRef, arg>>
    BY <1>5 DEF DestroyMessage, DrainDestroy, CallPC
  <2>2. msg[w] \in Msg
    BY <2>1 DEF ReplyPC
  <2>3. SameHolder(w) /\ Replied(w) /\ ~Replied(w)'
    BY <2>1 DEF SameHolder, Sending, Appending, Replied, CallPC
  <2>4. \A x \in Thread \ {w} : SameHolder(x) /\ (x \in Worker => SameReceiver(x))
    BY WorkerAlone, BystanderHolds
  <2> QED
    BY <2>1, <2>2, <2>3, <2>4, HoldLetGo
<1>6. CASE Reply(w) \/ DrainReply(w)
  <2>1. /\ pc[w] \in {"reply", "drain_reply"} /\ pc'[w] \in {"unref", "drain_unref"}
    BY <1>6, ReplyMoves, DrainReplyMoves
  <2>2. \E is_dead \in BOOLEAN : mailbox_message_reply(msg[w], is_dead)
    BY <1>6 DEF Reply, DrainReply
  <2>3. UNCHANGED <<msgRef, msg, arg>>
    BY <1>6 DEF Reply, DrainReply
  <2>4. msg[w] \in Msg
    BY <2>1 DEF ReplyPC
  <2>5. SameHolder(w) /\ ~Replied(w) /\ Replied(w)'
    BY <2>1, <2>3 DEF SameHolder, Sending, Appending, Replied
  <2>6. \A x \in Thread \ {w} : SameHolder(x) /\ (x \in Worker => SameReceiver(x))
    BY WorkerAlone, BystanderHolds
  <2> QED
    BY <2>2, <2>3, <2>4, <2>5, <2>6, HoldReply
<1>7. CASE Peek(w)
  BY <1>7, WorkerQuiet DEF Peek
<1>8. CASE Renotify(w)
  <2>1. UNCHANGED <<inbox, msgState, refCount, rcpt, freedMsgs, msgRef, arg, msg>>
    BY <1>8 DEF Renotify
  <2> QED
    BY <1>8, <2>1, RenotifyMoves, WorkerQuiet
<1>9. CASE DrainNext(w)
  <2>1. /\ pc[w] = "drain" /\ pc'[w] = "drain_reply" /\ UNCHANGED <<arg, msgRef>>
        /\ inbox[cur[w]] # <<>> /\ inbox' = [inbox EXCEPT ![cur[w]] = Tail(@)]
        /\ msg' = [msg EXCEPT ![w] = Head(inbox[cur[w]])]
        /\ UNCHANGED <<msgState, refCount, rcpt, freedMsgs>>
    BY <1>9 DEF DrainNext, mailbox_peek, mailbox_receive
  <2>2. cur[w] \in Task
    BY <2>1, BusyHasTask DEF IdlePC
  <2>3. msg[w] = None
    BY <1>0, <2>1 DEF LocalRight, HoldPC, CallPC
  <2>4. SameHolder(w) /\ ~Replied(w) /\ ~Replied(w)'
    BY <2>1 DEF SameHolder, Sending, Appending, Replied
  <2>5. \A x \in Thread \ {w} : SameHolder(x) /\ (x \in Worker => SameReceiver(x))
    BY WorkerAlone, BystanderHolds
  <2> QED
    BY <2>1, <2>2, <2>3, <2>4, <2>5, HoldTake
<1>10. CASE DrainEnd(w) \/ FreeTask(w)
  BY <1>10, WorkerQuiet DEF DrainEnd, FreeTask
<1>11. CASE DestroyMailbox(w)
  BY <1>11, WorkerQuiet DEF DestroyMailbox, mailbox_destroy
<1>12. CASE CloseRefs(w)
  <2>1. pc[w] = "close" /\ UNCHANGED <<pc, arg, msg>> /\ cur[w] \in Task
    BY <1>12, BusyHasTask DEF CloseRefs, IdlePC
  <2>2. ASSUME NEW b \in Task, drop_mailbox_ref(b) PROVE HoldInv'
    BY <2>1, <2>2, <1>12, WorkerQuiet DEF drop_mailbox_ref, mailbox_destroy
  <2>3. ASSUME NEW m \in Msg, msgRef[m] = cur[w], drop_message_ref(m) PROVE HoldInv'
    <3>1. msgRef[m] # None
      BY <2>1, <2>3
    <3>2. \A x \in Thread : SameHolder(x)
      BY <2>1 DEF SameHolder, Sending, Appending
    <3>3. \A x \in Worker : SameReceiver(x)
      BY <2>1 DEF SameReceiver, Replied
    <3> QED
      BY <2>3, <3>1, <3>2, <3>3, HoldDrop
  <2> QED
    BY <1>12, <2>2, <2>3 DEF CloseRefs
<1>13. CASE LuaReturns(w) \/ PopFails(w)
  BY <1>13, WorkerQuiet DEF LuaReturns, PopFails
<1> QED
  BY <1>1, <1>2, <1>3, <1>4, <1>5, <1>6, <1>7, <1>8, <1>9, <1>10, <1>11, <1>12, <1>13
     DEF WorkerStep

(* ... those of Lua code and its calls do ...                               *)
LEMMA CallerHold ==
  ASSUME TypeOK, HoldInv, NEW th \in Thread, CallStep(th) \/ LuaStep(th) \/ SpuriousWakeup(th)
  PROVE  HoldInv'
<1> USE ProcessAssumption DEF Thread, localVars, taskVars, refVars, mailboxVars, mboxVars, msgVars,
        At, Goto, TypeOK, ThreadTypeOK
<1>1. CASE SendAppend(th)
  BY <1>1, HoldSendAppend
<1>2. CASE SendNotify(th)
  BY <1>2, HoldSendNotify
<1>3. CASE GetWait(th) \/ GetReturns(th) \/ SpuriousWakeup(th)
  BY <1>3, CallerQuiet DEF GetWait, GetReturns, SpuriousWakeup
<1>4. ASSUME NEW t \in Task, Spawn(th, t) PROVE HoldInv'
  <2>1. UNCHANGED <<inbox, msgState, refCount, rcpt, freedMsgs, msgRef, msg>>
    BY <1>4 DEF Spawn, mailbox_init
  <2> QED
    BY <1>4, <2>1, SpawnMoves, CallerQuiet
<1>5. ASSUME NEW t \in Task, SpawnFails(th, t) PROVE HoldInv'
  BY <1>5, CallerQuiet DEF SpawnFails, mailbox_init
<1>6. ASSUME NEW t \in Task, CollectMailboxRef(th, t) PROVE HoldInv'
  BY <1>6, CallerQuiet DEF CollectMailboxRef, drop_mailbox_ref, mailbox_destroy
<1>7. ASSUME NEW new \in SUBSET Worker, ExtendPool(th, new) PROVE HoldInv'
  BY <1>7, CallerQuiet DEF ExtendPool
<1>8. ASSUME NEW b \in Task, NEW m \in Msg, SendStart(th, b, m) PROVE HoldInv'
  BY <1>8, HoldSendStart
<1>9. ASSUME NEW m \in Msg, GetStart(th, m) PROVE HoldInv'
  BY <1>9, CallerQuiet DEF GetStart
<1>10. ASSUME NEW m \in Msg, CollectMessageRef(th, m) PROVE HoldInv'
  <2>1. /\ pc[th] = "lua" /\ UNCHANGED <<pc, arg, msg>>
        /\ msgRef[m] = StateOf(th) /\ drop_message_ref(m)
    BY <1>10 DEF CollectMessageRef
  <2>2. msgRef[m] # None
    BY <2>1, BusyHasTask DEF StateOf, IdlePC
  <2>3. \A x \in Thread : SameHolder(x)
    BY <2>1 DEF SameHolder, Sending, Appending
  <2>4. \A x \in Worker : SameReceiver(x)
    BY <2>1 DEF SameReceiver, Replied
  <2> QED
    BY <2>1, <2>2, <2>3, <2>4, HoldDrop
<1> QED
  BY <1>1, <1>2, <1>3, <1>4, <1>5, <1>6, <1>7, <1>8, <1>9, <1>10 DEF CallStep, LuaStep

(* ... and so does every step. *)
LEMMA HoldStep == TypeOK /\ LocalsRight /\ HoldInv /\ [Next]_vars => HoldInv'
<1> SUFFICES ASSUME TypeOK, LocalsRight, HoldInv, [Next]_vars PROVE HoldInv'
  OBVIOUS
<1>1. CASE UNCHANGED vars
  <2>1. UNCHANGED <<inbox, msgState, refCount, rcpt, freedMsgs, msgRef, msg, pc, arg>>
    BY <1>1 DEF vars, mailboxVars, mboxVars, msgVars, localVars, refVars
  <2>2. \A x \in Thread : SameHolder(x)
    BY <2>1 DEF SameHolder, Sending, Appending
  <2>3. \A w \in Worker : SameReceiver(w)
    BY <2>1 DEF SameReceiver, Replied
  <2> QED
    BY <2>1, <2>2, <2>3, HoldQuiet
<1> QED
  BY <1>1, WorkerHold, CallerHold DEF Next

-----------------------------------------------------------------------------
(* Answers. *)

(* Two threads that are in the middle of something run different Lua states. *)
LEMMA SoleThread ==
  ASSUME TypeOK, OneRunner, NEW x \in Thread, NEW y \in Thread,
         pc[x] \notin IdlePC \union LeavingPC, pc[y] \notin IdlePC \union LeavingPC,
         StateOf(x) = StateOf(y)
  PROVE  x = y
<1>1. ASSUME NEW w \in Worker, pc[w] \notin IdlePC \union LeavingPC
      PROVE  cur[w] \in Task /\ Running(w, cur[w]) /\ w # Root /\ StateOf(w) = cur[w]
  <2>1. cur[w] \in Task
    BY <1>1, BusyHasTask
  <2> QED
    BY <1>1, <2>1, ProcessAssumption DEF Running, StateOf
<1>2. StateOf(Root) = Root /\ Root \notin Task
  BY ProcessAssumption DEF StateOf
<1>3. CASE x = Root \/ y = Root
  BY <1>1, <1>2, <1>3 DEF Thread
<1>4. CASE x # Root /\ y # Root
  <2>1. x \in Worker /\ y \in Worker
    BY <1>4 DEF Thread
  <2> QED
    BY <1>1, <2>1 DEF OneRunner
<1> QED
  BY <1>3, <1>4

(* The reply in a message stays in place.                                   *)
LEMMA AnswerQuiet ==
  ASSUME AnswerStored, UNCHANGED <<content, msgState>>,
         \A w \in Worker : pc'[w] = "reply" => pc[w] = "reply" /\ msg'[w] = msg[w]
  PROVE  AnswerStored'
BY DEF AnswerStored, AnswerComplete

(* A woken thread does not come to a reply. *)
LEMMA BystanderNotReplying ==
  ASSUME NEW w \in Worker, Bystander(w), pc'[w] = "reply"
  PROVE  pc[w] = "reply" /\ msg'[w] = msg[w]
BY DEF Bystander

(* A worker answers only after mailbox_message_content_set, and takes a     *)
(* message's content away only while the message is open.                  *)
LEMMA WorkerAnswer ==
  ASSUME TypeOK, HoldInv, AnswerStored, NEW w \in Worker,
         WorkerStep(w) \/ LuaReturns(w) \/ PopFails(w)
  PROVE  AnswerStored'
<1>0. \A x \in Worker \ {w} : pc'[x] = "reply" => pc[x] = "reply" /\ msg'[x] = msg[x]
  BY WorkerAlone, BystanderNotReplying DEF Thread
<1> USE ProcessAssumption DEF Thread, localVars, taskVars, refVars, mailboxVars, mboxVars, msgVars,
        At, Goto, TypeOK, ThreadTypeOK
<1>q. ASSUME UNCHANGED <<content, msgState>>, pc'[w] # "reply" PROVE AnswerStored'
  BY <1>0, <1>q, AnswerQuiet
<1>1. CASE pop_task(w) \/ WaitForJob(w) \/ SetIdle(w) \/ SetDead(w)
  BY <1>1, <1>q DEF pop_task, WaitForJob, SetIdle, SetDead
<1>2. CASE StartTask(w)
  BY <1>2, <1>q DEF StartTask
<1>3. CASE Receive(w)
  <2>1. pc[w] = "receive" /\ pc'[w] = "lua" /\ UNCHANGED msgState
    BY <1>3 DEF Receive, mailbox_receive_content
  <2>2. CASE UNCHANGED content
    BY <2>1, <2>2, <1>q
  <2>3. CASE /\ mailbox_peek(cur[w])
             /\ content' = [content EXCEPT ![Head(inbox[cur[w]])] = "null"]
    <3> DEFINE k == Head(inbox[cur[w]])
    <3>1. cur[w] \in Task /\ inbox[cur[w]] \in Seq(Msg) /\ inbox[cur[w]] # <<>>
      BY <2>1, <2>3, BusyHasTask DEF IdlePC, MailboxTypeOK, mailbox_peek
    <3>2. k \in Msg /\ InInbox(k)
      <4>1. Distinct(inbox[cur[w]])
        BY <3>1 DEF HoldInv, OneRecipient
      <4> QED
        BY <3>1, <4>1, QueueTail DEF InInbox
    <3> HIDE DEF k
    <3>3. msgState[k] = "waiting"
      BY <3>2 DEF HoldInv, StateRight, Unreplied
    <3>4. \A m \in Msg \ {k} : content'[m] = content[m]
      BY <2>3 DEF MailboxTypeOK, k
    <3>5. \A x \in Worker : msg[x] # k
      BY <3>2 DEF HoldInv, OneRecipient
    <3>6. AnswerComplete'
      BY <2>1, <3>3, <3>4 DEF AnswerStored, AnswerComplete
    <3>7. ASSUME NEW x \in Worker, pc'[x] = "reply" PROVE content'[msg'[x]] = "reply"
      <4>1. x # w /\ pc[x] = "reply" /\ msg'[x] = msg[x]
        BY <1>0, <2>1, <3>7
      <4>2. msg[x] \in Msg
        BY <4>1 DEF ReplyPC
      <4> QED
        BY <3>4, <3>5, <4>1, <4>2 DEF AnswerStored
    <3> QED
      BY <3>6, <3>7 DEF AnswerStored
  <2> QED
    BY <1>3, <2>2, <2>3 DEF Receive, mailbox_receive_content
<1>4. CASE SetContent(w)
  <2>1. CASE msg[w] = None
    BY <1>0, <1>4, <2>1, <1>q DEF SetContent
  <2>2. CASE msg[w] # None
    <3>1. /\ msg[w] \in Msg /\ content' = [content EXCEPT ![msg[w]] = "reply"]
          /\ UNCHANGED <<msgState, msg>>
      BY <1>4, <2>2 DEF SetContent, mailbox_message_content_set
    <3>2. /\ content'[msg[w]] = "reply"
          /\ \A m \in Msg : content'[m] = content[m] \/ content'[m] = "reply"
      BY <3>1 DEF MailboxTypeOK
    <3>3. AnswerComplete'
      BY <3>1, <3>2 DEF AnswerStored, AnswerComplete
    <3>4. ASSUME NEW x \in Worker, pc'[x] = "reply" PROVE content'[msg'[x]] = "reply"
      <4>1. x # w => pc[x] = "reply" /\ msg[x] \in Msg /\ content[msg[x]] = "reply"
        BY <1>0, <3>4 DEF ReplyPC, AnswerStored
      <4> QED
        BY <3>1, <3>2, <4>1
    <3> QED
      BY <3>3, <3>4 DEF AnswerStored
  <2> QED
    BY <2>1, <2>2
<1>5. CASE Reply(w)
  <2>1. /\ pc[w] = "reply" /\ pc'[w] = "unref" /\ msg[w] \in Msg
        /\ msgState' = [msgState EXCEPT ![msg[w]] = "ready"]
        /\ UNCHANGED <<content, msg>>
    <3>1. pc[w] = "reply" /\ pc'[w] = "unref"
      BY <1>5, ReplyMoves
    <3>2. msgState' = [msgState EXCEPT ![msg[w]] = "ready"] /\ UNCHANGED <<content, msg>>
      BY <1>5 DEF Reply, mailbox_message_reply
    <3> QED
      BY <3>1, <3>2 DEF ReplyPC
  <2>2. content[msg[w]] = "reply"
    BY <2>1 DEF AnswerStored
  <2>3. AnswerComplete'
    BY <2>1, <2>2 DEF AnswerStored, AnswerComplete, MailboxTypeOK
  <2>4. \A x \in Worker : pc'[x] = "reply" => content'[msg'[x]] = "reply"
    BY <1>0, <2>1 DEF AnswerStored
  <2> QED
    BY <2>3, <2>4 DEF AnswerStored
<1>6. CASE DrainReply(w)
  <2>1. pc'[w] = "drain_unref"
    BY <1>6, DrainReplyMoves
  <2>2. /\ msgState' = [msgState EXCEPT ![msg[w]] = "dead"]
        /\ UNCHANGED <<content, msg>>
    BY <1>6 DEF DrainReply, mailbox_message_reply
  <2>3. AnswerComplete'
    BY <2>2 DEF AnswerStored, AnswerComplete, MailboxTypeOK
  <2>4. \A x \in Worker : pc'[x] = "reply" => content'[msg'[x]] = "reply"
    BY <1>0, <2>1, <2>2 DEF AnswerStored
  <2> QED
    BY <2>3, <2>4 DEF AnswerStored
<1>7. CASE DestroyMessage(w) \/ DrainDestroy(w)
  BY <1>7, <1>q DEF DestroyMessage, DrainDestroy, mailbox_message_destroy
<1>8. CASE Peek(w)
  <2>1. UNCHANGED <<content, msgState>> /\ pc'[w] # "reply"
    BY <1>8 DEF Peek
  <2> QED
    BY <2>1, <1>q
<1>9. CASE Renotify(w)
  <2>1. UNCHANGED <<content, msgState>>
    BY <1>9 DEF Renotify
  <2> QED
    BY <1>9, <2>1, <1>q, RenotifyMoves
<1>10. CASE SetLastMessage(w) \/ DrainNext(w) \/ DrainEnd(w)
  BY <1>10, <1>q DEF SetLastMessage, mailbox_set_last_message, DrainNext, mailbox_receive, DrainEnd
<1>11. CASE DestroyMailbox(w) \/ FreeTask(w)
  BY <1>11, <1>q DEF DestroyMailbox, mailbox_destroy, FreeTask
<1>12. CASE CloseRefs(w)
  <2>1. UNCHANGED <<content, msgState>> /\ pc'[w] # "reply"
    BY <1>12 DEF CloseRefs, drop_mailbox_ref, drop_message_ref, mailbox_destroy,
       mailbox_message_destroy
  <2> QED
    BY <2>1, <1>q
<1>13. CASE LuaReturns(w) \/ PopFails(w)
  <2>1. UNCHANGED <<content, msgState>> /\ pc'[w] # "reply"
    BY <1>13 DEF LuaReturns, PopFails
  <2> QED
    BY <2>1, <1>q
<1> QED
  BY <1>1, <1>2, <1>3, <1>4, <1>5, <1>6, <1>7, <1>8, <1>9, <1>10, <1>11, <1>12, <1>13
     DEF WorkerStep

(* Lua code writes only the content of a message that it allocates.         *)
LEMMA CallerAnswer ==
  ASSUME TypeOK, HoldInv, AnswerStored, NEW th \in Thread,
         CallStep(th) \/ LuaStep(th) \/ SpuriousWakeup(th)
  PROVE  AnswerStored'
<1>0. \A x \in Worker \ {th} : pc'[x] = "reply" => pc[x] = "reply" /\ msg'[x] = msg[x]
  BY CallerAlone, BystanderNotReplying DEF Thread
<1> USE ProcessAssumption DEF Thread, localVars, taskVars, refVars, mailboxVars, mboxVars, msgVars,
        At, Goto, TypeOK, ThreadTypeOK
<1>q. ASSUME UNCHANGED <<content, msgState>>, pc'[th] # "reply" PROVE AnswerStored'
  BY <1>0, <1>q, AnswerQuiet
<1>1. CASE SendAppend(th) \/ GetWait(th) \/ GetReturns(th) \/ SpuriousWakeup(th)
  BY <1>1, <1>q DEF SendAppend, mailbox_append, GetWait, GetReturns, SpuriousWakeup
<1>2. CASE SendNotify(th)
  <2>1. UNCHANGED <<content, msgState>>
    BY <1>2 DEF SendNotify
  <2> QED
    BY <1>2, <2>1, <1>q, SendNotifyMoves
<1>3. ASSUME NEW t \in Task, Spawn(th, t) PROVE AnswerStored'
  <2>1. UNCHANGED <<content, msgState>>
    BY <1>3 DEF Spawn, mailbox_init
  <2> QED
    BY <1>3, <2>1, <1>q, SpawnMoves
<1>4. ASSUME NEW t \in Task, SpawnFails(th, t) \/ CollectMailboxRef(th, t) PROVE AnswerStored'
  BY <1>4, <1>q DEF SpawnFails, mailbox_init, CollectMailboxRef, drop_mailbox_ref, mailbox_destroy
<1>5. ASSUME NEW new \in SUBSET Worker, ExtendPool(th, new) PROVE AnswerStored'
  BY <1>5, <1>q DEF ExtendPool
<1>6. ASSUME NEW b \in Task, NEW k \in Msg, SendStart(th, b, k) PROVE AnswerStored'
  <2>1. /\ pc'[th] = "append" /\ msgState[k] = "none" /\ UNCHANGED msg
        /\ msgState' = [msgState EXCEPT ![k] = "waiting"]
        /\ content' = [content EXCEPT ![k] = "request"]
    BY <1>6 DEF SendStart, message_alloc
  <2>2. \A w \in Worker : msg[w] # k
    BY <2>1 DEF HoldInv, StateRight, Unreplied
  <2>3. \A m \in Msg \ {k} : content'[m] = content[m] /\ msgState'[m] = msgState[m]
    BY <2>1 DEF MailboxTypeOK
  <2>4. msgState'[k] = "waiting"
    BY <2>1 DEF MailboxTypeOK
  <2>5. AnswerComplete'
    BY <2>3, <2>4 DEF AnswerStored, AnswerComplete
  <2>6. ASSUME NEW x \in Worker, pc'[x] = "reply" PROVE content'[msg'[x]] = "reply"
    <3>1. pc[x] = "reply" /\ msg'[x] = msg[x]
      BY <1>0, <2>1, <2>6
    <3>2. msg[x] \in Msg
      BY <3>1 DEF ReplyPC
    <3> QED
      BY <2>2, <2>3, <3>1, <3>2 DEF AnswerStored
  <2> QED
    BY <2>5, <2>6 DEF AnswerStored
<1>7. ASSUME NEW m \in Msg, GetStart(th, m) PROVE AnswerStored'
  BY <1>7, <1>q DEF GetStart
<1>8. ASSUME NEW m \in Msg, CollectMessageRef(th, m) PROVE AnswerStored'
  BY <1>8, <1>q DEF CollectMessageRef, drop_message_ref, mailbox_message_destroy
<1> QED
  BY <1>1, <1>2, <1>3, <1>4, <1>5, <1>6, <1>7, <1>8 DEF CallStep, LuaStep

(* So every step keeps the replies in place.                                *)
LEMMA AnswerStep == TypeOK /\ HoldInv /\ AnswerStored /\ [Next]_vars => AnswerStored'
<1>1. ASSUME AnswerStored, UNCHANGED vars PROVE AnswerStored'
  BY <1>1, AnswerQuiet DEF vars, mailboxVars, msgVars, localVars
<1> QED
  BY <1>1, WorkerAnswer, CallerAnswer DEF Next

-----------------------------------------------------------------------------
(* Waiting for the answer. *)

(* Thread x is in get() before and after, for a message that its Lua state  *)
(* keeps hold of.                                                           *)
GetterStays(x) ==
  InGet(x)' => InGet(x) /\ arg'[x] = arg[x] /\ StateOf(x)' = StateOf(x)

(* A woken getter goes on with the same message.                            *)
LEMMA BystanderGets ==
  ASSUME NEW x \in Thread, Bystander(x)
  PROVE  GetterStays(x) /\ (pc'[x] = "get_wait" => pc[x] = "get_wait" /\ arg'[x] = arg[x])
BY DEF Bystander, GetterStays, InGet

(* A thread in get() and the message it waits for.                          *)
LEMMA GetterArg ==
  ASSUME TypeOK, GetterHolds, NEW x \in Thread, InGet(x)
  PROVE  arg[x] \in Msg /\ msgRef[arg[x]] = StateOf(x) /\ StateOf(x) # None
<1>1. arg[x] \in Msg
  BY DEF InGet, TypeOK, ThreadTypeOK, CallPC
<1>2. StateOf(x) # None
  BY BusyHasTask, ProcessAssumption DEF InGet, StateOf, Thread, IdlePC
<1> QED
  BY <1>1, <1>2 DEF GetterHolds

(* The reference is dropped only by the state that holds it, and a state    *)
(* that is in get() runs neither its collector nor lua_close.               *)
LEMMA DropSpares ==
  ASSUME TypeOK, OneRunner, GetterHolds, NEW th \in Thread, NEW k \in Msg,
         pc[th] \in {"lua", "close"}, msgRef[k] = StateOf(th), drop_message_ref(k),
         \A x \in Thread : GetterStays(x)
  PROVE  GetterHolds'
<1>1. \A m \in Msg \ {k} : msgRef'[m] = msgRef[m]
  BY DEF drop_message_ref, TypeOK, RefTypeOK
<1> SUFFICES ASSUME NEW x \in Thread, InGet(x)' PROVE msgRef'[arg'[x]] = StateOf(x)'
  BY DEF GetterHolds
<1>2. InGet(x) /\ arg'[x] = arg[x] /\ StateOf(x)' = StateOf(x)
  BY DEF GetterStays
<1>3. arg[x] \in Msg /\ msgRef[arg[x]] = StateOf(x)
  BY <1>2, GetterArg
<1>4. arg[x] # k
  <2>1. SUFFICES ASSUME arg[x] = k PROVE FALSE
    OBVIOUS
  <2>2. x = th
    BY <1>2, <1>3, <2>1, SoleThread DEF InGet, IdlePC, LeavingPC
  <2> QED
    BY <1>2, <2>2 DEF InGet
<1> QED
  BY <1>1, <1>2, <1>3, <1>4

(* Steps that no message reference is made or dropped in.                   *)
LEMMA GetterQuiet ==
  ASSUME GetterHolds, UNCHANGED msgRef, \A x \in Thread : GetterStays(x)
  PROVE  GetterHolds'
BY DEF GetterHolds, GetterStays

(* The getter's Lua state keeps its reference through every step.          *)
LEMMA GetterStep ==
  ASSUME TypeOK, OneRunner, HoldInv, GetterHolds, [Next]_vars
  PROVE  GetterHolds'
<1> USE ProcessAssumption DEF Thread, localVars, taskVars, refVars, mailboxVars, mboxVars, msgVars,
        At, Goto, TypeOK, ThreadTypeOK
<1>1. ASSUME NEW w \in Worker, WorkerStep(w) \/ LuaReturns(w) \/ PopFails(w) PROVE GetterHolds'
  <2>1. \A x \in Thread \ {w} : GetterStays(x)
    BY <1>1, WorkerAlone, BystanderGets
  <2>2. CASE Reply(w) \/ DrainReply(w) \/ Renotify(w)
    <3>1. pc'[w] \in {"unref", "drain_unref", "pop"}
      BY <2>2, ReplyMoves, DrainReplyMoves, RenotifyMoves
    <3>2. UNCHANGED msgRef
      BY <2>2 DEF Reply, DrainReply, Renotify
    <3>3. GetterStays(w)
      BY <3>1 DEF GetterStays, InGet
    <3> QED
      BY <2>1, <3>2, <3>3, GetterQuiet
  <2>3. CASE CloseRefs(w)
    <3>1. pc[w] = "close" /\ UNCHANGED pc /\ StateOf(w) = cur[w]
      BY <2>3 DEF CloseRefs, StateOf
    <3>2. GetterStays(w)
      BY <3>1 DEF GetterStays, InGet
    <3>3. CASE UNCHANGED msgRef
      BY <2>1, <3>2, <3>3, GetterQuiet
    <3>4. ASSUME NEW m \in Msg, msgRef[m] = cur[w], drop_message_ref(m) PROVE GetterHolds'
      BY <2>1, <3>1, <3>2, <3>4, DropSpares
    <3> QED
      BY <2>3, <3>3, <3>4 DEF CloseRefs, drop_mailbox_ref
  <2>4. CASE UNCHANGED msgRef /\ GetterStays(w)
    BY <2>1, <2>4, GetterQuiet
  <2>5. CASE pop_task(w) \/ WaitForJob(w) \/ SetIdle(w) \/ SetDead(w) \/ StartTask(w)
    BY <2>4, <2>5 DEF pop_task, WaitForJob, SetIdle, SetDead, StartTask, GetterStays, InGet
  <2>6. CASE Receive(w) \/ SetContent(w) \/ DestroyMessage(w) \/ DrainDestroy(w)
    BY <2>4, <2>6 DEF Receive, SetContent, DestroyMessage, DrainDestroy, GetterStays, InGet
  <2>7. CASE Peek(w)
    BY <2>4, <2>7 DEF Peek, GetterStays, InGet
  <2>8. CASE SetLastMessage(w) \/ DrainNext(w) \/ DrainEnd(w) \/ DestroyMailbox(w) \/ FreeTask(w)
    BY <2>4, <2>8 DEF SetLastMessage, DrainNext, DrainEnd, DestroyMailbox, FreeTask, GetterStays,
       InGet
  <2>9. CASE LuaReturns(w) \/ PopFails(w)
    BY <2>4, <2>9 DEF LuaReturns, PopFails, GetterStays, InGet
  <2> QED
    BY <1>1, <2>2, <2>3, <2>5, <2>6, <2>7, <2>8, <2>9 DEF WorkerStep
<1>2. ASSUME NEW th \in Thread, CallStep(th) \/ LuaStep(th) \/ SpuriousWakeup(th)
      PROVE  GetterHolds'
  <2>1. \A x \in Thread \ {th} : GetterStays(x)
    BY <1>2, CallerAlone, BystanderGets
  <2>2. CASE SendNotify(th)
    <3>1. pc[th] = "notify" /\ pc'[th] = "lua" /\ arg[th] \in Msg
      BY <2>2, SendNotifyMoves
    <3>2. Sending(th, arg[th])
      BY <3>1 DEF Sending
    <3>3. msgRef[arg[th]] = None
      BY <3>1, <3>2 DEF HoldInv, OneSender
    <3>4. msgRef' = [msgRef EXCEPT ![arg[th]] = StateOf(th)]
      BY <2>2 DEF SendNotify
    <3>5. \A m \in Msg : msgRef[m] # None => msgRef'[m] = msgRef[m]
      BY <3>1, <3>3, <3>4 DEF RefTypeOK
    <3>6. GetterStays(th)
      BY <3>1 DEF GetterStays, InGet
    <3> SUFFICES ASSUME NEW x \in Thread, InGet(x)' PROVE msgRef'[arg'[x]] = StateOf(x)'
      BY DEF GetterHolds
    <3>7. InGet(x) /\ arg'[x] = arg[x] /\ StateOf(x)' = StateOf(x)
      BY <2>1, <3>6 DEF GetterStays
    <3> QED
      BY <3>5, <3>7, GetterArg
  <2>3. ASSUME NEW m \in Msg, CollectMessageRef(th, m) PROVE GetterHolds'
    <3>1. pc[th] = "lua" /\ UNCHANGED pc /\ msgRef[m] = StateOf(th) /\ drop_message_ref(m)
      BY <2>3 DEF CollectMessageRef
    <3>2. GetterStays(th)
      BY <3>1 DEF GetterStays, InGet
    <3> QED
      BY <2>1, <3>1, <3>2, DropSpares
  <2>4. ASSUME NEW m \in Msg, GetStart(th, m) PROVE GetterHolds'
    <3>1. /\ msgRef[m] = StateOf(th) /\ arg'[th] = m /\ UNCHANGED <<msgRef, cur>>
      BY <2>4 DEF GetStart
    <3>2. StateOf(th)' = StateOf(th)
      BY <3>1 DEF StateOf
    <3>3. \A x \in Thread \ {th} : InGet(x)' => msgRef'[arg'[x]] = StateOf(x)'
      BY <2>1, <3>1 DEF GetterHolds, GetterStays
    <3> QED
      BY <3>1, <3>2, <3>3 DEF GetterHolds
  <2>5. CASE UNCHANGED msgRef /\ GetterStays(th)
    BY <2>1, <2>5, GetterQuiet
  <2>6. CASE SendAppend(th) \/ GetWait(th) \/ GetReturns(th) \/ SpuriousWakeup(th)
    BY <2>5, <2>6 DEF SendAppend, GetWait, GetReturns, SpuriousWakeup, GetterStays, InGet, StateOf
  <2>7. ASSUME NEW t \in Task, Spawn(th, t) PROVE GetterHolds'
    <3>1. pc'[th] = "lua" /\ UNCHANGED msgRef
      <4>1. UNCHANGED msgRef
        BY <2>7 DEF Spawn
      <4> QED
        BY <2>7, <4>1, SpawnMoves
    <3> QED
      BY <2>5, <3>1 DEF GetterStays, InGet
  <2>8. ASSUME NEW t \in Task, SpawnFails(th, t) \/ CollectMailboxRef(th, t) PROVE GetterHolds'
    BY <2>5, <2>8 DEF SpawnFails, CollectMailboxRef, drop_mailbox_ref, GetterStays, InGet
  <2>9. ASSUME NEW new \in SUBSET Worker, ExtendPool(th, new) PROVE GetterHolds'
    BY <2>5, <2>9 DEF ExtendPool, GetterStays, InGet
  <2>10. ASSUME NEW b \in Task, NEW m \in Msg, SendStart(th, b, m) PROVE GetterHolds'
    BY <2>5, <2>10 DEF SendStart, GetterStays, InGet
  <2> QED
    BY <1>2, <2>2, <2>3, <2>4, <2>6, <2>7, <2>8, <2>9, <2>10 DEF CallStep, LuaStep
<1>3. CASE UNCHANGED vars
  <2>1. \A x \in Thread : GetterStays(x)
    BY <1>3 DEF vars, GetterStays, InGet, StateOf
  <2> QED
    BY <1>3, <2>1, GetterQuiet DEF vars
<1> QED
  BY <1>1, <1>2, <1>3 DEF Next

(* A message has one getter, so one signal wakes all that sleep on it.      *)
LEMMA AnswererWakes ==
  ASSUME TypeOK, OneRunner, GetterHolds, NEW w \in Worker, NEW m \in Msg, NEW l \in PC,
         pc[w] # "get_wait", pc' \in signal_ready([pc EXCEPT ![w] = l], m),
         NEW x \in Thread, pc[x] = "get_wait", arg[x] = m
  PROVE  pc'[x] = "get"
<1> DEFINE W == {th \in Thread : pc[th] = "get_wait" /\ arg[th] = m}
<1>1. \A y \in W : y = x
  <2>1. ASSUME NEW y \in W PROVE y = x
    <3>1. InGet(x) /\ InGet(y) /\ y \in Thread /\ arg[y] = m /\ pc[y] = "get_wait"
      BY <2>1 DEF InGet
    <3>2. StateOf(x) = StateOf(y)
      BY <3>1, GetterArg
    <3> QED
      BY <3>1, <3>2, SoleThread DEF IdlePC, LeavingPC
  <2> QED
    BY <2>1
<1>2. W = {x}
  BY <1>1
<1> DEFINE p == [pc EXCEPT ![w] = l]
<1>3. p \in [Thread -> PC]
  BY DEF TypeOK, ThreadTypeOK, PC, Thread
<1>4. pc' \in {[p EXCEPT ![th] = "get"] : th \in W}
  <2>1. W # {}
    BY <1>2
  <2>2. pc' \in Signalled(p, W, "get")
    BY DEF signal_ready
  <2> HIDE DEF p, W
  <2> QED
    BY <2>1, <2>2 DEF Signalled
<1> HIDE DEF p, W
<1>5. pc' = [p EXCEPT ![x] = "get"]
  BY <1>2, <1>4
<1> QED
  BY <1>3, <1>5

(* The reply's signal comes while the getter is either asleep, and then     *)
(* wakes it, or not yet past its check of message.state.                    *)
LEMMA SleepStep ==
  ASSUME TypeOK, OneRunner, HoldInv, GetterHolds, SleepsUntilReply, [Next]_vars
  PROVE  SleepsUntilReply'
<1> USE ProcessAssumption DEF Thread, localVars, taskVars, refVars, mailboxVars, mboxVars, msgVars,
        At, Goto, TypeOK, ThreadTypeOK
<1>q. ASSUME \A m \in Msg : msgState[m] = "waiting" => msgState'[m] = "waiting",
             \A x \in Thread : pc'[x] = "get_wait" => pc[x] = "get_wait" /\ arg'[x] = arg[x]
      PROVE  SleepsUntilReply'
  <2>1. \A x \in Thread : pc[x] = "get_wait" => arg[x] \in Msg
    BY DEF CallPC
  <2> QED
    BY <1>q, <2>1 DEF SleepsUntilReply
<1>1. ASSUME NEW w \in Worker, WorkerStep(w) \/ LuaReturns(w) \/ PopFails(w)
      PROVE  SleepsUntilReply'
  <2>1. \A x \in Thread \ {w} : pc'[x] = "get_wait" => pc[x] = "get_wait" /\ arg'[x] = arg[x]
    BY <1>1, WorkerAlone, BystanderGets
  <2>2. ASSUME NEW l \in PC, l # "get_wait", pc'[w] = l, pc[w] \in {"reply", "drain_reply"},
               pc' \in signal_ready([pc EXCEPT ![w] = l], msg[w]),
               \A m \in Msg \ {msg[w]} : msgState'[m] = msgState[m]
        PROVE  SleepsUntilReply'
    <3>1. msg[w] \in Msg
      BY <2>2 DEF ReplyPC
    <3> SUFFICES ASSUME NEW x \in Thread, pc'[x] = "get_wait" PROVE msgState'[arg'[x]] = "waiting"
      BY DEF SleepsUntilReply
    <3>2. x # w /\ pc[x] = "get_wait" /\ arg'[x] = arg[x]
      BY <2>1, <2>2
    <3>3. arg[x] # msg[w]
      BY <2>2, <3>1, <3>2, AnswererWakes
    <3>4. arg[x] \in Msg /\ msgState[arg[x]] = "waiting"
      BY <3>2 DEF CallPC, SleepsUntilReply
    <3> QED
      BY <2>2, <3>2, <3>3, <3>4
  <2>3. CASE Reply(w)
    <3>1. pc[w] = "reply" /\ pc'[w] = "unref"
      BY <2>3, ReplyMoves
    <3>2. pc' \in signal_ready([pc EXCEPT ![w] = "unref"], msg[w])
      BY <2>3 DEF Reply
    <3>3. \A m \in Msg \ {msg[w]} : msgState'[m] = msgState[m]
      BY <2>3 DEF Reply, mailbox_message_reply, MailboxTypeOK
    <3>4. "unref" \in PC
      BY DEF PC, BusyPC, ReplyPC
    <3> QED
      BY <2>2, <3>1, <3>2, <3>3, <3>4
  <2>4. CASE DrainReply(w)
    <3>1. pc[w] = "drain_reply" /\ pc'[w] = "drain_unref"
      BY <2>4, DrainReplyMoves
    <3>2. pc' \in signal_ready([pc EXCEPT ![w] = "drain_unref"], msg[w])
      BY <2>4 DEF DrainReply
    <3>3. \A m \in Msg \ {msg[w]} : msgState'[m] = msgState[m]
      BY <2>4 DEF DrainReply, mailbox_message_reply, MailboxTypeOK
    <3>4. "drain_unref" \in PC
      BY DEF PC, BusyPC, ReplyPC
    <3> QED
      BY <2>2, <3>1, <3>2, <3>3, <3>4
  <2>q. ASSUME UNCHANGED msgState, pc'[w] # "get_wait" PROVE SleepsUntilReply'
    BY <2>1, <2>q, <1>q
  <2>5. CASE pop_task(w) \/ WaitForJob(w) \/ SetIdle(w) \/ SetDead(w) \/ StartTask(w)
    BY <2>5, <2>q DEF pop_task, WaitForJob, SetIdle, SetDead, StartTask
  <2>6. CASE Receive(w) \/ SetContent(w)
    <3>1. UNCHANGED msgState /\ pc'[w] # "get_wait"
      BY <2>6 DEF Receive, SetContent, mailbox_receive_content, mailbox_message_content_set
    <3> QED
      BY <2>q, <3>1
  <2>7. CASE DestroyMessage(w) \/ DrainDestroy(w)
    BY <2>7, <2>q DEF DestroyMessage, DrainDestroy, mailbox_message_destroy
  <2>8. CASE Peek(w)
    <3>1. UNCHANGED msgState /\ pc'[w] # "get_wait"
      BY <2>8 DEF Peek
    <3> QED
      BY <2>q, <3>1
  <2>9. CASE Renotify(w)
    <3>1. UNCHANGED msgState
      BY <2>9 DEF Renotify
    <3> QED
      BY <2>9, <2>q, <3>1, RenotifyMoves
  <2>10. CASE SetLastMessage(w) \/ DrainNext(w) \/ DrainEnd(w) \/ DestroyMailbox(w) \/ FreeTask(w)
    BY <2>10, <2>q DEF SetLastMessage, mailbox_set_last_message, DrainNext, mailbox_receive,
       DrainEnd, DestroyMailbox, mailbox_destroy, FreeTask
  <2>11. CASE CloseRefs(w)
    <3>1. UNCHANGED msgState /\ pc'[w] # "get_wait"
      BY <2>11 DEF CloseRefs, drop_mailbox_ref, drop_message_ref, mailbox_destroy,
         mailbox_message_destroy
    <3> QED
      BY <2>q, <3>1
  <2>12. CASE LuaReturns(w) \/ PopFails(w)
    <3>1. UNCHANGED msgState /\ pc'[w] # "get_wait"
      BY <2>12 DEF LuaReturns, PopFails
    <3> QED
      BY <2>q, <3>1
  <2> QED
    BY <1>1, <2>3, <2>4, <2>5, <2>6, <2>7, <2>8, <2>9, <2>10, <2>11, <2>12 DEF WorkerStep
<1>2. ASSUME NEW th \in Thread, CallStep(th) \/ LuaStep(th) \/ SpuriousWakeup(th)
      PROVE  SleepsUntilReply'
  <2>1. \A x \in Thread \ {th} : pc'[x] = "get_wait" => pc[x] = "get_wait" /\ arg'[x] = arg[x]
    BY <1>2, CallerAlone, BystanderGets
  <2>q. ASSUME UNCHANGED msgState, pc'[th] # "get_wait" PROVE SleepsUntilReply'
    BY <2>1, <2>q, <1>q
  <2>2. CASE GetWait(th)
    <3>1. /\ msgState[arg[th]] = "waiting" /\ UNCHANGED <<arg, msgState>>
          /\ \A x \in Thread \ {th} : pc'[x] = pc[x]
      BY <2>2 DEF GetWait
    <3> QED
      BY <3>1 DEF SleepsUntilReply
  <2>3. CASE SendAppend(th) \/ GetReturns(th) \/ SpuriousWakeup(th)
    BY <2>3, <2>q DEF SendAppend, mailbox_append, GetReturns, SpuriousWakeup
  <2>4. CASE SendNotify(th)
    <3>1. UNCHANGED msgState
      BY <2>4 DEF SendNotify
    <3> QED
      BY <2>4, <2>q, <3>1, SendNotifyMoves
  <2>5. ASSUME NEW t \in Task, Spawn(th, t) PROVE SleepsUntilReply'
    <3>1. UNCHANGED msgState
      BY <2>5 DEF Spawn, mailbox_init
    <3> QED
      BY <2>5, <2>q, <3>1, SpawnMoves
  <2>6. ASSUME NEW t \in Task, SpawnFails(th, t) \/ CollectMailboxRef(th, t)
        PROVE  SleepsUntilReply'
    BY <2>6, <2>q DEF SpawnFails, mailbox_init, CollectMailboxRef, drop_mailbox_ref, mailbox_destroy
  <2>7. ASSUME NEW new \in SUBSET Worker, ExtendPool(th, new) PROVE SleepsUntilReply'
    BY <2>7, <2>q DEF ExtendPool
  <2>8. ASSUME NEW b \in Task, NEW k \in Msg, SendStart(th, b, k) PROVE SleepsUntilReply'
    <3>1. /\ pc'[th] = "append" /\ msgState' = [msgState EXCEPT ![k] = "waiting"]
      BY <2>8 DEF SendStart, message_alloc
    <3>2. \A m \in Msg : msgState[m] = "waiting" => msgState'[m] = "waiting"
      BY <3>1 DEF MailboxTypeOK
    <3> QED
      BY <2>1, <3>1, <3>2, <1>q
  <2>9. ASSUME NEW m \in Msg, GetStart(th, m) PROVE SleepsUntilReply'
    BY <2>9, <2>q DEF GetStart
  <2>10. ASSUME NEW m \in Msg, CollectMessageRef(th, m) PROVE SleepsUntilReply'
    BY <2>10, <2>q DEF CollectMessageRef, drop_message_ref, mailbox_message_destroy
  <2> QED
    BY <1>2, <2>2, <2>3, <2>4, <2>5, <2>6, <2>7, <2>8, <2>9, <2>10 DEF CallStep, LuaStep
<1>3. CASE UNCHANGED vars
  BY <1>3, <1>q DEF vars
<1> QED
  BY <1>1, <1>2, <1>3 DEF Next

-----------------------------------------------------------------------------
(* Theorems about messages. *)

(* Before the first send nothing can be wrong. *)
LEMMA MsgInit == Init => MsgInv
<1> SUFFICES ASSUME Init PROVE MsgInv
  OBVIOUS
<1>1. /\ \A m \in Msg : msgState[m] = "none"
      /\ \A th \in Thread : pc[th] \in {"lua", "pop", "none"}
  BY DEF Init, MailboxInit, ProcessInit
<1>2. AnswerStored
  BY <1>1 DEF AnswerStored, AnswerComplete, Thread
<1>3. GetterHolds /\ SleepsUntilReply
  BY <1>1 DEF GetterHolds, SleepsUntilReply, InGet
<1> QED
  BY <1>2, <1>3, LocalsInit, HoldInit DEF MsgInv

(* The invariants of the scheduler and of the messages hold throughout.     *)
LEMMA MsgInvariant == Spec => [](TypeOK /\ SchedInv /\ MsgInv)
<1>1. Init => TypeOK /\ SchedInv /\ MsgInv
  BY TypeInit, SchedInit, MsgInit
<1>2. TypeOK /\ SchedInv /\ MsgInv /\ [Next]_vars => TypeOK' /\ SchedInv' /\ MsgInv'
  <2> SUFFICES ASSUME TypeOK, SchedInv, MsgInv, [Next]_vars PROVE TypeOK' /\ SchedInv' /\ MsgInv'
    OBVIOUS
  <2>1. TypeOK' /\ SchedInv' /\ OneRunner
    BY TypeStep, SchedStep DEF SchedInv
  <2> QED
    BY <2>1, LocalsStep, HoldStep, AnswerStep, GetterStep, SleepStep DEF MsgInv
<1> QED
  BY <1>1, <1>2, PTL DEF Spec

(* A message is freed when the sending and the receiving side have both let *)
(* go of it, and not before, for any number of threads and messages.        *)
THEOREM MessagesFreedOnce == Spec => []MessageLifetime
<1>1. MsgInv => MessageLifetime
  BY DEF MsgInv, HoldInv, CountRight, MessageLifetime
<1> QED
  BY <1>1, MsgInvariant, PTL

(* A message that is MSG_READY holds the reply.                             *)
THEOREM RepliesComplete == Spec => []AnswerComplete
<1>1. MsgInv => AnswerComplete
  BY DEF MsgInv, AnswerStored
<1> QED
  BY <1>1, MsgInvariant, PTL

(* Nobody sleeps in get() on a message that is answered or freed: a message *)
(* has one getter, which the one signal of the reply wakes.                 *)
THEOREM RepliesWake == Spec => []NoMissedReply
<1>1. ASSUME TypeOK, MsgInv PROVE NoMissedReply
  <2> SUFFICES ASSUME NEW th \in Thread, pc[th] = "get_wait"
               PROVE  msgState[arg[th]] = "waiting" /\ arg[th] \notin freedMsgs
    BY DEF NoMissedReply
  <2>1. arg[th] \in Msg /\ msgRef[arg[th]] # None
    BY <1>1, GetterArg DEF MsgInv, InGet
  <2>2. msgState[arg[th]] = "waiting"
    BY <1>1 DEF MsgInv, SleepsUntilReply
  <2> QED
    BY <1>1, <2>1, <2>2, Holders DEF MsgInv, HoldInv, CountRight
<1> QED
  BY <1>1, MsgInvariant, PTL

-----------------------------------------------------------------------------
(* Who owns a mailbox. *)

(* Worker w does not pass mailbox_destroy for the task in this step.        *)
SameOwner(w) ==
  /\ pc'[w] = "close" <=> pc[w] = "close"
  /\ pc[w] = "close" => cur'[w] = cur[w]

(* Worker w stores no final value in this step, or has stored it before.    *)
SameEnd(w) ==
  pc'[w] \in {"set_dead"} \union DyingPC =>
    pc[w] \in {"set_dead"} \union DyingPC /\ cur'[w] = cur[w]

(* Thread x is in send() before and after, for the same mailbox.            *)
SenderStays(x) ==
  pc'[x] \in {"append", "notify"} =>
    /\ pc[x] \in {"append", "notify"} /\ arg'[x] = arg[x] /\ StateOf(x)' = StateOf(x)
    /\ rcpt'[arg[x]] = rcpt[arg[x]]

(* A woken thread neither owns, ends nor sends.                             *)
LEMMA BystanderOwns ==
  ASSUME NEW x \in Thread, Bystander(x)
  PROVE  /\ x \in Worker => SameOwner(x) /\ SameEnd(x)
         /\ UNCHANGED rcpt => SenderStays(x)
BY DEF Bystander, SameOwner, SameEnd, SenderStays, DyingPC

(* The task states as far as mailboxes go by them.                          *)
SameLife(b) ==
  /\ taskState'[b] \in {"none", "leaked"} <=> taskState[b] \in {"none", "leaked"}
  /\ taskState'[b] = "freed" <=> taskState[b] = "freed"

(* Steps that no mailbox is made or let go of in.                           *)
LEMMA MboxQuiet ==
  ASSUME TypeOK, MboxInv, UNCHANGED <<mboxState, mboxRef>>,
         \A b \in Task : SameLife(b) /\ (lastMessage[b] => lastMessage'[b]),
         \A w \in Worker : SameOwner(w) /\ SameEnd(w),
         \A x \in Thread : SenderStays(x)
  PROVE  MboxInv'
<1>1. \A b \in Task : TaskReleased(b)' <=> TaskReleased(b)
  BY DEF TaskReleased, SameLife, SameOwner
<1>2. OwnersRight'
  BY <1>1 DEF MboxInv, OwnersRight, SameLife
<1>3. SenderHasRef'
  BY DEF MboxInv, SenderHasRef, SenderStays
<1>4. FinalStored'
  <2>1. \A w \in Worker : pc[w] \in {"set_dead"} \union DyingPC => cur[w] \in Task
    BY BusyHasTask DEF DyingPC, IdlePC
  <2> QED
    BY <2>1 DEF MboxInv, FinalStored, SameEnd, SameLife
<1> QED
  BY <1>2, <1>3, <1>4 DEF MboxInv

(* What the invariant says of a mailbox that a thread sends to.             *)
LEMMA SenderMailbox ==
  ASSUME TypeOK, MboxInv, NEW x \in Thread, pc[x] \in {"append", "notify"}
  PROVE  LET b == rcpt[arg[x]] IN
         /\ arg[x] \in Msg /\ b \in Task /\ mboxRef[b] = StateOf(x) /\ StateOf(x) # None
         /\ taskState[b] \notin {"none", "leaked"} /\ mboxState[b] # "freed"
<1> DEFINE b == rcpt[arg[x]]
<1>1. arg[x] \in Msg /\ b \in Task
  BY DEF TypeOK, ThreadTypeOK, MailboxTypeOK, CallPC
<1>2. StateOf(x) # None
  BY BusyHasTask, ProcessAssumption DEF StateOf, Thread, IdlePC
<1>3. mboxRef[b] = StateOf(x)
  BY DEF MboxInv, SenderHasRef
<1> HIDE DEF b
<1>4. taskState[b] \notin {"none", "leaked"} /\ mboxState[b] # "freed"
  BY <1>1, <1>2, <1>3 DEF MboxInv, OwnersRight
<1> QED
  BY <1>1, <1>2, <1>3, <1>4 DEF b

(* The reference to a mailbox is dropped only by the state that holds it,   *)
(* and a state that is in send() runs neither its collector nor lua_close.  *)
LEMMA MboxDrop ==
  ASSUME TypeOK, OneRunner, MboxInv, NEW th \in Thread, NEW b \in Task,
         pc[th] \in {"lua", "close"}, mboxRef[b] = StateOf(th), drop_mailbox_ref(b),
         UNCHANGED <<taskVars, pc, localVars>>
  PROVE  MboxInv'
<1>1. /\ mboxRef'[b] = None /\ \A c \in Task \ {b} : mboxRef'[c] = mboxRef[c]
      /\ mboxState'[b] = (IF mboxState[b] = "dead" THEN "freed" ELSE "dead")
      /\ \A c \in Task \ {b} : mboxState'[c] = mboxState[c]
      /\ UNCHANGED <<lastMessage, rcpt>>
  BY DEF drop_mailbox_ref, mailbox_destroy, TypeOK, RefTypeOK, MailboxTypeOK, msgVars
<1>2. UNCHANGED <<taskState, pc, cur, arg>>
  BY DEF taskVars, localVars
<1>3. \A c \in Task : TaskReleased(c)' <=> TaskReleased(c)
  BY <1>2 DEF TaskReleased
<1>4. StateOf(th) # None
  BY BusyHasTask, ProcessAssumption DEF StateOf, Thread, IdlePC
<1>5. OwnersRight'
  <2> SUFFICES ASSUME NEW c \in Task
               PROVE  /\ taskState[c] \in {"none", "leaked"} => mboxRef'[c] = None
                      /\ taskState[c] \notin {"none", "leaked"} =>
                           /\ mboxState'[c] # "none"
                           /\ mboxState'[c] = "alive" <=> mboxRef'[c] # None /\ ~TaskReleased(c)
                           /\ mboxState'[c] = "freed" <=> mboxRef'[c] = None /\ TaskReleased(c)
    BY <1>2, <1>3 DEF OwnersRight
  <2>1. CASE c # b
    BY <1>1, <2>1 DEF MboxInv, OwnersRight
  <2>2. CASE c = b
    <3>1. mboxState[b] \in {"none", "alive", "dead", "freed"} /\ mboxRef[b] # None
      BY <1>4 DEF TypeOK, MailboxTypeOK
    <3> QED
      BY <1>1, <2>2, <3>1 DEF MboxInv, OwnersRight
  <2> QED
    BY <2>1, <2>2
<1>6. SenderHasRef'
  <2> SUFFICES ASSUME NEW x \in Thread, pc[x] \in {"append", "notify"}
               PROVE  mboxRef'[rcpt[arg[x]]] = StateOf(x)
    BY <1>1, <1>2 DEF SenderHasRef, StateOf
  <2>1. rcpt[arg[x]] \in Task /\ mboxRef[rcpt[arg[x]]] = StateOf(x)
    BY SenderMailbox
  <2>2. rcpt[arg[x]] # b
    BY <2>1, SoleThread DEF IdlePC, LeavingPC
  <2> QED
    BY <1>1, <2>1, <2>2
<1>7. FinalStored'
  BY <1>1, <1>2 DEF MboxInv, FinalStored
<1> QED
  BY <1>5, <1>6, <1>7 DEF MboxInv

(* Spawn and SpawnFails make a mailbox.                                     *)
LEMMA MboxNew ==
  ASSUME TypeOK, SchedInv, MboxInv, NEW t \in Task, NEW th \in Thread, pc[th] = "lua",
         taskState[t] = "none", mailbox_init(t), UNCHANGED cur,
         NEW s \in {"init", "leaked"}, taskState' = [taskState EXCEPT ![t] = s],
         mboxRef' = (IF s = "init" THEN [mboxRef EXCEPT ![t] = StateOf(th)] ELSE mboxRef),
         \A w \in Worker : SameOwner(w) /\ SameEnd(w),
         \A x \in Thread : SenderStays(x)
  PROVE  MboxInv'
<1>1. /\ mboxState'[t] = "alive" /\ taskState'[t] = s /\ mboxRef[t] = None
      /\ \A c \in Task \ {t} : mboxState'[c] = mboxState[c] /\ taskState'[c] = taskState[c]
      /\ UNCHANGED lastMessage
  BY DEF mailbox_init, TypeOK, MailboxTypeOK, TaskTypeOK, MboxInv, OwnersRight
<1>2. /\ s = "init" => mboxRef'[t] = StateOf(th)
      /\ s = "leaked" => mboxRef'[t] = None
      /\ \A c \in Task \ {t} : mboxRef'[c] = mboxRef[c]
  BY <1>1 DEF TypeOK, RefTypeOK
<1>3. StateOf(th) # None
  BY BusyHasTask, ProcessAssumption DEF StateOf, Thread, IdlePC
<1>4. \A c \in Task \ {t} : TaskReleased(c)' <=> TaskReleased(c)
  BY <1>1 DEF TaskReleased, SameOwner
<1>5. ~TaskReleased(t)'
  <2>1. \A w \in Worker : pc[w] = "close" => cur[w] # t
    BY DEF SchedInv, TaskStateMatches, DyingPC
  <2> QED
    BY <1>1, <2>1 DEF TaskReleased, SameOwner
<1>6. OwnersRight'
  BY <1>1, <1>2, <1>3, <1>4, <1>5 DEF MboxInv, OwnersRight
<1>7. SenderHasRef'
  <2> SUFFICES ASSUME NEW x \in Thread, pc'[x] \in {"append", "notify"}
               PROVE  mboxRef'[rcpt'[arg'[x]]] = StateOf(x)'
    BY DEF SenderHasRef
  <2>1. /\ pc[x] \in {"append", "notify"} /\ arg'[x] = arg[x] /\ StateOf(x)' = StateOf(x)
        /\ rcpt'[arg[x]] = rcpt[arg[x]]
    BY DEF SenderStays
  <2>2. rcpt[arg[x]] \in Task \ {t} /\ mboxRef[rcpt[arg[x]]] = StateOf(x)
    BY <1>1, <2>1, SenderMailbox
  <2> QED
    BY <1>2, <2>1, <2>2
<1>8. FinalStored'
  <2>1. \A w \in Worker : pc[w] \in {"set_dead"} \union DyingPC => cur[w] \in Task
    BY BusyHasTask DEF DyingPC, IdlePC
  <2> QED
    BY <1>1, <2>1 DEF MboxInv, FinalStored, SameEnd
<1> QED
  BY <1>6, <1>7, <1>8 DEF MboxInv

(* The task lets go of its mailbox: the first of the two owners or the      *)
(* second.                                                                  *)
LEMMA MboxLetGo ==
  ASSUME TypeOK, SchedInv, MboxInv, NEW w \in Worker, DestroyMailbox(w)
  PROVE  MboxInv'
<1>0. PICK b \in Task : b = cur[w]
  BY BusyHasTask DEF DestroyMailbox, At, IdlePC
<1>1. /\ pc[w] = "mbox_destroy" /\ pc'[w] = "close"
      /\ \A x \in Thread \ {w} : pc'[x] = pc[x]
      /\ UNCHANGED <<taskState, cur, arg, mboxRef, lastMessage, rcpt>>
  <2>1. pc[w] = "mbox_destroy" /\ pc' = [pc EXCEPT ![w] = "close"]
    BY DEF DestroyMailbox, At, Goto
  <2>2. UNCHANGED <<taskState, cur, arg, mboxRef, lastMessage, rcpt>>
    BY DEF DestroyMailbox, mailbox_destroy, taskVars, localVars, refVars, msgVars
  <2> QED
    BY <2>1, <2>2 DEF TypeOK, ThreadTypeOK, Thread
<1>2. /\ mboxState'[b] = (IF mboxState[b] = "dead" THEN "freed" ELSE "dead")
      /\ \A c \in Task \ {b} : mboxState'[c] = mboxState[c]
      /\ mboxState[b] \in {"none", "alive", "dead", "freed"}
  BY <1>0 DEF DestroyMailbox, mailbox_destroy, TypeOK, MailboxTypeOK
<1>3. taskState[b] = "dead"
  BY <1>0, <1>1 DEF SchedInv, TaskStateMatches, DyingPC
<1>4. ~TaskReleased(b)
  <2>1. \A x \in Worker : cur[x] = b /\ pc[x] = "close" => x = w
    BY <1>0, <1>1 DEF SchedInv, OneRunner, Running, LeavingPC
  <2> QED
    BY <1>1, <1>3, <2>1 DEF TaskReleased
<1>5. TaskReleased(b)'
  BY <1>0, <1>1 DEF TaskReleased
<1>6. \A c \in Task \ {b} : TaskReleased(c)' <=> TaskReleased(c)
  BY <1>0, <1>1 DEF TaskReleased, Thread
<1>7. OwnersRight'
  <2> SUFFICES ASSUME NEW c \in Task
               PROVE  /\ taskState[c] \in {"none", "leaked"} => mboxRef[c] = None
                      /\ taskState[c] \notin {"none", "leaked"} =>
                           /\ mboxState'[c] # "none"
                           /\ mboxState'[c] = "alive" <=> mboxRef[c] # None /\ ~TaskReleased(c)'
                           /\ mboxState'[c] = "freed" <=> mboxRef[c] = None /\ TaskReleased(c)'
    BY <1>1 DEF OwnersRight
  <2>1. CASE c # b
    BY <1>2, <1>6, <2>1 DEF MboxInv, OwnersRight
  <2>2. CASE c = b
    BY <1>2, <1>3, <1>4, <1>5, <2>2 DEF MboxInv, OwnersRight
  <2> QED
    BY <2>1, <2>2
<1>8. SenderHasRef'
  BY <1>1 DEF MboxInv, SenderHasRef, StateOf
<1>9. FinalStored'
  BY <1>1 DEF MboxInv, FinalStored, DyingPC, Thread
<1> QED
  BY <1>7, <1>8, <1>9 DEF MboxInv

(* A notification makes and frees no task.                                  *)
LEMMA NotifyLife ==
  ASSUME TypeOK, NEW t \in Task, NEW th \in Thread, NEW l \in PC,
         notify_pointer(t, [pc EXCEPT ![th] = l])
  PROVE  \A b \in Task : SameLife(b)
<1> DEFINE p == [pc EXCEPT ![th] = l]
<1>1. p \in [Thread -> PC]
  BY DEF TypeOK, ThreadTypeOK, PC
<1>2. notify_pointer(t, p)
  OBVIOUS
<1> HIDE DEF p
<1>3. \/ UNCHANGED <<taskState, taskQueue>>
      \/ \E u \in Task : taskState[u] = "idle" /\ taskState' = [taskState EXCEPT ![u] = "waiting"]
  BY <1>1, <1>2, NotifyEffect
<1> QED
  BY <1>3 DEF SameLife, TypeOK, TaskTypeOK

(* The steps of worker and task_destroy keep the mailboxes right ...        *)
LEMMA WorkerMbox ==
  ASSUME TypeOK, SchedInv, MboxInv, NEW w \in Worker,
         WorkerStep(w) \/ LuaReturns(w) \/ PopFails(w)
  PROVE  MboxInv'
<1>0. /\ \A x \in Worker \ {w} : SameOwner(x) /\ SameEnd(x)
      /\ UNCHANGED rcpt => \A x \in Thread \ {w} : SenderStays(x)
  BY WorkerAlone, BystanderOwns DEF Thread
<1> USE ProcessAssumption DEF Thread, localVars, taskVars, refVars, mailboxVars, mboxVars, msgVars,
        At, Goto, TypeOK, ThreadTypeOK
<1>q. ASSUME UNCHANGED <<mboxState, mboxRef, rcpt>>,
             \A b \in Task : SameLife(b) /\ (lastMessage[b] => lastMessage'[b]),
             SameOwner(w), SameEnd(w), pc'[w] \notin {"append", "notify"}
      PROVE  MboxInv'
  <2>1. SenderStays(w)
    BY <1>q DEF SenderStays
  <2> QED
    BY <1>0, <1>q, <2>1, MboxQuiet
<1>r. ASSUME UNCHANGED <<mboxState, mboxRef, rcpt, lastMessage, taskState>>,
             SameOwner(w), SameEnd(w), pc'[w] \notin {"append", "notify"}
      PROVE  MboxInv'
  BY <1>q, <1>r DEF SameLife
<1>1. CASE pop_task(w) \/ WaitForJob(w)
  BY <1>1, <1>r DEF pop_task, WaitForJob, SameOwner, SameEnd, DyingPC
<1>2. CASE StartTask(w) \/ SetIdle(w)
  <2>1. /\ UNCHANGED <<mboxState, mboxRef, rcpt, lastMessage>>
        /\ pc[w] \in {"start", "decide"} /\ pc'[w] \in {"receive", "lua", "peek"}
        /\ \E s \in {"processing", "idle"} : taskState' = [taskState EXCEPT ![cur[w]] = s]
    BY <1>2 DEF StartTask, SetIdle
  <2>2. taskState[cur[w]] \in {"init", "waiting", "processing"}
    BY <2>1 DEF SchedInv, TaskStateMatches, ServingPC, BusyPC, DyingPC, CallPC, ReplyPC
  <2>3. \A b \in Task : SameLife(b)
    BY <2>1, <2>2 DEF SameLife, TaskTypeOK
  <2>4. SameOwner(w) /\ SameEnd(w)
    BY <2>1 DEF SameOwner, SameEnd, DyingPC
  <2> QED
    BY <1>q, <2>1, <2>3, <2>4
<1>3. CASE SetDead(w)
  <2>1. /\ UNCHANGED <<mboxState, mboxRef, rcpt, lastMessage, cur>>
        /\ pc[w] = "set_dead" /\ pc'[w] = "drain"
        /\ taskState' = [taskState EXCEPT ![cur[w]] = "dead"]
    BY <1>3 DEF SetDead
  <2>2. taskState[cur[w]] = "processing"
    BY <2>1 DEF SchedInv, TaskStateMatches, ServingPC, BusyPC, DyingPC, CallPC, ReplyPC
  <2>3. \A b \in Task : SameLife(b)
    BY <2>1, <2>2 DEF SameLife, TaskTypeOK
  <2>4. SameOwner(w) /\ SameEnd(w)
    BY <2>1 DEF SameOwner, SameEnd
  <2> QED
    BY <1>q, <2>1, <2>3, <2>4
<1>4. CASE Receive(w)
  <2>1. UNCHANGED <<mboxState, mboxRef, rcpt, lastMessage, taskState>>
    BY <1>4 DEF Receive, mailbox_receive_content
  <2>2. pc[w] = "receive" /\ pc'[w] = "lua"
    BY <1>4 DEF Receive
  <2> QED
    BY <1>r, <2>1, <2>2 DEF SameOwner, SameEnd, DyingPC
<1>5. CASE SetContent(w)
  <2>1. UNCHANGED <<mboxState, mboxRef, rcpt, lastMessage, taskState>>
    BY <1>5 DEF SetContent, mailbox_message_content_set
  <2>2. pc[w] = "set_content" /\ pc'[w] \in {"set_content", "reply"}
    BY <1>5 DEF SetContent
  <2> QED
    BY <1>r, <2>1, <2>2 DEF SameOwner, SameEnd, DyingPC
<1>6. CASE Reply(w)
  <2>1. UNCHANGED <<mboxState, mboxRef, rcpt, lastMessage, taskState>>
    BY <1>6 DEF Reply, mailbox_message_reply
  <2>2. pc[w] = "reply" /\ pc'[w] = "unref"
    BY <1>6, ReplyMoves
  <2> QED
    BY <1>r, <2>1, <2>2 DEF SameOwner, SameEnd, DyingPC
<1>7. CASE DrainReply(w)
  <2>1. UNCHANGED <<mboxState, mboxRef, rcpt, lastMessage, taskState, cur>>
    BY <1>7 DEF DrainReply, mailbox_message_reply
  <2>2. pc[w] = "drain_reply" /\ pc'[w] = "drain_unref"
    BY <1>7, DrainReplyMoves
  <2> QED
    BY <1>r, <2>1, <2>2 DEF SameOwner, SameEnd, DyingPC
<1>8. CASE DestroyMessage(w) \/ DrainDestroy(w)
  BY <1>8, <1>r DEF DestroyMessage, DrainDestroy, mailbox_message_destroy, SameOwner, SameEnd,
     DyingPC
<1>9. CASE Peek(w)
  <2>1. UNCHANGED <<mboxState, mboxRef, rcpt, lastMessage, taskState>>
    BY <1>9 DEF Peek
  <2>2. pc[w] = "peek" /\ pc'[w] \in {"peek", "renotify", "pop"}
    BY <1>9 DEF Peek
  <2> QED
    BY <1>r, <2>1, <2>2 DEF SameOwner, SameEnd, DyingPC
<1>10. CASE Renotify(w)
  <2>1. pc[w] = "renotify" /\ pc'[w] = "pop"
    BY <1>10, RenotifyMoves
  <2>2. UNCHANGED <<mboxState, mboxRef, rcpt, lastMessage>>
    BY <1>10 DEF Renotify
  <2>3. cur[w] \in Task /\ notify_pointer(cur[w], [pc EXCEPT ![w] = "pop"])
    BY <1>10, <2>1, BusyHasTask DEF Renotify, IdlePC
  <2>4. "pop" \in PC
    BY DEF PC, IdlePC
  <2>5. \A b \in Task : SameLife(b)
    BY <2>3, <2>4, NotifyLife
  <2> QED
    BY <1>q, <2>1, <2>2, <2>5 DEF SameOwner, SameEnd, DyingPC
<1>11. CASE SetLastMessage(w)
  <2>1. /\ UNCHANGED <<mboxState, mboxRef, rcpt, taskState, cur>>
        /\ pc[w] = "decide" /\ pc'[w] = "set_dead"
        /\ lastMessage' = [lastMessage EXCEPT ![cur[w]] = TRUE]
        /\ \A x \in Thread \ {w} : pc'[x] = pc[x]
        /\ UNCHANGED arg
    BY <1>11 DEF SetLastMessage, mailbox_set_last_message
  <2>2. /\ cur[w] \in Task /\ lastMessage'[cur[w]]
        /\ \A b \in Task : lastMessage[b] => lastMessage'[b]
    <3>1. cur[w] \in Task
      BY <2>1, BusyHasTask DEF IdlePC
    <3>2. lastMessage \in [Task -> BOOLEAN]
      BY DEF MailboxTypeOK
    <3> QED
      BY <2>1, <3>1, <3>2, Zenon
  <2>3. \A b \in Task : TaskReleased(b)' <=> TaskReleased(b)
    BY <2>1 DEF TaskReleased
  <2>4. OwnersRight'
    BY <2>1, <2>3 DEF MboxInv, OwnersRight
  <2>5. SenderHasRef'
    BY <2>1 DEF MboxInv, SenderHasRef, StateOf
  <2>6. FinalStored'
    <3>1. \A x \in Worker : pc[x] \in {"set_dead"} \union DyingPC => cur[x] \in Task
      BY BusyHasTask DEF DyingPC, IdlePC
    <3> QED
      BY <2>1, <2>2, <3>1 DEF MboxInv, FinalStored
  <2> QED
    BY <2>4, <2>5, <2>6 DEF MboxInv
<1>12. CASE DrainNext(w) \/ DrainEnd(w)
  BY <1>12, <1>r DEF DrainNext, mailbox_receive, DrainEnd, SameOwner, SameEnd, DyingPC
<1>13. CASE DestroyMailbox(w)
  BY <1>13, MboxLetGo
<1>14. CASE CloseRefs(w)
  <2>1. pc[w] = "close" /\ StateOf(w) = cur[w] /\ UNCHANGED <<taskVars, pc, localVars>>
    BY <1>14 DEF CloseRefs, StateOf
  <2>2. ASSUME NEW b \in Task, mboxRef[b] = cur[w], drop_mailbox_ref(b) PROVE MboxInv'
    BY <2>1, <2>2, MboxDrop DEF SchedInv
  <2>3. ASSUME NEW m \in Msg, drop_message_ref(m) PROVE MboxInv'
    <3>1. UNCHANGED <<mboxState, mboxRef, rcpt, lastMessage, taskState>>
      BY <2>1, <2>3 DEF drop_message_ref, mailbox_message_destroy
    <3> QED
      BY <1>r, <2>1, <3>1 DEF SameOwner, SameEnd, DyingPC
  <2> QED
    BY <1>14, <2>2, <2>3 DEF CloseRefs
<1>15. CASE FreeTask(w)
  <2>0. PICK b \in Task : b = cur[w]
    BY <1>15, BusyHasTask DEF FreeTask, IdlePC
  <2>1. /\ UNCHANGED <<mboxState, mboxRef, rcpt, lastMessage, arg>>
        /\ pc[w] = "close" /\ pc'[w] = "pop"
        /\ taskState' = [taskState EXCEPT ![b] = "freed"]
        /\ \A x \in Thread \ {w} : pc'[x] = pc[x]
        /\ \A x \in Worker \ {w} : cur'[x] = cur[x]
    BY <1>15, <2>0 DEF FreeTask
  <2>2. /\ taskState[b] = "dead" /\ taskState'[b] = "freed"
        /\ \A c \in Task \ {b} : taskState'[c] = taskState[c]
    BY <2>0, <2>1 DEF SchedInv, TaskStateMatches, DyingPC, TaskTypeOK
  <2>3. ASSUME NEW c \in Task PROVE TaskReleased(c)' <=> TaskReleased(c)
    <3>1. CASE c = b
      BY <2>0, <2>1, <2>2, <3>1 DEF TaskReleased
    <3>2. CASE c # b
      BY <2>0, <2>1, <2>2, <3>2 DEF TaskReleased
    <3> QED
      BY <3>1, <3>2
  <2>4. OwnersRight'
    BY <2>1, <2>2, <2>3 DEF MboxInv, OwnersRight
  <2>5. SenderHasRef'
    <3>1. \A x \in Thread : SenderStays(x)
      BY <1>0, <2>1 DEF SenderStays
    <3> QED
      BY <2>1, <3>1 DEF MboxInv, SenderHasRef, SenderStays
  <2>6. FinalStored'
    BY <2>0, <2>1, <2>2 DEF MboxInv, FinalStored, DyingPC
  <2> QED
    BY <2>4, <2>5, <2>6 DEF MboxInv
<1>16. CASE LuaReturns(w)
  BY <1>16, <1>r DEF LuaReturns, SameOwner, SameEnd, DyingPC
<1>17. CASE PopFails(w)
  <2>1. pc'[w] = pc[w] /\ pc[w] \in {"set_content", "decide"}
    BY <1>17 DEF PopFails
  <2> QED
    BY <1>17, <1>r, <2>1 DEF PopFails, SameOwner, SameEnd, DyingPC
<1> QED
  BY <1>1, <1>2, <1>3, <1>4, <1>5, <1>6, <1>7, <1>8, <1>9, <1>10, <1>11, <1>12, <1>13, <1>14,
     <1>15, <1>16, <1>17 DEF WorkerStep

(* ... those of Lua code and its calls do ...                               *)
LEMMA CallerMbox ==
  ASSUME TypeOK, SchedInv, MsgInv, MboxInv, NEW th \in Thread,
         CallStep(th) \/ LuaStep(th) \/ SpuriousWakeup(th)
  PROVE  MboxInv'
<1>0. /\ \A w \in Worker \ {th} : SameOwner(w) /\ SameEnd(w)
      /\ UNCHANGED rcpt => \A x \in Thread \ {th} : SenderStays(x)
  BY CallerAlone, BystanderOwns DEF Thread
<1> USE ProcessAssumption DEF Thread, localVars, taskVars, refVars, mailboxVars, mboxVars, msgVars,
        At, Goto, TypeOK, ThreadTypeOK
<1>q. ASSUME UNCHANGED <<mboxState, mboxRef, rcpt, lastMessage>>,
             \A b \in Task : SameLife(b),
             th \in Worker => SameOwner(th) /\ SameEnd(th), SenderStays(th)
      PROVE  MboxInv'
  BY <1>0, <1>q, MboxQuiet
<1>r. ASSUME UNCHANGED <<mboxState, mboxRef, rcpt, lastMessage, taskState>>,
             th \in Worker => SameOwner(th) /\ SameEnd(th), SenderStays(th)
      PROVE  MboxInv'
  BY <1>q, <1>r DEF SameLife
<1>1. CASE SendAppend(th)
  <2>1. UNCHANGED <<mboxState, mboxRef, rcpt, lastMessage, taskState>>
    BY <1>1 DEF SendAppend, mailbox_append
  <2>2. pc[th] = "append" /\ pc'[th] = "notify" /\ UNCHANGED <<arg, cur>>
    BY <1>1 DEF SendAppend
  <2> QED
    BY <1>r, <2>1, <2>2 DEF SameOwner, SameEnd, SenderStays, StateOf, DyingPC
<1>2. CASE GetWait(th) \/ GetReturns(th) \/ SpuriousWakeup(th)
  <2>1. /\ UNCHANGED <<mboxState, mboxRef, rcpt, lastMessage, taskState>>
        /\ pc[th] \in {"wait", "get", "get_wait"}
        /\ pc'[th] \in {"pop", "lua", "get", "get_wait"}
    BY <1>2 DEF GetWait, GetReturns, SpuriousWakeup
  <2> QED
    BY <1>r, <2>1 DEF SameOwner, SameEnd, SenderStays, DyingPC
<1>3. CASE SendNotify(th)
  <2>1. pc[th] = "notify" /\ pc'[th] = "lua" /\ arg[th] \in Msg /\ rcpt[arg[th]] \in Task
    BY <1>3, SendNotifyMoves
  <2>2. UNCHANGED <<mboxState, mboxRef, rcpt, lastMessage>>
    BY <1>3 DEF SendNotify
  <2>3. notify_pointer(rcpt[arg[th]], [pc EXCEPT ![th] = "lua"])
    BY <1>3 DEF SendNotify
  <2>4. "lua" \in PC
    BY DEF PC, BusyPC
  <2>5. \A b \in Task : SameLife(b)
    BY <2>1, <2>3, <2>4, NotifyLife
  <2> QED
    BY <1>q, <2>1, <2>2, <2>5 DEF SameOwner, SameEnd, SenderStays, DyingPC
<1>4. ASSUME NEW t \in Task, Spawn(th, t) PROVE MboxInv'
  <2>1. /\ pc[th] = "lua" /\ pc'[th] = "lua"
        /\ \A x \in Thread : Bystander(x)
    BY <1>4, SpawnMoves
  <2>2. /\ taskState[t] = "none" /\ mailbox_init(t) /\ UNCHANGED <<cur, rcpt>>
        /\ taskState' = [taskState EXCEPT ![t] = "init"]
        /\ mboxRef' = [mboxRef EXCEPT ![t] = StateOf(th)]
    BY <1>4 DEF Spawn, mailbox_init
  <2>3. /\ \A w \in Worker : SameOwner(w) /\ SameEnd(w)
        /\ \A x \in Thread : SenderStays(x)
    BY <2>1, <2>2, BystanderOwns
  <2> QED
    BY <2>1, <2>2, <2>3, MboxNew
<1>5. ASSUME NEW t \in Task, SpawnFails(th, t) PROVE MboxInv'
  <2>1. /\ pc[th] = "lua" /\ taskState[t] = "none" /\ mailbox_init(t)
        /\ UNCHANGED <<pc, arg, cur, rcpt, mboxRef>>
        /\ taskState' = [taskState EXCEPT ![t] = "leaked"]
    BY <1>5 DEF SpawnFails, mailbox_init
  <2>2. /\ \A w \in Worker : SameOwner(w) /\ SameEnd(w)
        /\ \A x \in Thread : SenderStays(x)
    BY <2>1 DEF SameOwner, SameEnd, SenderStays, StateOf
  <2> QED
    BY <2>1, <2>2, MboxNew
<1>6. ASSUME NEW b \in Task, CollectMailboxRef(th, b) PROVE MboxInv'
  BY <1>6, MboxDrop DEF CollectMailboxRef, SchedInv
<1>7. ASSUME NEW new \in SUBSET Worker, ExtendPool(th, new) PROVE MboxInv'
  <2>1. /\ UNCHANGED <<mboxState, mboxRef, rcpt, lastMessage, taskState>>
        /\ pc[th] = "lua" /\ pc'[th] \in {"lua", "pop"}
    BY <1>7 DEF ExtendPool
  <2> QED
    BY <1>r, <2>1 DEF SameOwner, SameEnd, SenderStays, DyingPC
<1>8. ASSUME NEW b \in Task, NEW k \in Msg, SendStart(th, b, k) PROVE MboxInv'
  <2>1. /\ pc[th] = "lua" /\ pc'[th] = "append" /\ arg'[th] = k
        /\ mboxRef[b] = StateOf(th) /\ msgState[k] = "none"
        /\ rcpt' = [rcpt EXCEPT ![k] = b]
        /\ UNCHANGED <<mboxState, mboxRef, lastMessage, taskState, cur>>
        /\ \A x \in Thread \ {th} : pc'[x] = pc[x] /\ arg'[x] = arg[x]
    BY <1>8 DEF SendStart, message_alloc
  <2>2. \A x \in Thread : ~Sending(x, k)
    BY <2>1, Holders DEF MsgInv, HoldInv, StateRight
  <2>3. rcpt'[k] = b /\ \A m \in Msg \ {k} : rcpt'[m] = rcpt[m]
    BY <2>1 DEF MailboxTypeOK
  <2>4. SenderHasRef'
    <3> SUFFICES ASSUME NEW x \in Thread, pc'[x] \in {"append", "notify"}
                 PROVE  mboxRef[rcpt'[arg'[x]]] = StateOf(x)
      BY <2>1 DEF SenderHasRef, StateOf
    <3>1. CASE x = th
      BY <2>1, <2>3, <3>1
    <3>2. CASE x # th
      <4>1. arg[x] \in Msg \ {k}
        BY <2>1, <2>2, <3>2 DEF Sending, CallPC
      <4> QED
        BY <2>1, <2>3, <3>2, <4>1 DEF MboxInv, SenderHasRef
    <3> QED
      BY <3>1, <3>2
  <2>5. \A w \in Worker : SameOwner(w) /\ SameEnd(w)
    BY <2>1 DEF SameOwner, SameEnd, DyingPC
  <2>6. \A c \in Task : TaskReleased(c)' <=> TaskReleased(c)
    BY <2>1, <2>5 DEF TaskReleased, SameOwner
  <2>7. OwnersRight'
    BY <2>1, <2>6 DEF MboxInv, OwnersRight
  <2>8. FinalStored'
    BY <2>1, <2>5 DEF MboxInv, FinalStored, SameEnd
  <2> QED
    BY <2>4, <2>7, <2>8 DEF MboxInv
<1>9. ASSUME NEW m \in Msg, GetStart(th, m) PROVE MboxInv'
  <2>1. /\ UNCHANGED <<mboxState, mboxRef, rcpt, lastMessage, taskState>>
        /\ pc[th] = "lua" /\ pc'[th] = "get"
    BY <1>9 DEF GetStart
  <2> QED
    BY <1>r, <2>1 DEF SameOwner, SameEnd, SenderStays, DyingPC
<1>10. ASSUME NEW m \in Msg, CollectMessageRef(th, m) PROVE MboxInv'
  <2>1. /\ UNCHANGED <<mboxState, mboxRef, rcpt, lastMessage, taskState>>
        /\ pc[th] = "lua" /\ pc'[th] = "lua" /\ UNCHANGED cur
    BY <1>10 DEF CollectMessageRef, drop_message_ref, mailbox_message_destroy
  <2> QED
    BY <1>r, <2>1 DEF SameOwner, SameEnd, SenderStays, DyingPC
<1> QED
  BY <1>1, <1>2, <1>3, <1>4, <1>5, <1>6, <1>7, <1>8, <1>9, <1>10 DEF CallStep, LuaStep

(* ... and so does every step. *)
LEMMA MboxStep == TypeOK /\ SchedInv /\ MsgInv /\ MboxInv /\ [Next]_vars => MboxInv'
<1> SUFFICES ASSUME TypeOK, SchedInv, MsgInv, MboxInv, [Next]_vars PROVE MboxInv'
  OBVIOUS
<1>1. ASSUME UNCHANGED vars PROVE MboxInv'
  <2>1. UNCHANGED <<mboxState, lastMessage, rcpt, mboxRef, taskState, pc, cur, arg>>
    BY <1>1 DEF vars, mailboxVars, mboxVars, msgVars, taskVars, localVars, refVars
  <2>2. /\ \A b \in Task : SameLife(b)
        /\ \A w \in Worker : SameOwner(w) /\ SameEnd(w)
        /\ \A x \in Thread : SenderStays(x)
    BY <2>1 DEF SameLife, SameOwner, SameEnd, SenderStays, StateOf
  <2> QED
    BY <2>1, <2>2, MboxQuiet
<1> QED
  BY <1>1, WorkerMbox, CallerMbox DEF Next

(* Before the first spawn there is no mailbox. *)
LEMMA MboxInit == Init => MboxInv
<1> SUFFICES ASSUME Init PROVE MboxInv
  OBVIOUS
<1>1. /\ \A b \in Task : taskState[b] = "none" /\ mboxRef[b] = None
      /\ \A th \in Thread : pc[th] \in {"lua", "pop", "none"}
  BY DEF Init, ProcessInit
<1>2. OwnersRight /\ SenderHasRef
  BY <1>1 DEF OwnersRight, SenderHasRef
<1>3. FinalStored
  BY <1>1 DEF FinalStored, DyingPC, Thread
<1> QED
  BY <1>2, <1>3 DEF MboxInv

(* The runtime's whole invariant: scheduler, messages and mailboxes.        *)
LEMMA RuntimeInvariant == Spec => [](TypeOK /\ SchedInv /\ MsgInv /\ MboxInv)
<1>1. TypeOK /\ SchedInv /\ MsgInv /\ MboxInv /\ [Next]_vars => MboxInv'
  BY MboxStep
<1> QED
  BY <1>1, MboxInit, MsgInvariant, PTL DEF Spec

(* A mailbox is freed by the second of its two owners and not before, and   *)
(* no sender past the unlocked check writes into a freed one.               *)
THEOREM MailboxFreedOnce == Spec => []MailboxLifetime
<1>1. ASSUME TypeOK, MboxInv PROVE MailboxLifetime
  <2>1. ASSUME NEW b \in Task, taskState[b] \notin {"none", "leaked"}
        PROVE  mboxState[b] = CASE mboxRef[b] = None /\ TaskReleased(b) -> "freed"
                                [] mboxRef[b] # None /\ ~TaskReleased(b) -> "alive"
                                [] OTHER -> "dead"
    <3>1. mboxState[b] \in {"none", "alive", "dead", "freed"}
      BY <1>1 DEF TypeOK, MailboxTypeOK
    <3> QED
      BY <1>1, <2>1, <3>1 DEF MboxInv, OwnersRight
  <2> QED
    BY <1>1, <2>1, SenderMailbox DEF MailboxLifetime
<1> QED
  BY <1>1, RuntimeInvariant, PTL

(* Who has a reference to a dead mailbox finds the final value in it.       *)
THEOREM FinalValueStored == Spec => []FinalValueKept
<1>1. ASSUME TypeOK, MboxInv PROVE FinalValueKept
  <2> SUFFICES ASSUME NEW b \in Task, mboxRef[b] # None, mboxState[b] # "alive"
               PROVE  lastMessage[b]
    BY DEF FinalValueKept, mailbox_isactive
  <2>1. TaskReleased(b)
    BY <1>1 DEF MboxInv, OwnersRight
  <2> QED
    BY <1>1, <2>1 DEF TaskReleased, MboxInv, FinalStored, DyingPC
<1> QED
  BY <1>1, RuntimeInvariant, PTL

-----------------------------------------------------------------------------
(* Messages in the mailbox of an idle task. *)

(* Thread x is about to notify task t: it is the sender of a message, or    *)
(* the worker that has just made the task idle.                             *)
Notifying(x, t) ==
  \/ pc[x] = "notify" /\ rcpt[arg[x]] = t
  \/ x \in Worker /\ cur[x] = t /\ pc[x] \in LeavingPC

(* Somebody is about to notify task t. *)
Remembered(t) == \E x \in Thread : Notifying(x, t)

(* WorkNotForgotten in these terms ... *)
LEMMA RememberedIs ==
  WorkNotForgotten <=> \A t \in Task : taskState[t] = "idle" /\ mailbox_peek(t) => Remembered(t)
BY ProcessAssumption DEF WorkNotForgotten, Remembered, Notifying, Thread, LeavingPC

(* ... before and after a step. *)
LEMMA RememberedIsNext ==
  WorkNotForgotten' <=>
    \A t \in Task : taskState'[t] = "idle" /\ mailbox_peek(t)' => Remembered(t)'
BY ProcessAssumption DEF WorkNotForgotten, Remembered, Notifying, Thread, LeavingPC

(* A woken thread has nobody to notify. *)
LEMMA BystanderNotifies ==
  ASSUME NEW x \in Thread, NEW t \in Task, Bystander(x), UNCHANGED rcpt
  PROVE  Notifying(x, t) => Notifying(x, t)'
BY DEF Bystander, Notifying, LeavingPC

(* Task t is idle over a message only if it was so before.                  *)
NothingNew(t) ==
  taskState'[t] = "idle" /\ mailbox_peek(t)' => taskState[t] = "idle" /\ mailbox_peek(t)

(* Steps that neither make work nor end a notification, or only the         *)
(* notification of a task that is not left idle.                            *)
LEMMA ForgetQuiet ==
  ASSUME WorkNotForgotten,
         \A t \in Task : NothingNew(t),
         \A x \in Thread, t \in Task :
           Notifying(x, t) => Notifying(x, t)' \/ taskState'[t] # "idle" \/ ~mailbox_peek(t)
  PROVE  WorkNotForgotten'
BY RememberedIs, RememberedIsNext DEF Remembered, NothingNew

(* A notification of t leaves no task that was not idle, and not t, idle.   *)
LEMMA NotifyIdle ==
  ASSUME TypeOK, NEW t \in Task, NEW th \in Thread, NEW l \in PC,
         notify_pointer(t, [pc EXCEPT ![th] = l])
  PROVE  /\ taskState'[t] # "idle"
         /\ \A b \in Task : taskState'[b] = "idle" => taskState[b] = "idle"
<1>1. \A b \in Task : process_notify_task(b, [pc EXCEPT ![th] = l]) =>
        /\ taskState'[b] # "idle"
        /\ \A c \in Task : taskState'[c] = "idle" => taskState[c] = "idle"
  BY DEF process_notify_task, TypeOK, TaskTypeOK
<1>2. CASE taskState[t] # "freed"
  BY <1>1, <1>2 DEF notify_pointer
<1>3. CASE taskState[t] = "freed"
  BY <1>1, <1>3 DEF notify_pointer
<1> QED
  BY <1>2, <1>3

(* The mailbox of a task that is idle is allocated.                         *)
LEMMA IdleMailbox ==
  ASSUME TypeOK, SchedInv, MboxInv, NEW t \in Task, taskState[t] = "idle"
  PROVE  mboxState[t] # "freed"
<1>1. ~TaskReleased(t)
  BY DEF TaskReleased, SchedInv, TaskStateMatches, DyingPC
<1> QED
  BY <1>1 DEF MboxInv, OwnersRight

(* A worker leaves a task idle over a message only on the way to a peek     *)
(* that sees it or a notification: the mailbox it peeks into is allocated   *)
(* as long as the task is idle.                                             *)
LEMMA WorkerForgets ==
  ASSUME TypeOK, SchedInv, MboxInv, WorkNotForgotten, NEW w \in Worker,
         WorkerStep(w) \/ LuaReturns(w) \/ PopFails(w)
  PROVE  WorkNotForgotten'
<1>0. UNCHANGED rcpt => \A x \in Thread \ {w}, t \in Task : Notifying(x, t) => Notifying(x, t)'
  BY WorkerAlone, BystanderNotifies
<1> USE ProcessAssumption DEF Thread, localVars, taskVars, refVars, mailboxVars, mboxVars, msgVars,
        At, Goto, TypeOK, ThreadTypeOK
<1>q. ASSUME UNCHANGED rcpt, pc[w] \notin {"notify"} \union LeavingPC,
             \A t \in Task : taskState'[t] = "idle" => taskState[t] = "idle",
             \A t \in Task : inbox'[t] # <<>> => inbox[t] # <<>>
      PROVE  WorkNotForgotten'
  <2>1. \A t \in Task : ~Notifying(w, t)
    BY <1>q DEF Notifying
  <2>2. \A t \in Task : NothingNew(t)
    BY <1>q DEF NothingNew, mailbox_peek
  <2> QED
    BY <1>0, <1>q, <2>1, <2>2, ForgetQuiet
<1>1. CASE pop_task(w) \/ WaitForJob(w)
  BY <1>1, <1>q DEF pop_task, WaitForJob, LeavingPC
<1>2. CASE StartTask(w) \/ SetDead(w) \/ FreeTask(w)
  <2>1. /\ UNCHANGED <<rcpt, inbox>> /\ pc[w] \in {"start", "set_dead", "close"}
        /\ \E s \in {"processing", "dead", "freed"} : taskState' = [taskState EXCEPT ![cur[w]] = s]
    BY <1>2 DEF StartTask, SetDead, FreeTask
  <2>2. \A t \in Task : taskState'[t] = "idle" => taskState[t] = "idle"
    BY <2>1 DEF TaskTypeOK
  <2> QED
    BY <1>q, <2>1, <2>2 DEF LeavingPC
<1>3. CASE SetIdle(w)
  <2>0. PICK b \in Task : b = cur[w]
    BY <1>3, BusyHasTask DEF SetIdle, IdlePC
  <2>1. /\ UNCHANGED <<rcpt, inbox, cur>> /\ pc[w] = "decide" /\ pc'[w] = "peek"
        /\ taskState' = [taskState EXCEPT ![b] = "idle"]
    BY <1>3, <2>0 DEF SetIdle
  <2>2. Notifying(w, b)' /\ \A t \in Task : ~Notifying(w, t)
    BY <2>0, <2>1 DEF Notifying, LeavingPC
  <2>3. \A t \in Task \ {b} : taskState'[t] = "idle" => taskState[t] = "idle"
    BY <2>1 DEF TaskTypeOK
  <2> SUFFICES ASSUME NEW t \in Task, taskState'[t] = "idle", mailbox_peek(t)'
               PROVE  Remembered(t)'
    BY RememberedIsNext
  <2>4. CASE t = b
    BY <2>2, <2>4 DEF Remembered
  <2>5. CASE t # b
    <3>1. Remembered(t)
      BY <2>1, <2>3, <2>5, RememberedIs DEF mailbox_peek
    <3>2. \E x \in Thread \ {w} : Notifying(x, t)
      BY <2>2, <3>1 DEF Remembered
    <3> QED
      BY <1>0, <2>1, <3>2 DEF Remembered
  <2> QED
    BY <2>4, <2>5
<1>4. CASE Receive(w)
  <2>1. UNCHANGED <<rcpt, taskState>> /\ pc[w] = "receive"
    BY <1>4 DEF Receive, mailbox_receive_content
  <2>2. \A t \in Task : inbox'[t] # <<>> => inbox[t] # <<>>
    <3>1. inbox' = inbox \/ (mailbox_peek(cur[w]) /\ inbox' = [inbox EXCEPT ![cur[w]] = Tail(@)])
      BY <1>4 DEF Receive, mailbox_receive_content
    <3> QED
      BY <3>1 DEF mailbox_peek, MailboxTypeOK
  <2> QED
    BY <1>q, <2>1, <2>2 DEF LeavingPC
<1>5. CASE DrainNext(w)
  <2>1. UNCHANGED <<rcpt, taskState>> /\ pc[w] = "drain"
    BY <1>5 DEF DrainNext, mailbox_receive
  <2>2. \A t \in Task : inbox'[t] # <<>> => inbox[t] # <<>>
    BY <1>5 DEF DrainNext, mailbox_receive, mailbox_peek, MailboxTypeOK
  <2> QED
    BY <1>q, <2>1, <2>2 DEF LeavingPC
<1>6. CASE SetContent(w)
  <2>1. UNCHANGED <<rcpt, taskState, inbox>> /\ pc[w] = "set_content"
    BY <1>6 DEF SetContent, mailbox_message_content_set
  <2> QED
    BY <1>q, <2>1 DEF LeavingPC
<1>7. CASE Reply(w)
  <2>1. UNCHANGED <<rcpt, taskState, inbox>> /\ pc[w] = "reply"
    BY <1>7 DEF Reply, mailbox_message_reply
  <2> QED
    BY <1>q, <2>1 DEF LeavingPC
<1>8. CASE DrainReply(w)
  <2>1. UNCHANGED <<rcpt, taskState, inbox>> /\ pc[w] = "drain_reply"
    BY <1>8 DEF DrainReply, mailbox_message_reply
  <2> QED
    BY <1>q, <2>1 DEF LeavingPC
<1>9. CASE DestroyMessage(w) \/ DrainDestroy(w)
  BY <1>9, <1>q DEF DestroyMessage, DrainDestroy, mailbox_message_destroy, LeavingPC
<1>10. CASE Peek(w)
  <2>0. PICK b \in Task : b = cur[w]
    BY <1>10, BusyHasTask DEF Peek, IdlePC
  <2>1. UNCHANGED <<rcpt, taskState, inbox>> /\ pc[w] = "peek"
    BY <1>10 DEF Peek
  <2>2. \/ pc'[w] \in {"peek", "renotify"} /\ UNCHANGED cur
        \/ ~mailbox_peek(b) \/ taskState[b] = "freed" \/ mboxState[b] = "freed"
    BY <1>10, <2>0 DEF Peek
  <2>3. Notifying(w, b)' \/ ~mailbox_peek(b) \/ taskState[b] # "idle"
    BY <2>0, <2>2, IdleMailbox DEF Notifying, LeavingPC
  <2>4. \A t \in Task : Notifying(w, t) => t = b
    BY <2>0, <2>1 DEF Notifying
  <2>5. \A t \in Task : NothingNew(t)
    BY <2>1 DEF NothingNew, mailbox_peek
  <2> QED
    BY <1>0, <2>1, <2>3, <2>4, <2>5, ForgetQuiet
<1>11. CASE Renotify(w)
  <2>0. PICK b \in Task : b = cur[w]
    BY <1>11, BusyHasTask DEF Renotify, IdlePC
  <2>1. UNCHANGED <<rcpt, inbox>> /\ pc[w] = "renotify"
    BY <1>11 DEF Renotify
  <2>2. notify_pointer(b, [pc EXCEPT ![w] = "pop"]) /\ "pop" \in PC
    BY <1>11, <2>0 DEF Renotify, PC, IdlePC
  <2>3. /\ taskState'[b] # "idle"
        /\ \A t \in Task : taskState'[t] = "idle" => taskState[t] = "idle"
    BY <2>2, NotifyIdle
  <2>4. \A t \in Task : Notifying(w, t) => t = b
    BY <2>0, <2>1 DEF Notifying
  <2>5. \A t \in Task : NothingNew(t)
    BY <2>1, <2>3 DEF NothingNew, mailbox_peek
  <2> QED
    BY <1>0, <2>1, <2>3, <2>4, <2>5, ForgetQuiet
<1>12. CASE SetLastMessage(w) \/ DrainEnd(w) \/ DestroyMailbox(w)
  BY <1>12, <1>q DEF SetLastMessage, mailbox_set_last_message, DrainEnd, DestroyMailbox,
     mailbox_destroy, LeavingPC
<1>13. CASE CloseRefs(w)
  <2>1. UNCHANGED <<rcpt, taskState, inbox>> /\ pc[w] = "close"
    BY <1>13 DEF CloseRefs, drop_mailbox_ref, drop_message_ref, mailbox_destroy,
       mailbox_message_destroy
  <2> QED
    BY <1>q, <2>1 DEF LeavingPC
<1>14. CASE LuaReturns(w) \/ PopFails(w)
  <2>1. UNCHANGED <<rcpt, taskState, inbox>> /\ pc[w] \in {"lua", "set_content", "decide"}
    BY <1>14 DEF LuaReturns, PopFails
  <2> QED
    BY <1>q, <2>1 DEF LeavingPC
<1> QED
  BY <1>1, <1>2, <1>3, <1>4, <1>5, <1>6, <1>7, <1>8, <1>9, <1>10, <1>11, <1>12, <1>13, <1>14
     DEF WorkerStep

(* A sender that has appended a message is on its way to the notification.  *)
LEMMA CallerForgets ==
  ASSUME TypeOK, MsgInv, WorkNotForgotten, NEW th \in Thread,
         CallStep(th) \/ LuaStep(th) \/ SpuriousWakeup(th)
  PROVE  WorkNotForgotten'
<1>0. UNCHANGED rcpt => \A x \in Thread \ {th}, t \in Task : Notifying(x, t) => Notifying(x, t)'
  BY CallerAlone, BystanderNotifies
<1> USE ProcessAssumption DEF Thread, localVars, taskVars, refVars, mailboxVars, mboxVars, msgVars,
        At, Goto, TypeOK, ThreadTypeOK
<1>q. ASSUME UNCHANGED <<rcpt, inbox>>, pc[th] \notin {"notify"} \union LeavingPC,
             \A t \in Task : taskState'[t] = "idle" => taskState[t] = "idle"
      PROVE  WorkNotForgotten'
  <2>1. \A t \in Task : ~Notifying(th, t)
    BY <1>q DEF Notifying
  <2>2. \A t \in Task : NothingNew(t)
    BY <1>q DEF NothingNew, mailbox_peek
  <2> QED
    BY <1>0, <1>q, <2>1, <2>2, ForgetQuiet
<1>1. CASE SendAppend(th)
  <2>0. PICK b \in Task : b = rcpt[arg[th]]
    BY <1>1 DEF SendAppend, CallPC, MailboxTypeOK
  <2>1. /\ UNCHANGED <<rcpt, taskState, arg>> /\ pc[th] = "append" /\ pc'[th] = "notify"
        /\ inbox' = [inbox EXCEPT ![b] = Append(@, arg[th])]
    BY <1>1, <2>0 DEF SendAppend, mailbox_append
  <2>2. Notifying(th, b)' /\ \A t \in Task : ~Notifying(th, t)
    BY <2>0, <2>1 DEF Notifying, LeavingPC
  <2> SUFFICES ASSUME NEW t \in Task, taskState'[t] = "idle", mailbox_peek(t)'
               PROVE  Remembered(t)'
    BY RememberedIsNext
  <2>3. CASE t = b
    BY <2>2, <2>3 DEF Remembered
  <2>4. CASE t # b
    <3>1. mailbox_peek(t)
      BY <2>1, <2>4 DEF mailbox_peek, MailboxTypeOK
    <3>2. Remembered(t)
      BY <2>1, <3>1, RememberedIs
    <3>3. \E x \in Thread \ {th} : Notifying(x, t)
      BY <2>2, <3>2 DEF Remembered
    <3> QED
      BY <1>0, <2>1, <3>3 DEF Remembered
  <2> QED
    BY <2>3, <2>4
<1>2. CASE SendNotify(th)
  <2>0. PICK b \in Task : b = rcpt[arg[th]]
    BY <1>2, SendNotifyMoves
  <2>1. UNCHANGED <<rcpt, inbox>> /\ pc[th] = "notify"
    BY <1>2 DEF SendNotify
  <2>2. notify_pointer(b, [pc EXCEPT ![th] = "lua"]) /\ "lua" \in PC
    BY <1>2, <2>0 DEF SendNotify, PC, BusyPC
  <2>3. /\ taskState'[b] # "idle"
        /\ \A t \in Task : taskState'[t] = "idle" => taskState[t] = "idle"
    BY <2>2, NotifyIdle
  <2>4. \A t \in Task : Notifying(th, t) => t = b
    BY <2>0, <2>1 DEF Notifying, LeavingPC
  <2>5. \A t \in Task : NothingNew(t)
    BY <2>1, <2>3 DEF NothingNew, mailbox_peek
  <2> QED
    BY <1>0, <2>1, <2>3, <2>4, <2>5, ForgetQuiet
<1>3. CASE GetWait(th) \/ GetReturns(th) \/ SpuriousWakeup(th)
  <2>1. UNCHANGED <<rcpt, inbox, taskState>> /\ pc[th] \in {"get", "wait", "get_wait"}
    BY <1>3 DEF GetWait, GetReturns, SpuriousWakeup
  <2> QED
    BY <1>q, <2>1 DEF LeavingPC
<1>4. ASSUME NEW t \in Task, Spawn(th, t) \/ SpawnFails(th, t) PROVE WorkNotForgotten'
  <2>1. /\ UNCHANGED <<rcpt, inbox>> /\ pc[th] = "lua"
        /\ \E s \in {"init", "leaked"} : taskState' = [taskState EXCEPT ![t] = s]
    BY <1>4 DEF Spawn, SpawnFails, mailbox_init
  <2>2. \A c \in Task : taskState'[c] = "idle" => taskState[c] = "idle"
    BY <2>1 DEF TaskTypeOK
  <2> QED
    BY <1>q, <2>1, <2>2 DEF LeavingPC
<1>5. ASSUME NEW b \in Task, CollectMailboxRef(th, b) PROVE WorkNotForgotten'
  BY <1>5, <1>q DEF CollectMailboxRef, drop_mailbox_ref, mailbox_destroy, LeavingPC
<1>6. ASSUME NEW new \in SUBSET Worker, ExtendPool(th, new) PROVE WorkNotForgotten'
  BY <1>6, <1>q DEF ExtendPool, LeavingPC
<1>7. ASSUME NEW b \in Task, NEW k \in Msg, SendStart(th, b, k) PROVE WorkNotForgotten'
  <2>1. /\ pc[th] = "lua" /\ msgState[k] = "none"
        /\ rcpt' = [rcpt EXCEPT ![k] = b]
        /\ UNCHANGED <<inbox, taskState, cur>>
        /\ \A x \in Thread \ {th} : pc'[x] = pc[x] /\ arg'[x] = arg[x]
    BY <1>7 DEF SendStart, message_alloc
  <2>2. \A x \in Thread : ~Sending(x, k)
    BY <2>1, Holders DEF MsgInv, HoldInv, StateRight
  <2>3. ASSUME NEW x \in Thread, pc[x] = "notify" PROVE rcpt'[arg[x]] = rcpt[arg[x]]
    BY <2>1, <2>2, <2>3 DEF Sending, CallPC, MailboxTypeOK
  <2>4. \A t \in Task : ~Notifying(th, t)
    BY <2>1 DEF Notifying, LeavingPC
  <2>5. \A x \in Thread, t \in Task : Notifying(x, t) => Notifying(x, t)'
    BY <2>1, <2>3, <2>4 DEF Notifying
  <2>6. \A t \in Task : NothingNew(t)
    BY <2>1 DEF NothingNew, mailbox_peek
  <2> QED
    BY <2>5, <2>6, ForgetQuiet
<1>8. ASSUME NEW m \in Msg, GetStart(th, m) PROVE WorkNotForgotten'
  BY <1>8, <1>q DEF GetStart, LeavingPC
<1>9. ASSUME NEW m \in Msg, CollectMessageRef(th, m) PROVE WorkNotForgotten'
  BY <1>9, <1>q DEF CollectMessageRef, drop_message_ref, mailbox_message_destroy, LeavingPC
<1> QED
  BY <1>1, <1>2, <1>3, <1>4, <1>5, <1>6, <1>7, <1>8, <1>9 DEF CallStep, LuaStep

(* No task is left idle over a message: that the mailbox is looked at after *)
(* the task was made idle, and that the sender notifies after it appended,  *)
(* is enough, however the two interleave.                                   *)
THEOREM NoWorkForgotten == Spec => []WorkNotForgotten
<1>1. Init => WorkNotForgotten
  <2> SUFFICES ASSUME Init PROVE WorkNotForgotten
    OBVIOUS
  <2>1. \A t \in Task : taskState[t] = "none"
    BY DEF Init, ProcessInit
  <2> QED
    BY <2>1 DEF WorkNotForgotten
<1>2. TypeOK /\ SchedInv /\ MsgInv /\ MboxInv /\ WorkNotForgotten /\ [Next]_vars
        => WorkNotForgotten'
  <2> SUFFICES ASSUME TypeOK, SchedInv, MsgInv, MboxInv, WorkNotForgotten, [Next]_vars
               PROVE  WorkNotForgotten'
    OBVIOUS
  <2>1. ASSUME UNCHANGED vars PROVE WorkNotForgotten'
    <3>1. UNCHANGED <<pc, cur, arg, rcpt, taskState, inbox>>
      BY <2>1 DEF vars, mailboxVars, mboxVars, msgVars, taskVars, localVars
    <3> QED
      BY <3>1 DEF WorkNotForgotten, mailbox_peek
  <2> QED
    BY <2>1, WorkerForgets, CallerForgets DEF Next
<1> QED
  BY <1>1, <1>2, RuntimeInvariant, PTL DEF Spec
=============================================================================
