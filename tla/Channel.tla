------------------------------- MODULE Channel -------------------------------
(***************************************************************************)
(* The server side of src/comm/channel.c: the single-threaded select loop   *)
(* of mb_channel_receive, with its table of clients indexed by descriptor,  *)
(* and the kernel's view of the connections.                                *)
(*                                                                         *)
(* The loop's calls of the handler (begin_cb, part_cb, end_cb) belong to    *)
(* the program that passes it; module Eva conjoins them to the actions      *)
(* VisitClient, RecvPart and EndConnection below, which leave aux, and what *)
(* the callbacks do to the descriptors, to it.                              *)
(***************************************************************************)
EXTENDS Integers, FiniteSets

CONSTANTS Listen,      \* channel->sd
          SD,          \* the descriptors accept can return
          CLIENTS,     \* slack of the clients table
          MaxConn,     \* bound: connections clients ever make
          MaxData,     \* bound: chunks of data clients ever send
          MaxSpurious, \* bound: descriptors reported ready without being so
          None

ASSUME ChannelAssumption ==
  /\ Listen \in Nat /\ SD \subseteq Nat /\ Listen \notin SD
  /\ CLIENTS \in Nat \ {0}
  /\ None \notin Int
  /\ MaxConn \in Nat /\ MaxData \in Nat /\ MaxSpurious \in Nat

VARIABLES
  pc,            \* where the server's only thread is
  isAlive,       \* main's is_alive
  alive,         \* channel->alive
  masterSet,     \* master_set
  workingSet,    \* what is left to visit of working_set; its size is ready_count
  maxSd,         \* max_sd
  maxClient,     \* max_client
  clientsLength, \* clients_length
  position,      \* is clients[s].position nonzero?
  aux,           \* clients[s].aux_data
  sd,            \* the connection being received from
  fds,           \* kernel: open descriptors of connections
  backlog,       \* kernel: connections waiting to be accepted
  inbox,         \* kernel: chunks that wait to be received from a descriptor
  hup,           \* kernel: has the client closed the connection?
  used           \* how much of the three bounds is used up

loopVars   == <<masterSet, workingSet, maxSd, maxClient>>
tableVars  == <<clientsLength, position>>
kernelVars == <<fds, backlog, inbox, hup, used>>
channelVars == <<pc, isAlive, alive, loopVars, tableVars, aux, sd, kernelVars>>

(* After mb_channel_bind_port, in main. *)
ChannelInit ==
  /\ pc = "main" /\ isAlive = TRUE /\ alive = TRUE
  /\ masterSet = {} /\ workingSet = {}
  /\ maxSd = Listen /\ maxClient = -1 /\ clientsLength = 0
  /\ position = [s \in SD |-> FALSE]
  /\ aux = [s \in SD |-> None]
  /\ sd = Listen
  /\ fds = {} /\ backlog = 0
  /\ inbox = [s \in SD |-> 0]
  /\ hup = [s \in SD |-> FALSE]
  /\ used = [conn |-> 0, data |-> 0, spurious |-> 0]

-----------------------------------------------------------------------------
(* Clients and the operator. *)

ClientConnects ==
  /\ used.conn < MaxConn
  /\ used' = [used EXCEPT !.conn = @ + 1]
  /\ backlog' = backlog + 1
  /\ UNCHANGED <<pc, isAlive, alive, loopVars, tableVars, aux, sd, fds, inbox, hup>>

ClientSends(s) ==
  /\ s \in fds /\ ~hup[s] /\ used.data < MaxData
  /\ used' = [used EXCEPT !.data = @ + 1]
  /\ inbox' = [inbox EXCEPT ![s] = @ + 1]
  /\ UNCHANGED <<pc, isAlive, alive, loopVars, tableVars, aux, sd, fds, backlog, hup>>

(* An orderly close, or a reset, which also discards what was not received. *)
ClientCloses(s) ==
  /\ s \in fds /\ ~hup[s]
  /\ hup' = [hup EXCEPT ![s] = TRUE]
  /\ \E left \in {inbox[s], 0} : inbox' = [inbox EXCEPT ![s] = left]
  /\ UNCHANGED <<pc, isAlive, alive, loopVars, tableVars, aux, sd, fds, backlog, used>>

(* Mutation: only the channel is stopped. *)
term_handler_channel_only ==
  /\ isAlive /\ alive
  /\ alive' = FALSE /\ isAlive' = isAlive
  /\ pc' \in IF pc = "select" THEN {"select", "closing"} ELSE {pc}
  /\ UNCHANGED <<loopVars, tableVars, aux, sd, kernelVars>>

(* SIGTERM or SIGINT.  It interrupts select, unless the thread has checked  *)
(* channel->alive but is not blocked yet.                                   *)
term_handler ==
  /\ isAlive
  /\ isAlive' = FALSE /\ alive' = FALSE
  /\ pc' \in IF pc = "select" THEN {"select", "closing"} ELSE {pc}
  /\ UNCHANGED <<loopVars, tableVars, aux, sd, kernelVars>>

-----------------------------------------------------------------------------
(* mb_channel_receive: entry, the loop's condition, select. *)

(* main's loop calls mb_channel_receive, which sets up its tables. *)
ReceiveStarts ==
  /\ pc = "main" /\ isAlive
  /\ pc' = "loop"
  /\ masterSet' = {Listen} /\ workingSet' = {}
  /\ maxSd' = Listen /\ maxClient' = -1
  /\ clientsLength' = Listen + CLIENTS
  /\ position' = [s \in SD |-> FALSE]
  /\ aux' = [s \in SD |-> None]
  /\ UNCHANGED <<isAlive, alive, sd, kernelVars>>

MainEnds ==
  /\ pc = "main" /\ ~isAlive
  /\ pc' = "stopped"
  /\ UNCHANGED <<isAlive, alive, loopVars, tableVars, aux, sd, kernelVars>>

LoopTest ==
  /\ pc = "loop"
  /\ pc' = IF alive THEN "select" ELSE "closing"
  /\ UNCHANGED <<isAlive, alive, loopVars, tableVars, aux, sd, kernelVars>>

(* What select sees: the first max_sd + 1 descriptors of the set. *)
Readable == {s \in masterSet : /\ s =< maxSd
                               /\ IF s = Listen THEN backlog > 0
                                                ELSE inbox[s] > 0 \/ hup[s]}

SelectReady ==
  /\ pc = "select" /\ Readable # {}
  /\ workingSet' = Readable
  /\ pc' = "scan"
  /\ UNCHANGED <<isAlive, alive, masterSet, maxSd, maxClient, tableVars, aux, sd,
                 kernelVars>>

(* select can report a connection that has nothing to receive.              *)
SelectSpurious(s) ==
  /\ pc = "select" /\ s \in masterSet \ Readable /\ s # Listen /\ s =< maxSd
  /\ used.spurious < MaxSpurious
  /\ used' = [used EXCEPT !.spurious = @ + 1]
  /\ workingSet' = Readable \union {s}
  /\ pc' = "scan"
  /\ UNCHANGED <<isAlive, alive, masterSet, maxSd, maxClient, tableVars, aux, sd,
                 fds, backlog, inbox, hup>>

(* Ten seconds without input. *)
SelectTimeout ==
  /\ pc = "select" /\ Readable = {}
  /\ pc' = "closing"
  /\ UNCHANGED <<isAlive, alive, loopVars, tableVars, aux, sd, kernelVars>>

-----------------------------------------------------------------------------
(* The loop over the descriptors.  A descriptor that is not in working_set  *)
(* only moves max_client, so a step goes to the next one that is.           *)

ScanTo(s) ==
  /\ pc = "scan"
  /\ s \in workingSet /\ (\A u \in workingSet : s =< u) /\ s =< maxSd
  /\ workingSet' = workingSet \ {s}
  /\ maxClient' = LET m == IF s > maxClient THEN s ELSE maxClient
                  IN  IF maxSd < m THEN maxSd ELSE m

ScanEnds ==
  /\ pc = "scan"
  /\ \A s \in workingSet : s > maxSd
  /\ pc' = "loop"
  /\ UNCHANGED <<isAlive, alive, loopVars, tableVars, aux, sd, kernelVars>>

VisitListen ==
  /\ ScanTo(Listen)
  /\ pc' = "accept"
  /\ UNCHANGED <<isAlive, alive, masterSet, maxSd, tableVars, aux, sd, kernelVars>>

(* Mutation: max_sd is not raised. *)
Accept_same_max(s) ==
  /\ pc = "accept" /\ backlog > 0 /\ s \in SD \ fds
  /\ backlog' = backlog - 1
  /\ fds' = fds \union {s}
  /\ inbox' = [inbox EXCEPT ![s] = 0]
  /\ hup' = [hup EXCEPT ![s] = FALSE]
  /\ masterSet' = masterSet \union {s}
  /\ UNCHANGED <<pc, isAlive, alive, workingSet, maxSd, maxClient, tableVars, aux,
                 sd, used>>

(* Mutation: max_sd is the number of descriptors to watch, not the largest. *)
Accept_counts(s) ==
  /\ pc = "accept" /\ backlog > 0 /\ s \in SD \ fds
  /\ backlog' = backlog - 1
  /\ fds' = fds \union {s}
  /\ inbox' = [inbox EXCEPT ![s] = 0]
  /\ hup' = [hup EXCEPT ![s] = FALSE]
  /\ masterSet' = masterSet \union {s}
  /\ maxSd' = IF s > maxSd THEN s + 1 ELSE maxSd
  /\ UNCHANGED <<pc, isAlive, alive, workingSet, maxClient, tableVars, aux, sd, used>>

(* accept returns s, which is watched from now on. *)
Accept(s) ==
  /\ pc = "accept" /\ backlog > 0 /\ s \in SD \ fds
  /\ backlog' = backlog - 1
  /\ fds' = fds \union {s}
  /\ inbox' = [inbox EXCEPT ![s] = 0]
  /\ hup' = [hup EXCEPT ![s] = FALSE]
  /\ masterSet' = masterSet \union {s}
  /\ maxSd' = IF s > maxSd THEN s ELSE maxSd
  /\ UNCHANGED <<pc, isAlive, alive, workingSet, maxClient, tableVars, aux, sd, used>>

(* accept fails: nobody waits, or no descriptor is free. *)
AcceptFails ==
  /\ pc = "accept" /\ (backlog = 0 \/ SD \subseteq fds)
  /\ pc' = "scan"
  /\ UNCHANGED <<isAlive, alive, loopVars, tableVars, aux, sd, kernelVars>>

(* Mutation: the table shrinks by one slot too many. *)
Resized_short(mc) ==
  IF mc >= clientsLength THEN mc + CLIENTS
  ELSE IF mc < clientsLength - CLIENTS THEN mc
  ELSE clientsLength

(* The length the table gets for a given max_client. *)
Resized(mc) ==
  IF mc >= clientsLength THEN mc + CLIENTS
  ELSE IF mc < clientsLength - CLIENTS THEN mc + 1
  ELSE clientsLength

(* A field f of the table after that: what is new is zero. *)
Zeroed(f, zero, mc) ==
  [s \in SD |-> IF clientsLength =< s /\ s < Resized(mc) THEN zero ELSE f[s]]

VisitClient(s) ==
  /\ s # Listen
  /\ ScanTo(s)
  /\ clientsLength' = Resized(maxClient')
  /\ position' = Zeroed(position, FALSE, maxClient')
  /\ sd' = s
  /\ pc' = "recv"
  /\ UNCHANGED <<isAlive, alive, masterSet, maxSd, kernelVars>>

(* recv returns data, which part_cb is given; the callback can close        *)
(* the descriptor.                                                          *)
RecvPart ==
  /\ pc = "recv" /\ sd \in fds /\ inbox[sd] > 0
  /\ inbox' = [inbox EXCEPT ![sd] = @ - 1]
  /\ position' = [position EXCEPT ![sd] = TRUE]
  /\ UNCHANGED <<pc, isAlive, alive, loopVars, clientsLength, aux, sd, backlog, hup,
                 used>>

(* EWOULDBLOCK *)
RecvWouldBlock ==
  /\ pc = "recv" /\ sd \in fds /\ inbox[sd] = 0 /\ ~hup[sd]
  /\ pc' = "scan"
  /\ UNCHANGED <<isAlive, alive, loopVars, tableVars, aux, sd, kernelVars>>

(* Mutation: the slot is not reset. *)
EndConnection_keeps_slot ==
  /\ pc = "recv" /\ (sd \notin fds \/ (inbox[sd] = 0 /\ hup[sd]))
  /\ UNCHANGED position
  /\ fds' = fds \ {sd}
  /\ masterSet' = masterSet \ {sd}
  /\ \E m \in masterSet' : /\ IF sd = maxSd THEN \A u \in masterSet' : u =< m
                                            ELSE m = maxSd
                           /\ maxSd' = m
  /\ pc' = "scan"
  /\ UNCHANGED <<isAlive, alive, workingSet, maxClient, clientsLength, sd, backlog,
                 inbox, hup, used>>

(* The client has closed the connection, or recv fails because the          *)
(* descriptor is closed: end_cb, reset of the slot, close.  max_sd goes     *)
(* down to the largest descriptor that is left.                             *)
EndConnection ==
  /\ pc = "recv" /\ (sd \notin fds \/ (inbox[sd] = 0 /\ hup[sd]))
  /\ position' = [position EXCEPT ![sd] = FALSE]
  /\ fds' = fds \ {sd}
  /\ masterSet' = masterSet \ {sd}
  /\ \E m \in masterSet' : /\ IF sd = maxSd THEN \A u \in masterSet' : u =< m
                                            ELSE m = maxSd
                           /\ maxSd' = m
  /\ pc' = "scan"
  /\ UNCHANGED <<isAlive, alive, workingSet, maxClient, clientsLength, sd, backlog,
                 inbox, hup, used>>

(* Every connection is closed, without end_cb, and the table freed. *)
CloseAll ==
  /\ pc = "closing"
  /\ fds' = fds \ {s \in masterSet : s =< maxSd}
  /\ masterSet' = {s \in masterSet : s > maxSd} \union {Listen}
  /\ clientsLength' = 0
  /\ pc' = "main"
  /\ UNCHANGED <<isAlive, alive, workingSet, maxSd, maxClient, position, aux, sd,
                 backlog, inbox, hup, used>>
=============================================================================
