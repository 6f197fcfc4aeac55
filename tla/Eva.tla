--------------------------------- MODULE Eva ---------------------------------
(***************************************************************************)
(* The eva web server: main (src/http/main.c) passes the HTTP request       *)
(* processor as the handler of a channel.                                   *)
(*                                                                         *)
(* What makes the composition delicate is that both sides own a             *)
(* connection.  The select loop keeps the descriptor in its sets and a slot *)
(* of its table for it; the request processor keeps a stream on the same    *)
(* descriptor, which it closes when the answer is sent; and the parser in   *)
(* the slot goes back to a pool.                                            *)
(***************************************************************************)
EXTENDS Channel, RequestProcessor

vars == <<channelVars, rpVars>>

Init == ChannelInit /\ PoolInit

-----------------------------------------------------------------------------
(* main's handler. *)

(* begin_cb.  p is the parser the connection gets. *)
msg_start(s, p) ==
  /\ get_http_parser(p)
  /\ request_processor_reset(p, s)
  /\ UNCHANGED <<pool, fault>>

(* part_cb.  fclose on the stream closes the descriptor under it.  The      *)
(* number of bytes parsed is returned, which is never negative: an error of *)
(* the parser goes unnoticed.                                               *)
dispatch(p, es) ==
  LET c == http_parser_execute(conn[p], es)
  IN  /\ conn' = [conn EXCEPT ![p] = c]
      /\ fds' = IF c.stream = "open" THEN fds ELSE fds \ {client[p]}
      /\ fault' = CASE c.stream = "misused" -> "stream"
                    [] c.stream # "misused" /\ c.type = "N" -> "path"
                    [] OTHER -> fault
      /\ UNCHANGED <<pool, top, made, surplus, client>>

(* end_cb *)
msg_end(p) ==
  /\ release_http_parser(p)
  /\ UNCHANGED <<client, conn>>

-----------------------------------------------------------------------------
(* The loop's steps that call the handler. *)

(* A slot whose position is 0 has had no input: a connection begins. *)
Visit(s) ==
  /\ VisitClient(s)
  /\ LET kept == Zeroed(aux, None, maxClient')
     IN  \/ /\ position'[s]
            /\ aux' = kept
            /\ UNCHANGED rpVars
         \/ /\ ~position'[s]
            /\ \E p \in Parser : /\ msg_start(s, p)
                                 /\ aux' = [kept EXCEPT ![s] = p]

Recv ==
  /\ RecvPart
  /\ \E es \in Chunks(conn[aux[sd]].stage) : dispatch(aux[sd], es)

Close ==
  /\ EndConnection
  /\ msg_end(aux[sd])
  /\ aux' = [aux EXCEPT ![sd] = None]

-----------------------------------------------------------------------------
Environment ==
  \/ ClientConnects
  \/ \E s \in SD : ClientSends(s) \/ ClientCloses(s)
  \/ term_handler

LoopStep ==
  \/ ReceiveStarts \/ MainEnds \/ LoopTest
  \/ SelectReady \/ SelectTimeout \/ (\E s \in SD : SelectSpurious(s))
  \/ VisitListen \/ (\E s \in SD : Accept(s)) \/ AcceptFails \/ ScanEnds
  \/ RecvWouldBlock \/ CloseAll

HandlerStep == (\E s \in SD : Visit(s)) \/ Recv \/ Close

ServerStep == fault = "none" /\ ((LoopStep /\ UNCHANGED rpVars) \/ HandlerStep)

(* main has returned, or the behaviour is undefined from here on. *)
Ended == (pc = "stopped" \/ fault # "none") /\ UNCHANGED vars

Next ==
  \/ fault = "none" /\ pc # "stopped" /\ Environment /\ UNCHANGED rpVars
  \/ ServerStep
  \/ Ended

Spec == Init /\ [][Next]_vars

(* The server's thread runs; clients and the operator owe it nothing. *)
FairSpec == Spec /\ WF_vars(ServerStep)

-----------------------------------------------------------------------------
(* Properties. *)

Location == {"main", "loop", "select", "scan", "accept", "recv", "closing", "stopped"}

(* Every variable of the select loop has its type. *)
ChannelTypeOK ==
  /\ pc \in Location /\ isAlive \in BOOLEAN /\ alive \in BOOLEAN
  /\ masterSet \subseteq SD \union {Listen}
  /\ workingSet \subseteq SD \union {Listen}
  /\ maxSd \in SD \union {Listen}
  /\ maxClient \in SD \union {Listen, -1}
  /\ clientsLength \in Nat
  /\ position \in [SD -> BOOLEAN]
  /\ aux \in [SD -> Parser \union {None}]
  /\ sd \in SD \union {Listen}
  /\ fds \subseteq SD
  /\ backlog \in Nat
  /\ inbox \in [SD -> Nat]
  /\ hup \in [SD -> BOOLEAN]
  /\ used \in [conn : Nat, data : Nat, spurious : Nat]

(* And every variable of the request processor. *)
RequestTypeOK ==
  /\ pool \in [0 .. PoolSize - 1 -> Parser]
  /\ top \in -1 .. PoolSize
  /\ made \in PoolSize .. MaxParser
  /\ surplus \in Nat
  /\ client \in [Parser -> SD \union {-1}]
  /\ conn \in [Parser -> [stream : {"none", "open", "closed", "misused"},
                          type : {"?", "L", "S", "N"},
                          stage : {"head", "body", "dead"},
                          requests : Nat]]
  /\ fault \in {"none", "pool", "stream", "path"}

(* Type invariant. *)
TypeOK == ChannelTypeOK /\ RequestTypeOK

Receiving == pc \in {"loop", "select", "scan", "accept", "recv", "closing"}

(* The clients table is resized by the highest descriptor seen so far, in a *)
(* scan that may stop early.  Even so the slot in use is inside the table,  *)
(* and no connection whose request has begun has its slot cut off.          *)
SlotInTable ==
  /\ pc = "recv" => sd < clientsLength
  /\ Receiving => \A s \in masterSet \ {Listen} :
                     position[s] => s < clientsLength /\ s =< maxClient

(* max_sd follows accepts and closes: it is the largest descriptor watched, *)
(* so select sees all of them.  And unless the callback has just closed the *)
(* stream of the connection being received from, every descriptor watched   *)
(* is open, and every open one is watched: select cannot fail with EBADF    *)
(* and no connection is forgotten.                                          *)
WatchesOpenConnections ==
  Receiving => /\ maxSd \in masterSet
               /\ \A s \in masterSet : s =< maxSd
               /\ fds \subseteq masterSet
               /\ masterSet \ (fds \union {Listen}) \subseteq
                     IF pc = "recv" THEN {sd} ELSE {}

(* The connections that hold a parser. *)
Begun == {s \in masterSet \ {Listen} : position[s] \/ (pc = "recv" /\ s = sd)}

(* parser_stack_top keeps up with the connections that hold a parser,       *)
(* through time-outs, which return none: it falls short of their number by  *)
(* at most the parsers that were ever made because the pool was empty,      *)
(* since each release pops the stack but those parsers were never pushed.   *)
(* So the index leaves the array only after such a parser was made.         *)
PoolCoversConnections == Receiving => top + surplus >= Cardinality(Begun)

(* A connection whose request has begun has, until end_cb, a parser of its  *)
(* own that was reset for it: not in the pool and not of another connection.*)
ParserIsExclusive ==
  Receiving /\ fault = "none" =>
    \A s \in Begun : /\ aux[s] \in Out
                      /\ client[aux[s]] = s

(* A connection that is new, because its descriptor was just accepted, has  *)
(* a clean slot, also if an earlier connection had the same descriptor:     *)
(* a slot in use and a slot without parser exclude each other.              *)
SlotMatchesParser ==
  Receiving /\ pc # "recv" =>
    \A s \in SD : s < clientsLength /\ position[s] => s \in masterSet /\ aux[s] # None

(* The stream of an answer is written to and closed once, however the       *)
(* request is cut into chunks and whoever answers; a closed stream is       *)
(* touched again only if a chunk holds a second request.                    *)
StreamClosedOnce ==
  fault = "stream" => \E p \in Parser : conn[p].requests > 1

(* What the server has read it has answered: when it waits in select, no    *)
(* connection is left with its headers parsed and its stream gone, or with  *)
(* a complete message and its stream open.                                  *)
WaitingMeansUnanswered ==
  pc = "select" /\ fault = "none" =>
    \A s \in masterSet \ {Listen} : position[s] =>
      LET c == conn[aux[s]] IN /\ c.stream = "open"
                               /\ c.stage = "body" => c.type = "S"
                               /\ c.stage = "head" => c.requests = 0

(* A connection that has sent something is read from, or is closed: one     *)
(* that is accepted later, has a higher descriptor, or is ready at the same *)
(* time as others is not forgotten.                                         *)
InputIsRead ==
  \A s \in SD :
    (s \in fds /\ inbox[s] > 0) ~> (s \notin fds \/ inbox[s] = 0 \/ fault # "none")

(* After SIGTERM or SIGINT, wherever it hits the loop, main returns.        *)
StopEnds == ~alive ~> (pc = "stopped" \/ fault # "none")

(* Violated.  A connection whose input the parser has rejected is not kept. *)
MalformedIsClosed ==
  pc = "select" /\ fault = "none" =>
    \A s \in masterSet \ {Listen} : position[s] => conn[aux[s]].stage # "dead"
=============================================================================
