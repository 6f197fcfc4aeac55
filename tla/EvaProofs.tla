------------------------------ MODULE EvaProofs ------------------------------
(***************************************************************************)
(* Proofs about module Eva, for any set of descriptors, any slack of the    *)
(* clients table, any size of the parser pool and chunks of any length: the *)
(* select loop watches the open connections, never uses a slot outside its  *)
(* table, gives each connection a parser of its own, and answers what it    *)
(* has read, on a stream that it closes once.                               *)
(*                                                                         *)
(* None of these is inductive alone.  The descriptor that a callback closes *)
(* is the right one because the parser in the slot was reset for that       *)
(* connection (Parsers), the slot is intact because the table is never cut  *)
(* below a slot in use (Slots), and a slot in use belongs to a watched      *)
(* descriptor because working_set holds no descriptor twice (Watch).  On    *)
(* these rest what a connection's stream is between two chunks (Streams)    *)
(* and how many parsers the connections need (PoolCovers).                  *)
(***************************************************************************)
EXTENDS Eva, FiniteSetTheorems, WellFoundedInduction, TLAPS

(* The types the argument needs. *)
Types ==
  /\ pc \in Location
  /\ masterSet \subseteq SD \union {Listen}
  /\ maxSd \in Int /\ maxClient \in Int /\ clientsLength \in Int
  /\ position \in [SD -> BOOLEAN]
  /\ aux \in [SD -> Parser \union {None}]
  /\ fds \subseteq SD
  /\ pool \in [0 .. PoolSize - 1 -> Parser]
  /\ top \in Int /\ made \in 0 .. MaxParser
  /\ client \in [Parser -> SD \union {-1}]

(* WatchesOpenConnections, with what is left to visit being watched, and    *)
(* nothing open or watched between two calls of mb_channel_receive.         *)
Watch ==
  /\ WatchesOpenConnections
  /\ Receiving => Listen \in masterSet
  /\ ~Receiving => fds = {} /\ masterSet \subseteq {Listen}
  /\ pc \in {"scan", "accept", "recv"} => workingSet \subseteq masterSet
  /\ pc = "recv" => sd \in masterSet \ {Listen} /\ sd \notin workingSet

(* A slot in use is that of a watched descriptor, inside the table, and has *)
(* a parser.                                                                *)
Slots ==
  /\ Receiving => \A s \in SD : position[s] => /\ s \in masterSet
                                               /\ s < clientsLength
                                               /\ s =< maxClient
  /\ pc = "recv" => sd < clientsLength /\ sd =< maxClient
  /\ \A s \in Begun : aux[s] \in Parser

(* The idle parsers differ from each other and from those of connections,   *)
(* and a connection's parser is reset for it.                               *)
Parsers ==
  fault = "none" =>
    /\ top \in 0 .. PoolSize
    /\ \A i \in top .. PoolSize - 1 : pool[i] \in 1 .. made
    /\ \A i, j \in top .. PoolSize - 1 : i # j => pool[i] # pool[j]
    /\ \A s \in Begun : /\ aux[s] \in 1 .. made
                        /\ client[aux[s]] = s
                        /\ \A i \in top .. PoolSize - 1 : aux[s] # pool[i]

IInv == Types /\ Watch /\ Slots /\ Parsers

(* The table's new length covers max_client, and every slot in use it       *)
(* covered before.                                                          *)
LEMMA ResizedCovers ==
  ASSUME clientsLength \in Int, NEW mc \in Int, NEW s \in Int, s =< mc
  PROVE  /\ Resized(mc) \in Int
         /\ s < Resized(mc)
BY ChannelAssumption DEF Resized, ChannelAssumption

(* What a step to the next ready descriptor does to max_client: it covers   *)
(* the descriptor and every watched one it covered before.                  *)
LEMMA ScanCovers ==
  ASSUME NEW s \in Int, IInv, ScanTo(s), pc = "scan"
  PROVE  /\ maxClient' \in Int
         /\ s \in masterSet /\ s =< maxClient'
         /\ workingSet' \subseteq masterSet /\ s \notin workingSet'
         /\ \A u \in SD : position[u] => u =< maxClient'
<1>1. maxSd \in Int /\ maxClient \in Int /\ SD \subseteq Int
  BY ChannelAssumption DEF IInv, Types, ChannelAssumption
<1>2. \A u \in masterSet : u =< maxSd
  BY DEF IInv, Watch, WatchesOpenConnections, Receiving
<1>3. \A u \in SD : position[u] => u \in masterSet /\ u =< maxClient
  BY DEF IInv, Slots, Receiving
<1>4. maxClient' = IF maxSd < (IF s > maxClient THEN s ELSE maxClient) THEN maxSd
                   ELSE IF s > maxClient THEN s ELSE maxClient
  BY DEF ScanTo
<1>5. s =< maxSd
  BY DEF ScanTo
<1>6. maxClient' \in Int /\ s =< maxClient'
  BY <1>1, <1>4, <1>5
<1>7. \A u \in SD : position[u] => u =< maxClient'
  BY <1>1, <1>2, <1>3, <1>4
<1>8. s \in masterSet /\ workingSet' \subseteq masterSet /\ s \notin workingSet'
  BY DEF IInv, Watch, ScanTo
<1> QED BY <1>6, <1>7, <1>8

LEMMA InitIInv == Init => IInv
<1> SUFFICES ASSUME Init PROVE IInv
  OBVIOUS
<1> USE ChannelAssumption, PoolAssumption DEF ChannelAssumption, PoolAssumption
<1>1. ~Receiving /\ Begun = {} /\ pc = "main"
  BY DEF Init, ChannelInit, Receiving, Begun
<1>2. Types
  BY DEF Init, ChannelInit, PoolInit, Types, Location, Parser
<1>3. Watch
  BY <1>1 DEF Init, ChannelInit, Watch, WatchesOpenConnections
<1>4. Slots
  BY <1>1 DEF Slots
<1>5. Parsers
  BY <1>1 DEF Init, PoolInit, Parsers
<1> QED BY <1>2, <1>3, <1>4, <1>5 DEF IInv

(* Steps that touch neither the loop's sets, nor the table, nor a parser.   *)
LEMMA EnvironmentIInv ==
  ASSUME IInv, Environment, UNCHANGED rpVars PROVE IInv'
<1>1. UNCHANGED <<masterSet, workingSet, maxSd, maxClient, clientsLength, position,
                  aux, sd, fds, pool, top, made, client, fault>>
  BY DEF Environment, ClientConnects, ClientSends, ClientCloses, term_handler,
         rpVars, loopVars, tableVars, kernelVars
<1>2. pc' = pc \/ (pc = "select" /\ pc' = "closing")
  BY DEF Environment, ClientConnects, ClientSends, ClientCloses, term_handler
<1>3. Begun' = Begun /\ Receiving' = Receiving
  BY <1>1, <1>2 DEF Begun, Receiving
<1>4. Types'
  BY <1>1, <1>2 DEF IInv, Types, Location
<1>5. Watch'
  BY <1>1, <1>2, <1>3 DEF IInv, Watch, WatchesOpenConnections, Receiving
<1>6. Slots'
  BY <1>1, <1>2, <1>3 DEF IInv, Slots
<1>7. Parsers'
  BY <1>1, <1>3 DEF IInv, Parsers
<1> QED BY <1>4, <1>5, <1>6, <1>7 DEF IInv

(* The loop's steps that call no callback. *)
LEMMA LoopIInv ==
  ASSUME IInv, LoopStep, UNCHANGED rpVars PROVE IInv'
<1> USE ChannelAssumption DEF ChannelAssumption
<1>0. /\ UNCHANGED <<pool, top, made, client, fault>>
      /\ Types /\ Watch /\ Slots /\ Parsers
  BY DEF rpVars, IInv
(* The connections that hold a parser only become fewer. *)
<1>p. ASSUME Begun' \subseteq Begun, \A s \in Begun' : aux'[s] = aux[s]
      PROVE  Parsers' /\ \A s \in Begun' : aux'[s] \in Parser
  BY <1>0, <1>p DEF Parsers, Slots
<1>1. CASE ReceiveStarts
  <2>1. pc' = "loop" /\ masterSet' = {Listen} /\ fds' = {} /\ Begun' = {}
    BY <1>1, <1>0 DEF ReceiveStarts, Watch, Receiving, kernelVars, Begun
  <2>2. Types'
    BY <1>1, <1>0, <2>1 DEF ReceiveStarts, Types, Location
  <2>3. Watch'
    BY <1>1, <2>1 DEF ReceiveStarts, Watch, WatchesOpenConnections, Receiving
  <2>4. Slots' /\ Parsers'
    BY <1>1, <2>1, <1>p DEF ReceiveStarts, Slots
  <2> QED BY <2>2, <2>3, <2>4 DEF IInv
<1>2. CASE MainEnds \/ LoopTest \/ SelectTimeout \/ ScanEnds \/ AcceptFails \/ RecvWouldBlock
  <2>1. /\ UNCHANGED <<masterSet, workingSet, maxSd, maxClient, clientsLength,
                       position, aux, sd, fds>>
        /\ pc' \in Location \ {"recv"}
        /\ pc' = "accept" => FALSE
        /\ pc' = "scan" => pc \in {"accept", "recv"}
        /\ pc = "recv" => sd \in fds
        /\ Receiving' = Receiving
    BY <1>2 DEF MainEnds, LoopTest, SelectTimeout, ScanEnds, AcceptFails, RecvWouldBlock,
                Location, Receiving, loopVars, tableVars, kernelVars
  <2>2. Begun' \subseteq Begun
    BY <2>1 DEF Begun
  <2>3. Types'
    BY <1>0, <2>1 DEF Types
  <2>4. Watch'
    BY <1>0, <2>1 DEF Watch, WatchesOpenConnections
  <2>5. Slots' /\ Parsers'
    BY <1>0, <2>1, <2>2, <1>p DEF Slots
  <2> QED BY <2>3, <2>4, <2>5 DEF IInv
<1>3. CASE SelectReady \/ \E s \in SD : SelectSpurious(s)
  <2>1. /\ UNCHANGED <<masterSet, maxSd, maxClient, clientsLength, position, aux, sd, fds>>
        /\ pc = "select" /\ pc' = "scan" /\ workingSet' \subseteq masterSet
    BY <1>3 DEF SelectReady, SelectSpurious, Readable, tableVars, kernelVars
  <2>2. Begun' \subseteq Begun /\ Receiving /\ Receiving'
    BY <2>1 DEF Begun, Receiving
  <2>3. Types'
    BY <1>0, <2>1 DEF Types, Location
  <2>4. Watch'
    BY <1>0, <2>1, <2>2 DEF Watch, WatchesOpenConnections
  <2>5. Slots' /\ Parsers'
    BY <1>0, <2>1, <2>2, <1>p DEF Slots
  <2> QED BY <2>3, <2>4, <2>5 DEF IInv
<1>4. CASE VisitListen
  <2>1. /\ UNCHANGED <<masterSet, maxSd, clientsLength, position, aux, sd, fds>>
        /\ pc = "scan" /\ pc' = "accept" /\ ScanTo(Listen)
    BY <1>4 DEF VisitListen, ScanTo, tableVars, kernelVars
  <2>2. /\ maxClient' \in Int /\ workingSet' \subseteq masterSet
        /\ \A u \in SD : position[u] => u =< maxClient'
    BY <2>1, ScanCovers
  <2>3. Begun' \subseteq Begun /\ Receiving /\ Receiving'
    BY <2>1 DEF Begun, Receiving
  <2>4. Types'
    BY <1>0, <2>1, <2>2 DEF Types, Location
  <2>5. Watch'
    BY <1>0, <2>1, <2>2, <2>3 DEF Watch, WatchesOpenConnections
  <2>6. Slots' /\ Parsers'
    BY <1>0, <2>1, <2>2, <2>3, <1>p DEF Slots
  <2> QED BY <2>4, <2>5, <2>6 DEF IInv
<1>5. ASSUME NEW s \in SD, Accept(s) PROVE IInv'
  <2>1. /\ UNCHANGED <<workingSet, maxClient, clientsLength, position, aux, sd>>
        /\ pc = "accept" /\ pc' = "accept" /\ s \notin fds
        /\ masterSet' = masterSet \union {s} /\ fds' = fds \union {s}
        /\ maxSd' = IF s > maxSd THEN s ELSE maxSd
    BY <1>5 DEF Accept, tableVars
  <2>2. Receiving /\ Receiving'
    BY <2>1 DEF Receiving
  <2>3. Begun' \subseteq Begun
    BY <1>0, <2>1, <2>2 DEF Begun, Slots
  <2>4. Types'
    BY <1>0, <2>1 DEF Types
  <2>5. WatchesOpenConnections'
    <3>1. maxSd \in Int /\ masterSet \subseteq Int /\ s \in Int
      BY <1>0 DEF Types
    <3>2. maxSd' \in masterSet' /\ \A u \in masterSet' : u =< maxSd'
      BY <1>0, <2>1, <2>2, <3>1 DEF Watch, WatchesOpenConnections
    <3> QED BY <1>0, <2>1, <2>2, <3>2 DEF Watch, WatchesOpenConnections
  <2>6. Watch'
    BY <1>0, <2>1, <2>2, <2>5 DEF Watch
  <2>7. Slots' /\ Parsers'
    BY <1>0, <2>1, <2>2, <2>3, <1>p DEF Slots
  <2> QED BY <2>4, <2>6, <2>7 DEF IInv
<1>6. CASE CloseAll
  <2>1. /\ pc = "closing" /\ pc' = "main" /\ Receiving /\ ~Receiving'
        /\ UNCHANGED <<workingSet, maxSd, maxClient, position, aux, sd>>
        /\ clientsLength' = 0
    BY <1>6 DEF CloseAll, Receiving
  <2>2. fds' = {} /\ masterSet' = {Listen} /\ Begun' = {}
    <3>1. fds \subseteq masterSet /\ \A s \in masterSet : s =< maxSd
      BY <1>0, <2>1 DEF Watch, WatchesOpenConnections
    <3>2. \A s \in masterSet : ~(s > maxSd)
      BY <3>1, <1>0 DEF Types
    <3> QED BY <1>6, <2>1, <3>1, <3>2 DEF CloseAll, Begun
  <2>3. Types'
    BY <1>0, <2>1, <2>2 DEF Types, Location
  <2>4. Watch'
    BY <2>1, <2>2 DEF Watch, WatchesOpenConnections
  <2>5. Slots' /\ Parsers'
    BY <2>1, <2>2, <1>p DEF Slots
  <2> QED BY <2>3, <2>4, <2>5 DEF IInv
<1> QED BY <1>1, <1>2, <1>3, <1>4, <1>5, <1>6 DEF LoopStep

(* Visit: the table is resized around the slots in use, and a connection    *)
(* that begins gets a parser that nobody has.                               *)
LEMMA VisitIInv ==
  ASSUME IInv, NEW s \in SD, Visit(s), fault = "none" PROVE IInv'
<1> USE ChannelAssumption DEF ChannelAssumption
<1>0. Types /\ Watch /\ Slots /\ Parsers /\ s \in Int /\ SD \subseteq Int /\ s # Listen
  BY DEF IInv
<1>1. /\ UNCHANGED <<masterSet, maxSd, fds>>
      /\ pc = "scan" /\ pc' = "recv" /\ ScanTo(s) /\ sd' = s
      /\ clientsLength' = Resized(maxClient')
      /\ position' = Zeroed(position, FALSE, maxClient')
      /\ Receiving /\ Receiving'
  BY DEF Visit, VisitClient, ScanTo, kernelVars, Receiving
<1>2. /\ maxClient' \in Int /\ s \in masterSet /\ s =< maxClient'
      /\ workingSet' \subseteq masterSet /\ s \notin workingSet'
      /\ \A u \in SD : position[u] => u =< maxClient'
  BY <1>0, <1>1, ScanCovers
<1>3. clientsLength' \in Int /\ \A u \in SD : u =< maxClient' => u < clientsLength'
  <2> PICK mc \in Int : mc = maxClient'
    BY <1>2
  <2>1. Resized(mc) \in Int /\ \A u \in Int : u =< mc => u < Resized(mc)
    BY <1>0, ResizedCovers DEF Types
  <2> QED BY <1>0, <1>1, <2>1
<1>4. position' \in [SD -> BOOLEAN] /\ \A u \in SD : position'[u] => position[u]
  BY <1>0, <1>1 DEF Types, Zeroed
<1> DEFINE kept == Zeroed(aux, None, maxClient')
<1>5. kept \in [SD -> Parser \union {None}] /\ \A u \in SD : position[u] => kept[u] = aux[u]
  <2> PICK mc \in Int : mc = maxClient'
    BY <1>2
  <2>1. \A u \in SD : position[u] => u \in Int /\ u < clientsLength
    BY <1>0, <1>1 DEF Slots
  <2>2. clientsLength \in Int /\ aux \in [SD -> Parser \union {None}]
    BY <1>0 DEF Types
  <2>3. Zeroed(aux, None, mc) \in [SD -> Parser \union {None}]
    BY <2>2 DEF Zeroed
  <2>4. \A u \in SD : position[u] => Zeroed(aux, None, mc)[u] = aux[u]
    BY <2>1, <2>2 DEF Zeroed
  <2> QED BY <2>3, <2>4
<1> HIDE DEF kept
<1>6. Watch'
  BY <1>0, <1>1, <1>2 DEF Watch, WatchesOpenConnections
<1>7. /\ \A u \in SD : position'[u] => /\ u \in masterSet' /\ u < clientsLength'
                                       /\ u =< maxClient'
      /\ sd' < clientsLength' /\ sd' =< maxClient'
  BY <1>0, <1>1, <1>2, <1>3, <1>4 DEF Slots
<1>8. Begun' \subseteq Begun \union {s} /\ \A u \in Begun : u \in SD /\ position[u]
  BY <1>0, <1>1, <1>4 DEF Begun, Types
<1>9. CASE position'[s] /\ aux' = kept /\ UNCHANGED rpVars
  <2>1. Begun' \subseteq Begun
    BY <1>1, <1>2, <1>4, <1>8, <1>9, <1>0 DEF Begun
  <2>2. \A u \in Begun' : aux'[u] = aux[u]
    BY <1>5, <1>8, <1>9, <2>1
  <2>3. UNCHANGED <<pool, top, made, client, fault>>
    BY <1>9 DEF rpVars
  <2>4. Types'
    BY <1>0, <1>1, <1>2, <1>3, <1>4, <1>5, <1>9, <2>3 DEF Types, Location
  <2>5. Slots'
    BY <1>0, <1>1, <1>7, <2>1, <2>2 DEF Slots
  <2>6. Parsers'
    BY <1>0, <2>1, <2>2, <2>3 DEF Parsers
  <2> QED BY <1>6, <2>4, <2>5, <2>6 DEF IInv
<1>10. ASSUME NEW p \in Parser, msg_start(s, p), aux' = [kept EXCEPT ![s] = p],
              ~position'[s]
       PROVE  IInv'
  <2>1. UNCHANGED <<pool, fault>> /\ client' = [client EXCEPT ![p] = s]
    BY <1>10 DEF msg_start, request_processor_reset
  <2>2. \/ top < PoolSize /\ p = pool[top] /\ top' = top + 1 /\ made' = made
        \/ top >= PoolSize /\ p = made + 1 /\ top' = top /\ made' = made + 1
    BY <1>10 DEF msg_start, get_http_parser
  <2>3. /\ top \in 0 .. PoolSize /\ made \in 0 .. MaxParser /\ PoolSize \in Nat
        /\ pool \in [0 .. PoolSize - 1 -> Parser] /\ Parser = 1 .. MaxParser
        /\ MaxParser \in Nat
        /\ \A i \in top .. PoolSize - 1 : pool[i] \in 1 .. made
        /\ \A i, j \in top .. PoolSize - 1 : i # j => pool[i] # pool[j]
    BY <1>0, PoolAssumption DEF Types, Parsers, PoolAssumption, Parser
  <2>4. \A u \in Begun : /\ aux[u] \in 1 .. made /\ client[aux[u]] = u
                         /\ \A i \in top .. PoolSize - 1 : aux[u] # pool[i]
    BY <1>0 DEF Parsers
  (* p is nobody's, and is taken out of the idle ones. *)
  <2>5. /\ p \in 1 .. made' /\ made' \in 0 .. MaxParser /\ made =< made'
        /\ top' \in 0 .. PoolSize /\ top =< top'
        /\ \A i \in top' .. PoolSize - 1 : pool[i] # p
        /\ \A u \in Begun : aux[u] # p
    BY <2>2, <2>3, <2>4
  <2>6. aux'[s] = p /\ \A u \in Begun \ {s} : aux'[u] = aux[u]
    BY <1>5, <1>8, <1>10
  <2>7. client'[p] = s /\ \A u \in Begun : client'[aux[u]] = client[aux[u]]
    BY <2>1, <2>3, <2>4, <2>5, <1>0 DEF Types
  <2>8. \A u \in Begun' : /\ aux'[u] \in 1 .. made'
                          /\ client'[aux'[u]] = u
                          /\ \A i \in top' .. PoolSize - 1 : aux'[u] # pool[i]
    <3> SUFFICES ASSUME NEW u \in Begun'
                 PROVE  /\ aux'[u] \in 1 .. made'
                        /\ client'[aux'[u]] = u
                        /\ \A i \in top' .. PoolSize - 1 : aux'[u] # pool[i]
      OBVIOUS
    <3>1. CASE u = s
      BY <3>1, <2>5, <2>6, <2>7
    <3>2. CASE u # s
      BY <3>2, <1>8, <2>3, <2>4, <2>5, <2>6, <2>7
    <3> QED BY <3>1, <3>2
  <2>9. Parsers'
    <3>1. \A i \in top' .. PoolSize - 1 : i \in top .. PoolSize - 1
      BY <2>3, <2>5
    <3> QED BY <2>1, <2>3, <2>5, <2>8, <3>1 DEF Parsers
  <2>10. Types'
    <3>1. aux' \in [SD -> Parser \union {None}]
      BY <1>5, <1>10
    <3>2. client' \in [Parser -> SD \union {-1}]
      BY <1>0, <2>1 DEF Types
    <3>3. top' \in Int /\ made' \in 0 .. MaxParser
      BY <2>3, <2>5
    <3>4. pool' \in [0 .. PoolSize - 1 -> Parser]
      BY <2>1, <2>3
    <3>5. /\ pc' \in Location
          /\ masterSet' \subseteq SD \union {Listen} /\ fds' \subseteq SD
          /\ maxSd' \in Int /\ maxClient' \in Int /\ clientsLength' \in Int
      BY <1>0, <1>1, <1>2, <1>3 DEF Types, Location
    <3> QED BY <1>4, <3>1, <3>2, <3>3, <3>4, <3>5 DEF Types
  <2>11. Slots'
    <3>1. \A u \in Begun' : aux'[u] \in Parser
      BY <2>3, <2>5, <2>8
    <3> QED BY <1>1, <1>7, <3>1 DEF Slots
  <2> QED BY <1>6, <2>9, <2>10, <2>11 DEF IInv
<1> QED BY <1>9, <1>10 DEF Visit, kept

(* Recv: the descriptor a callback closes is that of the connection being   *)
(* received from.                                                           *)
LEMMA RecvIInv ==
  ASSUME IInv, Recv, fault = "none" PROVE IInv'
<1> USE ChannelAssumption DEF ChannelAssumption
<1>0. Types /\ Watch /\ Slots /\ Parsers
  BY DEF IInv
<1>1. /\ UNCHANGED <<pc, masterSet, workingSet, maxSd, maxClient, clientsLength, aux, sd,
                     pool, top, made, client>>
      /\ pc = "recv" /\ position' = [position EXCEPT ![sd] = TRUE]
      /\ Receiving /\ Receiving'
      /\ fds' = fds \/ fds' = fds \ {client[aux[sd]]}
  BY DEF Recv, RecvPart, dispatch, loopVars, Receiving
<1>2. sd \in masterSet \ {Listen} /\ sd \in SD /\ sd \in Begun
  BY <1>0, <1>1 DEF Watch, Types, Begun
<1>3. client[aux[sd]] = sd
  BY <1>0, <1>2 DEF Parsers
<1>4. Begun' = Begun
  BY <1>0, <1>1, <1>2 DEF Begun, Types
<1>5. Types'
  BY <1>0, <1>1, <1>2 DEF Types
<1>6. Watch'
  BY <1>0, <1>1, <1>3 DEF Watch, WatchesOpenConnections
<1>7. Slots'
  BY <1>0, <1>1, <1>2, <1>4 DEF Slots, Types
<1>8. Parsers'
  BY <1>0, <1>1, <1>4 DEF Parsers
<1> QED BY <1>5, <1>6, <1>7, <1>8 DEF IInv

(* Close: the parser of the slot goes back to the pool, and max_sd to the   *)
(* largest descriptor that is left.                                         *)
LEMMA CloseIInv ==
  ASSUME IInv, Close, fault = "none" PROVE IInv'
<1> USE ChannelAssumption DEF ChannelAssumption
<1>0. Types /\ Watch /\ Slots /\ Parsers
  BY DEF IInv
<1>1. /\ UNCHANGED <<workingSet, maxClient, clientsLength, sd, made, client>>
      /\ pc = "recv" /\ pc' = "scan" /\ Receiving /\ Receiving'
      /\ position' = [position EXCEPT ![sd] = FALSE]
      /\ aux' = [aux EXCEPT ![sd] = None]
      /\ fds' = fds \ {sd} /\ masterSet' = masterSet \ {sd}
  BY DEF Close, EndConnection, msg_end, release_http_parser, Receiving
<1>2. sd \in masterSet \ {Listen} /\ sd \in SD /\ sd \in Begun
  BY <1>0, <1>1 DEF Watch, Types, Begun
<1>3. Begun' \subseteq Begun \ {sd} /\ Begun \subseteq SD
  BY <1>0, <1>1, <1>2 DEF Begun, Types
<1>4. \A u \in Begun' : aux'[u] = aux[u]
  BY <1>0, <1>1, <1>3 DEF Types
<1> DEFINE p == aux[sd]
<1>5. /\ p \in Parser /\ top' = top - 1
      /\ pool' = IF top - 1 \in DOMAIN pool THEN [pool EXCEPT ![top - 1] = p] ELSE pool
      /\ fault' = IF top - 1 < 0 THEN "pool" ELSE fault
  BY <1>0, <1>2 DEF Close, msg_end, release_http_parser, Slots
<1> HIDE DEF p
<1>6. Types'
  <2>1. maxSd' \in masterSet'
    BY <1>1 DEF Close, EndConnection
  <2>2. pool' \in [0 .. PoolSize - 1 -> Parser]
    BY <1>0, <1>5 DEF Types
  <2> QED BY <1>0, <1>1, <1>2, <1>5, <2>1, <2>2 DEF Types, Location
<1>7. Watch'
  <2>1. \A u \in masterSet : u =< maxSd
    BY <1>0, <1>1 DEF Watch, WatchesOpenConnections
  <2>2. maxSd' \in masterSet' /\ \A u \in masterSet' : u =< maxSd'
    BY <1>1, <2>1 DEF Close, EndConnection
  <2>3. Listen \in masterSet' /\ workingSet' \subseteq masterSet'
    BY <1>0, <1>1, <1>2 DEF Watch
  <2>4. WatchesOpenConnections'
    BY <1>0, <1>1, <2>2 DEF Watch, WatchesOpenConnections
  <2> QED BY <1>1, <2>3, <2>4 DEF Watch
<1>8. Slots'
  BY <1>0, <1>1, <1>2, <1>3, <1>4 DEF Slots, Types
<1>9. Parsers'
  <2> SUFFICES ASSUME fault' = "none" PROVE Parsers'
    BY DEF Parsers
  <2>1. /\ top \in 0 .. PoolSize /\ PoolSize \in Nat
        /\ pool \in [0 .. PoolSize - 1 -> Parser]
        /\ \A i \in top .. PoolSize - 1 : pool[i] \in 1 .. made
        /\ \A i, j \in top .. PoolSize - 1 : i # j => pool[i] # pool[j]
    BY <1>0, PoolAssumption DEF Types, Parsers, PoolAssumption
  <2>2. \A u \in Begun : /\ aux[u] \in 1 .. made /\ client[aux[u]] = u
                         /\ \A i \in top .. PoolSize - 1 : aux[u] # pool[i]
    BY <1>0 DEF Parsers
  <2>3. \A u \in Begun' : aux[u] # p
    BY <1>2, <1>3, <2>2 DEF p
  <2>4. p \in 1 .. made /\ \A i \in top .. PoolSize - 1 : p # pool[i]
    BY <1>2, <2>2 DEF p
  <2>5. /\ top - 1 \in 0 .. PoolSize - 1
        /\ pool' = [pool EXCEPT ![top - 1] = p]
    BY <1>5, <2>1
  <2>6. /\ pool'[top - 1] = p
        /\ \A i \in top .. PoolSize - 1 : pool'[i] = pool[i]
        /\ \A i \in top - 1 .. PoolSize - 1 : i = top - 1 \/ i \in top .. PoolSize - 1
    BY <2>1, <2>5
  <2>7. /\ top' \in 0 .. PoolSize
        /\ \A i \in top' .. PoolSize - 1 : pool'[i] \in 1 .. made
        /\ \A i, j \in top' .. PoolSize - 1 : i # j => pool'[i] # pool'[j]
    BY <1>5, <2>1, <2>4, <2>5, <2>6
  <2>8. \A u \in Begun' : /\ aux'[u] \in 1 .. made' /\ client'[aux'[u]] = u
                          /\ \A i \in top' .. PoolSize - 1 : aux'[u] # pool'[i]
    BY <1>1, <1>3, <1>4, <1>5, <2>2, <2>3, <2>6
  <2> QED BY <1>1, <2>7, <2>8 DEF Parsers
<1> QED BY <1>6, <1>7, <1>8, <1>9 DEF IInv

LEMMA NextIInv == IInv /\ [Next]_vars => IInv'
<1> SUFFICES ASSUME IInv, [Next]_vars PROVE IInv'
  OBVIOUS
<1>1. CASE UNCHANGED vars
  BY <1>1 DEF vars, channelVars, loopVars, tableVars, kernelVars, rpVars, IInv, Types,
              Watch, WatchesOpenConnections, Slots, Parsers, Begun, Receiving
<1>2. CASE Environment /\ UNCHANGED rpVars
  BY <1>2, EnvironmentIInv
<1>3. CASE fault = "none" /\ LoopStep /\ UNCHANGED rpVars
  BY <1>3, LoopIInv
<1>4. CASE fault = "none" /\ HandlerStep
  BY <1>4, VisitIInv, RecvIInv, CloseIInv DEF HandlerStep
<1> QED BY <1>1, <1>2, <1>3, <1>4 DEF Next, ServerStep, Ended

LEMMA AlwaysIInv == Spec => []IInv
BY InitIInv, NextIInv, PTL DEF Spec

-----------------------------------------------------------------------------
(* The select loop never uses a slot outside its table of clients, and never*)
(* cuts off the slot of a connection whose request has begun, though        *)
(* max_client, which the length follows, goes down in scans.                *)
THEOREM SlotsAreSafe == Spec => []SlotInTable
<1>1. IInv => SlotInTable
  BY DEF IInv, Types, Slots, SlotInTable
<1> QED BY <1>1, AlwaysIInv, PTL

(* max_sd is the largest descriptor watched, and, between two callbacks, the*)
(* descriptors watched are exactly the open ones: select neither fails on a *)
(* closed descriptor nor overlooks a connection.                            *)
THEOREM WatchIsExact == Spec => []WatchesOpenConnections
<1>1. IInv => WatchesOpenConnections
  BY DEF IInv, Watch
<1> QED BY <1>1, AlwaysIInv, PTL

(* No two connections share a parser, and none has one that is in the pool, *)
(* although time-outs lose parsers and an empty pool makes new ones.        *)
THEOREM ParsersAreExclusive == Spec => []ParserIsExclusive
<1>1. IInv => ParserIsExclusive
  <2> SUFFICES ASSUME IInv, fault = "none", NEW s \in Begun
               PROVE  aux[s] \in Out /\ client[aux[s]] = s
    BY DEF ParserIsExclusive
  <2>1. /\ aux[s] \in 1 .. made /\ client[aux[s]] = s
        /\ \A i \in top .. PoolSize - 1 : aux[s] # pool[i]
    BY DEF IInv, Parsers
  <2>2. \A i \in DOMAIN pool : i >= top => i \in top .. PoolSize - 1
    BY DEF IInv, Types
  <2> QED BY <2>1, <2>2 DEF Out, Pooled
<1> QED BY <1>1, AlwaysIInv, PTL

(* A descriptor that is accepted anew finds a clean slot: only a watched    *)
(* connection has its slot in use, and then it has a parser.                *)
THEOREM SlotsAreClean == Spec => []SlotMatchesParser
<1>1. IInv => SlotMatchesParser
  <2> SUFFICES ASSUME IInv, Receiving, NEW s \in SD, position[s]
               PROVE  s \in masterSet /\ aux[s] # None
    BY DEF SlotMatchesParser
  <2>1. s \in Begun
    BY ChannelAssumption DEF IInv, Slots, Begun, ChannelAssumption
  <2> QED BY <2>1, ChannelAssumption, PoolAssumption
          DEF IInv, Slots, Begun, Parser, ChannelAssumption, PoolAssumption
<1> QED BY <1>1, AlwaysIInv, PTL

-----------------------------------------------------------------------------
(* Sequences of callbacks: induction over the events of a chunk. *)

(* A set of natural numbers has a least element: induction for the proofs below. *)
LEMMA LeastNatural ==
  ASSUME NEW T, T \subseteq Nat, T # {}
  PROVE  \E n \in T : n = 0 \/ (n - 1 \in Nat /\ n - 1 \notin T)
<1>1. IsWellFoundedOn({ss \in Nat \X Nat : ss[1] < ss[2]}, Nat)
  BY NatLessThanWellFounded DEF OpToRel
<1>2. PICK n \in T : \A m \in T : <<m, n>> \notin {ss \in Nat \X Nat : ss[1] < ss[2]}
  BY <1>1, WFMin
<1>3. \A m \in T : ~(m < n)
  BY <1>2
<1> QED
  BY <1>3

(* The functions that FoldLeft recurses over, for the first n events of es. *)
FoldsTo(g, c, es, n) ==
  g = [s \in SUBSET (1 .. n) |-> IF s = {} THEN c
                                 ELSE Parse(g[s \ {Max(s)}], es[Max(s)])]

(* There is one for every number of events. *)
LEMMA FoldExists ==
  ASSUME NEW c, NEW es, NEW n \in Nat
  PROVE  \E g : FoldsTo(g, c, es, n)
<1> SUFFICES ASSUME \A g : ~FoldsTo(g, c, es, n) PROVE FALSE
  OBVIOUS
<1> DEFINE T == {k \in Nat : \A g : ~FoldsTo(g, c, es, k)}
<1>1. PICK k \in T : k = 0 \/ (k - 1 \in Nat /\ k - 1 \notin T)
  BY LeastNatural
<1>2. CASE k = 0
  <2>1. FoldsTo([s \in SUBSET (1 .. 0) |-> c], c, es, 0)
    <3>1. \A s \in SUBSET (1 .. 0) : s = {}
      OBVIOUS
    <3> QED
      BY <3>1 DEF FoldsTo
  <2> QED
    BY <1>1, <1>2, <2>1
<1>3. CASE k # 0
  <2>1. PICK g : FoldsTo(g, c, es, k - 1)
    BY <1>1, <1>3
  <2> DEFINE h == [s \in SUBSET (1 .. k) |-> IF k \in s THEN Parse(g[s \ {k}], es[k]) ELSE g[s]]
  <2>2. \A s \in SUBSET (1 .. k) :
          h[s] = IF s = {} THEN c ELSE Parse(h[s \ {Max(s)}], es[Max(s)])
    <3> SUFFICES ASSUME NEW s \in SUBSET (1 .. k)
                 PROVE  h[s] = IF s = {} THEN c ELSE Parse(h[s \ {Max(s)}], es[Max(s)])
      OBVIOUS
    <3>0. k \in Nat
      BY <1>1
    <3>1. CASE k \in s
      <4>1. Max(s) = k
        <5>1. \A x \in s : x \in Nat /\ x =< k
          BY <3>0
        <5>2. \A x \in s : (\A y \in s : x >= y) <=> x = k
          BY <3>0, <3>1, <5>1
        <5> QED
          BY <3>1, <5>2 DEF Max
      <4>2. s \ {k} \in SUBSET (1 .. k) /\ k \notin s \ {k}
        OBVIOUS
      <4>3. h[s] = Parse(g[s \ {k}], es[k]) /\ h[s \ {k}] = g[s \ {k}]
        BY <3>1, <4>2
      <4> QED
        BY <3>1, <4>1, <4>3
    <3>2. CASE k \notin s
      <4>1. s \in SUBSET (1 .. k - 1)
        BY <3>0, <3>2
      <4>2. \A m : s \ {m} \in SUBSET (1 .. k) /\ k \notin s \ {m}
        BY <3>2
      <4>3. h[s] = g[s] /\ h[s \ {Max(s)}] = g[s \ {Max(s)}]
        BY <3>2, <4>2
      <4>4. g[s] = IF s = {} THEN c ELSE Parse(g[s \ {Max(s)}], es[Max(s)])
        BY <2>1, <4>1 DEF FoldsTo
      <4> QED
        BY <4>3, <4>4
    <3> QED
      BY <3>1, <3>2
  <2>3. FoldsTo(h, c, es, k)
    <3> HIDE DEF h
    <3>1. h = [s \in SUBSET (1 .. k) |-> h[s]]
      BY DEF h
    <3> QED
      BY <2>2, <3>1 DEF FoldsTo
  <2> QED
    BY <1>1, <2>3
<1> QED
  BY <1>2, <1>3

(* http_parser_execute makes the callbacks one after the other. *)
LEMMA ExecuteStepwise ==
  ASSUME NEW c, NEW n \in Nat, NEW es, DOMAIN es = 1 .. n
  PROVE  \E f : /\ f[0] = c
                /\ \A k \in 1 .. n : f[k] = Parse(f[k - 1], es[k])
                /\ http_parser_execute(c, es) = f[n]
<1> DEFINE G == CHOOSE g : FoldsTo(g, c, es, n)
<1>1. FoldsTo(G, c, es, n)
  BY FoldExists
<1>2. http_parser_execute(c, es) = G[1 .. n]
  BY DEF http_parser_execute, FoldLeft, MapThenFoldSet, FoldsTo
<1> HIDE DEF G
<1> DEFINE f == [k \in 0 .. n |-> G[1 .. k]]
<1>3. f[0] = c
  <2>1. 1 .. 0 = {} /\ {} \in SUBSET (1 .. n)
    OBVIOUS
  <2> QED
    BY <1>1, <2>1 DEF FoldsTo
<1>4. ASSUME NEW k \in 1 .. n PROVE f[k] = Parse(f[k - 1], es[k])
  <2>1. 1 .. k \in SUBSET (1 .. n) /\ 1 .. k # {} /\ (1 .. k) \ {k} = 1 .. k - 1
    OBVIOUS
  <2>2. Max(1 .. k) = k
    BY DEF Max
  <2>3. G[1 .. k] = Parse(G[1 .. k - 1], es[k])
    BY <1>1, <2>1, <2>2 DEF FoldsTo
  <2> QED
    BY <2>3
<1>5. http_parser_execute(c, es) = f[n]
  BY <1>2
<1> HIDE DEF f
<1> QED
  BY <1>3, <1>4, <1>5

-----------------------------------------------------------------------------
(* The conn_info of a parser through the callbacks of one chunk. *)

ConnInfo == [stream : {"none", "open", "closed", "misused"},
             type : {"?", "L", "S", "N"},
             stage : {"head", "body", "dead"},
             requests : Nat]

(* At most one request was begun, and the stream is open exactly as long as *)
(* it is not answered.                                                      *)
Sound(c) ==
  /\ c.requests \in {0, 1} /\ c.stream \in {"open", "closed"}
  /\ c.stage = "head" => (c.stream = "open" <=> c.requests = 0)
  /\ c.stage = "body" => /\ c.requests = 1 /\ c.type \in {"L", "S"}
                         /\ c.type = "S" <=> c.stream = "open"

(* A second request finds the stream closed, or has no path. *)
Spoilt(c) == c.requests > 1 /\ (c.stream = "misused" \/ (c.type = "N" /\ c.stage = "dead"))

(* A callback in its turn keeps that, and brings the message to the stage   *)
(* that its event stands for.                                               *)
LEMMA ParseTells ==
  ASSUME NEW c \in ConnInfo, NEW e \in Event, c.stage # "dead", Follows(c.stage, e),
         Sound(c) \/ Spoilt(c)
  PROVE  /\ Parse(c, e) \in ConnInfo /\ Parse(c, e).stage = StageAfter(e)
         /\ Sound(Parse(c, e)) \/ Spoilt(Parse(c, e))
<1> DEFINE d == Parse(c, e)
<1> DEFINE Becomes(stream, type, stage, requests) ==
             /\ d \in ConnInfo /\ d.stream = stream /\ d.type = type
             /\ d.stage = stage /\ d.requests = requests
           closed == IF c.stream = "open" THEN "closed" ELSE "misused"
           written == IF c.stream = "open" THEN "open" ELSE "misused"
<1> SUFFICES d \in ConnInfo /\ d.stage = StageAfter(e) /\ (Sound(d) \/ Spoilt(d))
  OBVIOUS
<1> USE DEF ConnInfo, StageAfter, fclose, Use
<1> DEFINE begun == [c EXCEPT !.type = e, !.stage = StageAfter(e), !.requests = @ + 1]
<1>0. ASSUME e \in {"L", "S", "N"}
      PROVE  /\ begun \in ConnInfo /\ begun.stream = c.stream /\ begun.type = e
             /\ begun.stage = StageAfter(e) /\ begun.requests = c.requests + 1
             /\ Parse(c, e) = CASE e = "L" -> http_lua_eval(begun)
                               [] e = "S" -> http_send_file(begun)
                               [] e = "N" -> begun
  <2>1. StageAfter(e) \in {"head", "body", "dead"}
    BY <1>0
  <2>2. Parse(c, e) = start_processing(c, e)
    BY <1>0 DEF Parse
  <2> HIDE DEF StageAfter
  <2>3. c.requests + 1 \in Nat /\ e \in {"?", "L", "S", "N"}
    BY <1>0
  <2> QED
    BY <2>1, <2>2, <2>3 DEF start_processing
<1> HIDE DEF begun
<1>1. CASE e = "L" /\ c.stage = "head"
  <2>1. Becomes(closed, "L", "body", c.requests + 1)
    BY <1>0, <1>1 DEF http_lua_eval
  <2> HIDE DEF d
  <2> QED
    BY <1>1, <2>1 DEF Sound, Spoilt
<1>2. CASE e = "S" /\ c.stage = "head"
  <2>1. Becomes(written, "S", "body", c.requests + 1)
    BY <1>0, <1>2 DEF http_send_file
  <2> HIDE DEF d
  <2> QED
    BY <1>2, <2>1 DEF Sound, Spoilt
<1>3. CASE e = "N" /\ c.stage = "head"
  <2>1. Becomes(c.stream, "N", "dead", c.requests + 1)
    BY <1>0, <1>3
  <2> HIDE DEF d
  <2> QED
    BY <1>3, <2>1 DEF Sound, Spoilt
<1>4. CASE e = "complete" /\ c.stage = "body"
  <2>1. Becomes(IF c.type = "S" THEN closed ELSE c.stream, c.type, "head", c.requests)
    BY <1>4 DEF Parse, message_complete
  <2> HIDE DEF d
  <2> QED
    BY <1>4, <2>1 DEF Sound, Spoilt
<1>5. CASE e = "error"
  <2>1. Becomes(c.stream, c.type, "dead", c.requests)
    BY <1>5 DEF Parse
  <2> HIDE DEF d
  <2> QED
    BY <1>5, <2>1 DEF Sound, Spoilt
<1> QED
  BY <1>1, <1>2, <1>3, <1>4, <1>5 DEF Follows, Event

(* The same of a whole chunk. *)
LEMMA ChunkTells ==
  ASSUME NEW c \in ConnInfo, Sound(c), NEW es \in Chunks(c.stage)
  PROVE  /\ http_parser_execute(c, es) \in ConnInfo
         /\ Sound(http_parser_execute(c, es)) \/ Spoilt(http_parser_execute(c, es))
<1>1. PICK n \in Nat : es \in [1 .. n -> Event] /\ Len(es) = n
  BY PoolAssumption DEF Chunks, BoundedSeq, SeqOf, PoolAssumption
<1>2. PICK f : /\ f[0] = c
               /\ \A k \in 1 .. n : f[k] = Parse(f[k - 1], es[k])
               /\ http_parser_execute(c, es) = f[n]
  <2>1. DOMAIN es = 1 .. n
    BY <1>1
  <2> QED
    BY <2>1, ExecuteStepwise
<1>3. \A i \in 1 .. n : LET before == IF i = 1 THEN c.stage ELSE StageAfter(es[i - 1])
                        IN  before # "dead" /\ Follows(before, es[i])
  BY <1>1 DEF Chunks, Legal
<1> DEFINE Told(k) == /\ f[k] \in ConnInfo /\ (Sound(f[k]) \/ Spoilt(f[k]))
                      /\ f[k].stage = IF k = 0 THEN c.stage ELSE StageAfter(es[k])
           T == {k \in Nat : k =< n /\ ~Told(k)}
<1>4. ASSUME T # {} PROVE FALSE
  <2>1. PICK k \in T : k = 0 \/ (k - 1 \in Nat /\ k - 1 \notin T)
    BY <1>4, LeastNatural
  <2>2. k # 0 /\ k - 1 \in Nat /\ Told(k - 1) /\ k \in 1 .. n
    BY <1>2, <2>1
  <2>3. f[k - 1] \in ConnInfo /\ (Sound(f[k - 1]) \/ Spoilt(f[k - 1]))
    BY <2>2
  <2>4. f[k - 1].stage = IF k = 1 THEN c.stage ELSE StageAfter(es[k - 1])
    BY <2>2
  <2>5. f[k - 1].stage # "dead" /\ Follows(f[k - 1].stage, es[k]) /\ es[k] \in Event
    BY <1>1, <1>3, <2>2, <2>4
  <2>6. f[k] = Parse(f[k - 1], es[k])
    BY <1>2, <2>2
  <2>7. Told(k)
    BY <2>2, <2>3, <2>5, <2>6, ParseTells
  <2> QED
    BY <2>1, <2>7
<1>5. Told(n)
  <2>1. n \notin T
    BY <1>4
  <2> HIDE DEF Told
  <2> QED
    BY <2>1
<1> QED
  BY <1>2, <1>5

-----------------------------------------------------------------------------
(* The connections with a parser, and what they have, through the steps. *)

(* The loop's own steps begin no connection. *)
LEMMA LoopBegun ==
  ASSUME IInv, LoopStep
  PROVE  Begun' \subseteq Begun /\ \A s \in Begun' : aux'[s] = aux[s] /\ (s \in fds' <=> s \in fds)
<1> USE ChannelAssumption DEF ChannelAssumption, IInv
<1>1. CASE ReceiveStarts
  BY <1>1 DEF ReceiveStarts, Begun
<1>2. CASE CloseAll
  <2>1. pc = "closing" /\ Receiving /\ pc' = "main" /\ masterSet \subseteq Int /\ maxSd \in Int
    BY <1>2 DEF CloseAll, Receiving, Types
  <2>2. \A s \in masterSet : ~(s > maxSd)
    BY <2>1 DEF Watch, WatchesOpenConnections
  <2> QED
    BY <1>2, <2>1, <2>2 DEF CloseAll, Begun
<1>3. ASSUME NEW s \in SD, Accept(s)
      PROVE  Begun' \subseteq Begun /\ UNCHANGED aux /\ \A u \in Begun' : u \in fds' <=> u \in fds
  <2>1. /\ pc = "accept" /\ pc' = "accept" /\ s \notin fds /\ UNCHANGED <<position, aux>>
        /\ masterSet' = masterSet \union {s} /\ fds' = fds \union {s} /\ Receiving
    BY <1>3 DEF Accept, tableVars, Receiving
  <2>2. s \notin masterSet /\ ~position[s]
    BY <1>3, <2>1 DEF Watch, WatchesOpenConnections, Slots
  <2> QED
    BY <2>1, <2>2 DEF Begun
<1>4. CASE \/ MainEnds \/ LoopTest \/ SelectTimeout \/ ScanEnds \/ AcceptFails \/ RecvWouldBlock
           \/ SelectReady \/ VisitListen \/ \E s \in SD : SelectSpurious(s)
  <2>1. UNCHANGED <<masterSet, position, aux, fds>> /\ pc' # "recv"
    BY <1>4 DEF MainEnds, LoopTest, SelectTimeout, ScanEnds, AcceptFails, RecvWouldBlock,
                SelectReady, VisitListen, SelectSpurious, loopVars, tableVars, kernelVars
  <2> QED
    BY <2>1 DEF Begun
<1> QED
  BY <1>1, <1>2, <1>3, <1>4 DEF LoopStep

(* A visit keeps the slots in use, and may begin the connection visited. *)
LEMMA VisitBegun ==
  ASSUME IInv, NEW s \in SD, Visit(s)
  PROVE  /\ s \in masterSet \ {Listen} /\ s \in fds /\ UNCHANGED fds
         /\ Begun' \subseteq Begun \union {s}
         /\ \A u \in Begun' \ {s} : u \in Begun /\ aux'[u] = aux[u]
         /\ \/ UNCHANGED rpVars /\ s \in Begun /\ aux'[s] = aux[s]
            \/ \E p \in Parser : msg_start(s, p) /\ aux'[s] = p
<1> USE ChannelAssumption DEF ChannelAssumption
<1>0. Types /\ Watch /\ Slots /\ s \in Int /\ SD \subseteq Int /\ s # Listen
  BY DEF IInv
<1>1. /\ UNCHANGED <<masterSet, fds>>
      /\ pc = "scan" /\ pc' = "recv" /\ ScanTo(s) /\ sd' = s /\ Receiving
      /\ position' = Zeroed(position, FALSE, maxClient')
  BY DEF Visit, VisitClient, ScanTo, kernelVars, Receiving
<1>2. maxClient' \in Int /\ s \in masterSet
  BY <1>0, <1>1, ScanCovers
<1>3. s \in fds
  BY <1>0, <1>1, <1>2 DEF Watch, WatchesOpenConnections
<1>4. \A u \in SD : position'[u] => position[u]
  BY <1>0, <1>1 DEF Types, Zeroed
<1> DEFINE kept == Zeroed(aux, None, maxClient')
<1>5. kept = [u \in SD |-> kept[u]] /\ \A u \in SD : position[u] => kept[u] = aux[u]
  <2> PICK mc \in Int : mc = maxClient'
    BY <1>2
  <2>1. \A u \in SD : position[u] => u \in Int /\ u < clientsLength
    BY <1>0, <1>1 DEF Slots
  <2>2. clientsLength \in Int
    BY <1>0 DEF Types
  <2>3. \A u \in SD : position[u] => Zeroed(aux, None, mc)[u] = aux[u]
    BY <2>1, <2>2 DEF Zeroed
  <2> QED
    BY <2>3 DEF Zeroed
<1> HIDE DEF kept
<1>6. \A u \in Begun' \ {s} : u \in Begun /\ position[u] /\ u \in SD
  BY <1>0, <1>1, <1>4 DEF Begun, Types
<1>7. CASE position'[s] /\ aux' = kept /\ UNCHANGED rpVars
  <2>1. s \in Begun /\ aux'[s] = aux[s]
    BY <1>0, <1>2, <1>4, <1>5, <1>7 DEF Begun
  <2>2. \A u \in Begun' \ {s} : aux'[u] = aux[u]
    BY <1>5, <1>6, <1>7
  <2> QED
    BY <1>0, <1>1, <1>2, <1>3, <1>6, <1>7, <2>1, <2>2
<1>8. ASSUME NEW p \in Parser, msg_start(s, p), aux' = [kept EXCEPT ![s] = p]
      PROVE  aux'[s] = p /\ \A u \in Begun' \ {s} : aux'[u] = aux[u]
  BY <1>5, <1>6, <1>8
<1> QED
  BY <1>0, <1>1, <1>2, <1>3, <1>6, <1>7, <1>8 DEF Visit, kept

(* Connections with a parser differ in their parsers.                       *)
LEMMA ParsersDiffer ==
  ASSUME IInv, fault = "none"
  PROVE  \A s, u \in Begun : aux[s] = aux[u] => s = u
BY DEF IInv, Parsers

(* The connection received from, and its parser.                            *)
LEMMA RecvBegun ==
  ASSUME IInv, pc = "recv", fault = "none"
  PROVE  /\ sd \in SD /\ sd \in Begun /\ aux[sd] \in Parser /\ client[aux[sd]] = sd
<1> USE DEF IInv
<1>1. sd \in masterSet \ {Listen} /\ sd \in SD /\ sd \in Begun
  BY DEF Watch, Types, Begun
<1> QED
  BY <1>1 DEF Slots, Parsers

(* dispatch in Recv. *)
LEMMA RecvDispatch ==
  ASSUME IInv, Recv, fault = "none"
  PROVE  \E es \in Chunks(conn[aux[sd]].stage) : LET c == http_parser_execute(conn[aux[sd]], es) IN
           /\ conn' = [conn EXCEPT ![aux[sd]] = c]
           /\ fds' = IF c.stream = "open" THEN fds ELSE fds \ {sd}
           /\ fault' = IF c.stream = "misused" THEN "stream"
                       ELSE IF c.type = "N" THEN "path" ELSE "none"
           /\ UNCHANGED <<pc, masterSet, aux, sd, pool, top, made, surplus, client>>
           /\ pc = "recv" /\ sd \in fds /\ Begun' = Begun
<1>1. /\ UNCHANGED <<pc, masterSet, aux, sd, pool, top, made, surplus, client>>
      /\ pc = "recv" /\ sd \in fds /\ position' = [position EXCEPT ![sd] = TRUE]
  BY DEF Recv, RecvPart, dispatch, loopVars
<1>2. sd \in SD /\ sd \in Begun /\ client[aux[sd]] = sd
  BY <1>1, RecvBegun
<1>3. Begun' = Begun
  BY <1>1, <1>2 DEF Begun, IInv, Types
<1>4. PICK es \in Chunks(conn[aux[sd]].stage) : dispatch(aux[sd], es)
  BY DEF Recv
<1>5. PICK c : c = http_parser_execute(conn[aux[sd]], es)
  OBVIOUS
<1>6. fault' = IF c.stream = "misused" THEN "stream"
               ELSE IF c.type = "N" THEN "path" ELSE "none"
  BY <1>4, <1>5 DEF dispatch
<1>7. conn' = [conn EXCEPT ![aux[sd]] = c] /\ fds' = IF c.stream = "open" THEN fds ELSE fds \ {sd}
  BY <1>2, <1>4, <1>5 DEF dispatch
<1> QED
  BY <1>1, <1>3, <1>5, <1>6, <1>7

(* EndConnection takes the connection out.                                  *)
LEMMA CloseBegun ==
  ASSUME IInv, Close, fault = "none"
  PROVE  /\ pc = "recv" /\ Begun' \subseteq Begun \ {sd} /\ \A u \in Begun' : aux'[u] = aux[u]
         /\ fds' = fds \ {sd} /\ masterSet' = masterSet \ {sd} /\ top' = top - 1
         /\ UNCHANGED <<conn, made, surplus, client>>
         /\ fault' \in {"none", "pool"}
<1>1. /\ pc = "recv" /\ pc' = "scan"
      /\ position' = [position EXCEPT ![sd] = FALSE]
      /\ aux' = [aux EXCEPT ![sd] = None]
      /\ fds' = fds \ {sd} /\ masterSet' = masterSet \ {sd} /\ top' = top - 1
      /\ UNCHANGED <<conn, made, surplus, client>>
      /\ fault' \in {"none", "pool"}
  BY DEF Close, EndConnection, msg_end, release_http_parser
<1>2. sd \in SD /\ Begun \subseteq SD
  BY <1>1, RecvBegun DEF Begun, IInv, Types
<1>3. Begun' \subseteq Begun \ {sd}
  BY <1>1, <1>2 DEF Begun, IInv, Types
<1> QED
  BY <1>1, <1>2, <1>3 DEF IInv, Types

-----------------------------------------------------------------------------
(* A connection that has a parser has a sound stream, which is open as long *)
(* as its descriptor is.                                                    *)
Streams ==
  fault = "none" => \A s \in Begun : /\ conn[aux[s]] \in ConnInfo /\ Sound(conn[aux[s]])
                                     /\ s \in fds <=> conn[aux[s]].stream = "open"

(* Steps that begin no connection and touch no stream. *)
LEMMA ConnectionsStay ==
  ASSUME IInv, Streams, UNCHANGED conn, fault' = "none" => fault = "none", Begun' \subseteq Begun,
         \A s \in Begun' : aux'[s] = aux[s] /\ (s \in fds' <=> s \in fds)
  PROVE  Streams'
BY DEF Streams

(* A connection that begins has a stream that is open and unused.           *)
LEMMA VisitStreams ==
  ASSUME IInv, IInv', RequestTypeOK, Streams, NEW s \in SD, Visit(s), fault = "none"
  PROVE  Streams'
<1>1. /\ s \in masterSet \ {Listen} /\ s \in fds /\ UNCHANGED fds
      /\ Begun' \subseteq Begun \union {s}
      /\ \A u \in Begun' \ {s} : u \in Begun /\ aux'[u] = aux[u]
  BY VisitBegun
<1>2. CASE UNCHANGED rpVars /\ s \in Begun /\ aux'[s] = aux[s]
  BY <1>1, <1>2, ConnectionsStay DEF rpVars
<1>3. ASSUME NEW p \in Parser, msg_start(s, p), aux'[s] = p PROVE Streams'
  <2>1. /\ conn' = [conn EXCEPT ![p].stream = "open", ![p].stage = "head", ![p].requests = 0]
        /\ UNCHANGED fault
    BY <1>3 DEF msg_start, request_processor_reset
  <2>2. conn'[p] \in ConnInfo /\ Sound(conn'[p]) /\ conn'[p].stream = "open"
    <3>1. conn[p] \in ConnInfo /\ conn \in [Parser -> ConnInfo]
      BY DEF RequestTypeOK, ConnInfo
    <3>2. PICK c \in ConnInfo : c = conn[p]
      BY <3>1
    <3> DEFINE d == [c EXCEPT !.stream = "open", !.stage = "head", !.requests = 0]
    <3>3. conn'[p] = d
      BY <2>1, <3>1, <3>2
    <3>4. d \in ConnInfo /\ d.stream = "open" /\ d.stage = "head" /\ d.requests = 0
      BY DEF ConnInfo
    <3> HIDE DEF d
    <3> QED
      BY <3>3, <3>4 DEF Sound
  <2>3. \A u \in Begun' : u # s => aux'[u] # p
    <3>1. s \in Begun'
      BY <1>1 DEF Visit, VisitClient, Begun
    <3> QED
      BY <1>3, <2>1, <3>1 DEF IInv, Parsers
  <2>4. \A q \in Parser : q # p => conn'[q] = conn[q]
    BY <2>1 DEF RequestTypeOK
  <2>5. \A u \in Begun' : u # s => aux'[u] \in Parser
    BY <1>1 DEF IInv, Slots
  <2>6. ASSUME NEW u \in Begun', u # s
        PROVE  /\ conn'[aux'[u]] = conn[aux[u]] /\ u \in Begun
               /\ u \in fds' <=> u \in fds
    BY <1>1, <2>3, <2>4, <2>5, <2>6
  <2>7. fault = "none" => \A u \in Begun : /\ conn[aux[u]] \in ConnInfo /\ Sound(conn[aux[u]])
                                           /\ u \in fds <=> conn[aux[u]].stream = "open"
    BY DEF Streams
  <2> QED
    BY <1>1, <1>3, <2>2, <2>6, <2>7 DEF Streams
<1> QED
  BY <1>2, <1>3, VisitBegun

(* A chunk leaves the stream sound, unless it ends the run with a fault.    *)
LEMMA RecvStreams ==
  ASSUME IInv, RequestTypeOK, Streams, Recv, fault = "none"
  PROVE  Streams' /\ conn' \in [Parser -> ConnInfo] /\ StreamClosedOnce'
         /\ fault' \in {"none", "stream", "path"}
<1>1. PICK es \in Chunks(conn[aux[sd]].stage) : LET c == http_parser_execute(conn[aux[sd]], es) IN
           /\ conn' = [conn EXCEPT ![aux[sd]] = c]
           /\ fds' = IF c.stream = "open" THEN fds ELSE fds \ {sd}
           /\ fault' = IF c.stream = "misused" THEN "stream"
                       ELSE IF c.type = "N" THEN "path" ELSE "none"
           /\ UNCHANGED <<pc, masterSet, aux, sd, pool, top, made, surplus, client>>
           /\ pc = "recv" /\ sd \in fds /\ Begun' = Begun
  BY RecvDispatch
<1>2. sd \in SD /\ sd \in Begun /\ aux[sd] \in Parser /\ \A u \in Begun : aux[u] = aux[sd] => u = sd
  BY <1>1, RecvBegun, ParsersDiffer
<1>3. conn[aux[sd]] \in ConnInfo /\ Sound(conn[aux[sd]])
  BY <1>2 DEF Streams
<1> DEFINE d == http_parser_execute(conn[aux[sd]], es)
<1>4. d \in ConnInfo /\ (Sound(d) \/ Spoilt(d))
  BY <1>1, <1>3, ChunkTells
<1>5. /\ conn' = [conn EXCEPT ![aux[sd]] = d]
      /\ fds' = IF d.stream = "open" THEN fds ELSE fds \ {sd}
      /\ fault' = IF d.stream = "misused" THEN "stream" ELSE IF d.type = "N" THEN "path" ELSE "none"
  BY <1>1
<1> HIDE DEF d
<1>6. conn \in [Parser -> ConnInfo]
  BY DEF RequestTypeOK, ConnInfo
<1>7. conn'[aux[sd]] = d /\ \A q \in Parser : q # aux[sd] => conn'[q] = conn[q]
  BY <1>2, <1>5, <1>6
<1>8. conn' \in [Parser -> ConnInfo]
  BY <1>2, <1>4, <1>5, <1>6
<1>9. StreamClosedOnce'
  <2>1. fault' = "stream" => d.requests > 1
    BY <1>4, <1>5 DEF Sound, Spoilt
  <2> QED
    BY <1>2, <1>7, <2>1 DEF StreamClosedOnce, Parser
<1>10. Streams'
  <2> SUFFICES ASSUME fault' = "none", NEW s \in Begun
               PROVE  /\ conn'[aux[s]] \in ConnInfo /\ Sound(conn'[aux[s]])
                      /\ s \in fds' <=> conn'[aux[s]].stream = "open"
    BY <1>1 DEF Streams
  <2>1. Sound(d)
    BY <1>4, <1>5 DEF Spoilt
  <2>2. CASE s = sd
    BY <1>1, <1>4, <1>5, <1>7, <2>1, <2>2
  <2>3. CASE s # sd
    <3>1. aux[s] # aux[sd] /\ aux[s] \in Parser
      BY <1>2, <2>3 DEF IInv, Slots
    <3>2. s \in fds' <=> s \in fds
      BY <1>5, <2>3
    <3> QED
      BY <1>7, <3>1, <3>2 DEF Streams
  <2> QED
    BY <2>2, <2>3
<1> QED
  BY <1>5, <1>8, <1>9, <1>10

-----------------------------------------------------------------------------
(* The table's length stays a natural number. *)
LEMMA ResizedLength ==
  ASSUME clientsLength \in Nat, NEW mc \in Int, mc >= -1
  PROVE  Resized(mc) \in Nat
<1>1. CASE mc >= clientsLength
  BY <1>1, ChannelAssumption DEF Resized, ChannelAssumption
<1>2. CASE mc < clientsLength /\ mc < clientsLength - CLIENTS
  BY <1>2, ChannelAssumption DEF Resized, ChannelAssumption
<1>3. CASE mc < clientsLength /\ ~(mc < clientsLength - CLIENTS)
  BY <1>3, ChannelAssumption DEF Resized, ChannelAssumption
<1> QED
  BY <1>1, <1>2, <1>3

(* What Types leaves out of the types of the select loop. *)
LEMMA ChannelTypesStep ==
  ASSUME IInv, IInv', TypeOK, [Next]_vars PROVE ChannelTypeOK'
<1> USE ChannelAssumption DEF ChannelAssumption
<1> DEFINE Rest == /\ isAlive \in BOOLEAN /\ alive \in BOOLEAN
                   /\ workingSet \subseteq SD \union {Listen}
                   /\ maxSd \in SD \union {Listen}
                   /\ maxClient \in SD \union {Listen, -1}
                   /\ clientsLength \in Nat
                   /\ sd \in SD \union {Listen}
                   /\ backlog \in Nat
                   /\ inbox \in [SD -> Nat]
                   /\ hup \in [SD -> BOOLEAN]
                   /\ used \in [conn : Nat, data : Nat, spurious : Nat]
<1> SUFFICES Rest'
  BY DEF ChannelTypeOK, IInv, Types
<1>1. Rest
  BY DEF TypeOK, ChannelTypeOK
<1>m. masterSet \subseteq SD \union {Listen} /\ fds \subseteq SD
  BY DEF IInv, Types
<1>2. CASE UNCHANGED vars
  BY <1>1, <1>2 DEF vars, channelVars, loopVars, tableVars, kernelVars
<1>3. CASE Environment
  <2>1. CASE ClientConnects
    <3>1. used' = [used EXCEPT !.conn = @ + 1] /\ backlog' = backlog + 1
          /\ UNCHANGED <<isAlive, alive, workingSet, maxSd, maxClient, clientsLength, sd, inbox, hup>>
      BY <2>1 DEF ClientConnects, loopVars, tableVars
    <3> QED
      BY <1>1, <3>1
  <2>2. ASSUME NEW s \in SD, ClientSends(s) PROVE Rest'
    <3>1. used' = [used EXCEPT !.data = @ + 1] /\ inbox' = [inbox EXCEPT ![s] = @ + 1]
          /\ UNCHANGED <<isAlive, alive, workingSet, maxSd, maxClient, clientsLength, sd, backlog, hup>>
      BY <2>2 DEF ClientSends, loopVars, tableVars
    <3> QED
      BY <1>1, <3>1
  <2>3. ASSUME NEW s \in SD, ClientCloses(s) PROVE Rest'
    <3>1. hup' = [hup EXCEPT ![s] = TRUE] /\ \E left \in {inbox[s], 0} : inbox' = [inbox EXCEPT ![s] = left]
          /\ UNCHANGED <<isAlive, alive, workingSet, maxSd, maxClient, clientsLength, sd, backlog, used>>
      BY <2>3 DEF ClientCloses, loopVars, tableVars
    <3> QED
      BY <1>1, <3>1
  <2>4. CASE term_handler
    BY <1>1, <2>4 DEF term_handler, loopVars, tableVars, kernelVars
  <2> QED
    BY <1>3, <2>1, <2>2, <2>3, <2>4 DEF Environment
<1>4. CASE LoopStep
  <2>1. CASE ReceiveStarts
    BY <1>1, <2>1 DEF ReceiveStarts, kernelVars
  <2>2. CASE MainEnds \/ LoopTest \/ SelectTimeout \/ ScanEnds \/ AcceptFails \/ RecvWouldBlock
    BY <1>1, <2>2 DEF MainEnds, LoopTest, SelectTimeout, ScanEnds, AcceptFails, RecvWouldBlock,
                      loopVars, tableVars, kernelVars
  <2>3. CASE SelectReady
    BY <1>1, <1>m, <2>3 DEF SelectReady, Readable, tableVars, kernelVars
  <2>4. ASSUME NEW s \in SD, SelectSpurious(s) PROVE Rest'
    <3>1. used' = [used EXCEPT !.spurious = @ + 1] /\ workingSet' \subseteq masterSet
          /\ UNCHANGED <<isAlive, alive, maxSd, maxClient, clientsLength, sd, backlog, inbox, hup>>
      BY <2>4 DEF SelectSpurious, Readable, loopVars, tableVars
    <3> QED
      BY <1>1, <1>m, <3>1
  <2>5. CASE VisitListen
    <3>1. maxClient' \in {Listen, maxClient, maxSd} /\ workingSet' \subseteq workingSet
      BY <2>5 DEF VisitListen, ScanTo
    <3> QED
      BY <1>1, <2>5, <3>1 DEF VisitListen, tableVars, kernelVars
  <2>6. ASSUME NEW s \in SD, Accept(s) PROVE Rest'
    <3>1. /\ backlog > 0 /\ backlog' = backlog - 1 /\ inbox' = [inbox EXCEPT ![s] = 0]
          /\ hup' = [hup EXCEPT ![s] = FALSE] /\ maxSd' \in {s, maxSd}
          /\ UNCHANGED <<isAlive, alive, workingSet, maxClient, clientsLength, sd, used>>
      BY <2>6 DEF Accept, tableVars
    <3> QED
      BY <1>1, <3>1
  <2>7. CASE CloseAll
    BY <1>1, <2>7 DEF CloseAll
  <2> QED
    BY <1>4, <2>1, <2>2, <2>3, <2>4, <2>5, <2>6, <2>7 DEF LoopStep
<1>5. ASSUME NEW s \in SD, Visit(s) PROVE Rest'
  <2>1. /\ ScanTo(s) /\ clientsLength' = Resized(maxClient') /\ sd' = s
        /\ UNCHANGED <<isAlive, alive, maxSd, backlog, inbox, hup, used>>
    BY <1>5 DEF Visit, VisitClient, kernelVars
  <2>2. maxClient' \in {s, maxClient, maxSd} /\ workingSet' \subseteq workingSet
    BY <2>1 DEF ScanTo
  <2>3. maxClient' \in SD \union {Listen, -1}
    BY <1>1, <2>2
  <2>4. clientsLength' \in Nat
    <3>1. PICK mc \in Int : mc = maxClient' /\ mc >= -1
      BY <2>3
    <3>2. clientsLength \in Nat /\ mc >= -1
      BY <1>1, <3>1
    <3>3. Resized(mc) \in Nat
      BY <3>2, ResizedLength
    <3> QED
      BY <2>1, <3>1, <3>3
  <2> QED
    BY <1>1, <2>1, <2>2, <2>3, <2>4
<1>6. CASE Recv
  <2>1. /\ sd \in fds /\ inbox[sd] > 0 /\ inbox' = [inbox EXCEPT ![sd] = @ - 1]
        /\ UNCHANGED <<isAlive, alive, workingSet, maxSd, maxClient, clientsLength, sd, backlog, hup, used>>
    BY <1>6 DEF Recv, RecvPart, loopVars
  <2> QED
    BY <1>1, <1>m, <2>1
<1>7. CASE Close
  <2>1. maxSd' \in masterSet'
    BY <1>7 DEF Close, EndConnection
  <2>2. masterSet' \subseteq SD \union {Listen}
    BY DEF IInv, Types
  <2> QED
    BY <1>1, <1>7, <2>1, <2>2 DEF Close, EndConnection
<1> QED
  BY <1>2, <1>3, <1>4, <1>5, <1>6, <1>7 DEF Next, ServerStep, HandlerStep, Ended

(* And of the request processor. *)
LEMMA RequestTypesStep ==
  ASSUME IInv, IInv', TypeOK, Streams, [Next]_vars PROVE RequestTypeOK'
<1> USE PoolAssumption DEF PoolAssumption
<1> DEFINE Rest == /\ top \in -1 .. PoolSize /\ made \in PoolSize .. MaxParser /\ surplus \in Nat
                   /\ conn \in [Parser -> ConnInfo]
                   /\ fault \in {"none", "pool", "stream", "path"}
<1> SUFFICES Rest'
  BY DEF RequestTypeOK, ConnInfo, IInv, Types
<1>1. Rest
  BY DEF TypeOK, RequestTypeOK, ConnInfo
<1>2. CASE UNCHANGED rpVars
  BY <1>1, <1>2 DEF rpVars
<1>3. ASSUME NEW s \in SD, NEW p \in Parser, msg_start(s, p) PROVE Rest'
  <2>1. conn' = [conn EXCEPT ![p].stream = "open", ![p].stage = "head", ![p].requests = 0]
        /\ UNCHANGED fault
    BY <1>3 DEF msg_start, request_processor_reset
  <2>2. \/ top < PoolSize /\ top' = top + 1 /\ UNCHANGED <<made, surplus>>
        \/ p = made + 1 /\ made' = made + 1 /\ surplus' = surplus + 1 /\ UNCHANGED top
    BY <1>3 DEF msg_start, get_http_parser
  <2>3. conn' \in [Parser -> ConnInfo]
    <3>1. PICK c \in ConnInfo : c = conn[p]
      BY <1>1
    <3>2. [c EXCEPT !.stream = "open", !.stage = "head", !.requests = 0] \in ConnInfo
      BY DEF ConnInfo
    <3>3. conn' = [conn EXCEPT ![p] = [c EXCEPT !.stream = "open", !.stage = "head", !.requests = 0]]
      BY <2>1, <3>1
    <3> QED
      BY <1>1, <3>2, <3>3
  <2> QED
    BY <1>1, <2>1, <2>2, <2>3 DEF Parser
<1>4. CASE fault = "none" /\ Recv
  <2>1. conn' \in [Parser -> ConnInfo] /\ fault' \in {"none", "stream", "path"}
    BY <1>4, RecvStreams DEF TypeOK
  <2>2. UNCHANGED <<top, made, surplus>>
    BY <1>4, RecvDispatch
  <2> QED
    BY <1>1, <2>1, <2>2
<1>5. CASE fault = "none" /\ Close
  <2>1. top \in 0 .. PoolSize
    BY <1>5 DEF IInv, Parsers
  <2>2. top' = top - 1 /\ UNCHANGED <<conn, made, surplus>> /\ fault' \in {"none", "pool"}
    BY <1>5, CloseBegun
  <2> QED
    BY <1>1, <2>1, <2>2
<1> QED
  BY <1>2, <1>3, <1>4, <1>5 DEF Next, ServerStep, HandlerStep, Ended, vars, Visit

-----------------------------------------------------------------------------
(* PoolCoversConnections, with no regard to whether the loop is running; the*)
(* descriptors watched are finitely many, whatever accept may return.       *)
PoolCovers == IsFiniteSet(masterSet) /\ top + surplus >= Cardinality(Begun)

(* Fewer connections need fewer parsers. *)
LEMMA CoversFewer ==
  ASSUME PoolCovers, Begun' \subseteq Begun, IsFiniteSet(masterSet'), top \in Int, surplus \in Int,
         UNCHANGED <<top, surplus>>
  PROVE  PoolCovers'
<1>1. IsFiniteSet(Begun) /\ Begun \subseteq masterSet
  <2>1. Begun \subseteq masterSet
    BY DEF Begun
  <2> QED
    BY <2>1, FS_Subset DEF PoolCovers
<1>2. /\ Cardinality(Begun) \in Nat /\ Cardinality(Begun') \in Nat
      /\ Cardinality(Begun') =< Cardinality(Begun)
  BY <1>1, FS_Subset, FS_CardinalityType
<1> QED
  BY <1>2 DEF PoolCovers

(* A connection that begins takes a parser from the pool or makes one, and  *)
(* one that ends pops the stack.                                            *)
LEMMA PoolStep ==
  ASSUME IInv, TypeOK, PoolCovers, [Next]_vars PROVE PoolCovers'
<1>t. top \in Int /\ surplus \in Int
  BY DEF TypeOK, RequestTypeOK
<1>f. IsFiniteSet(masterSet) /\ IsFiniteSet(Begun)
  <2>1. Begun \subseteq masterSet
    BY DEF Begun
  <2> QED
    BY <2>1, FS_Subset DEF PoolCovers
<1>c. Cardinality(Begun) \in Nat /\ top + surplus >= Cardinality(Begun)
  BY <1>f, FS_CardinalityType DEF PoolCovers
<1>1. CASE UNCHANGED vars
  <2>1. UNCHANGED <<masterSet, position, pc, sd, top, surplus>>
    BY <1>1 DEF vars, channelVars, loopVars, tableVars, kernelVars, rpVars
  <2>2. Begun' = Begun
    BY <2>1 DEF Begun
  <2> QED
    BY <2>1, <2>2 DEF PoolCovers
<1>2. CASE Environment /\ UNCHANGED rpVars
  <2>1. UNCHANGED <<masterSet, position, sd, top, surplus>> /\ (pc' = "recv" => pc = "recv")
    BY <1>2 DEF Environment, ClientConnects, ClientSends, ClientCloses, term_handler,
                rpVars, loopVars, tableVars, kernelVars
  <2>2. Begun' \subseteq Begun
    BY <2>1 DEF Begun
  <2> QED
    BY <1>t, <1>f, <2>1, <2>2, CoversFewer
<1>3. CASE LoopStep /\ UNCHANGED rpVars
  <2>1. \E s : masterSet' \subseteq masterSet \union {s}
    BY <1>3 DEF LoopStep, ReceiveStarts, MainEnds, LoopTest, SelectReady, SelectTimeout,
                SelectSpurious, VisitListen, Accept, AcceptFails, ScanEnds, RecvWouldBlock, CloseAll,
                loopVars
  <2>2. IsFiniteSet(masterSet')
    BY <1>f, <2>1, FS_AddElement, FS_Subset
  <2>3. UNCHANGED <<top, surplus>> /\ Begun' \subseteq Begun
    BY <1>3, LoopBegun DEF rpVars
  <2> QED
    BY <1>t, <2>2, <2>3, CoversFewer
<1>4. ASSUME NEW s \in SD, Visit(s) PROVE PoolCovers'
  <2>1. UNCHANGED masterSet
    BY <1>4 DEF Visit, VisitClient
  <2>2. CASE UNCHANGED rpVars /\ s \in Begun
    <3>1. Begun' \subseteq Begun /\ UNCHANGED <<top, surplus>>
      BY <1>4, <2>2, VisitBegun DEF rpVars
    <3> QED
      BY <1>t, <1>f, <2>1, <3>1, CoversFewer
  <2>3. ASSUME NEW p \in Parser, msg_start(s, p) PROVE PoolCovers'
    <3>1. top' + surplus' = top + surplus + 1
      BY <1>t, <2>3 DEF msg_start, get_http_parser
    <3>2. /\ IsFiniteSet(Begun \union {s})
          /\ Cardinality(Begun \union {s}) =< Cardinality(Begun) + 1
          /\ Cardinality(Begun \union {s}) \in Nat
      <4>1. /\ IsFiniteSet(Begun \union {s})
            /\ Cardinality(Begun \union {s}) = IF s \in Begun THEN Cardinality(Begun)
                                                             ELSE Cardinality(Begun) + 1
        BY <1>f, FS_AddElement
      <4> QED
        BY <1>c, <4>1
    <3>3. Begun' \subseteq Begun \union {s}
      BY <1>4, VisitBegun
    <3>4. Cardinality(Begun') \in Nat /\ Cardinality(Begun') =< Cardinality(Begun \union {s})
      BY <3>2, <3>3, FS_Subset, FS_CardinalityType
    <3> QED
      BY <1>t, <1>f, <1>c, <2>1, <3>1, <3>2, <3>4 DEF PoolCovers
  <2> QED
    BY <1>4, <2>2, <2>3, VisitBegun
<1>5. CASE fault = "none" /\ Recv
  <2>1. Begun' = Begun /\ UNCHANGED <<masterSet, top, surplus>>
    BY <1>5, RecvDispatch
  <2> QED
    BY <1>t, <1>f, <2>1, CoversFewer
<1>6. CASE fault = "none" /\ Close
  <2>1. /\ Begun' \subseteq Begun \ {sd} /\ masterSet' = masterSet \ {sd}
        /\ top' = top - 1 /\ UNCHANGED surplus /\ sd \in Begun
    BY <1>6, CloseBegun, RecvBegun
  <2>2. /\ IsFiniteSet(Begun \ {sd}) /\ Cardinality(Begun \ {sd}) = Cardinality(Begun) - 1
        /\ IsFiniteSet(masterSet')
    BY <1>f, <2>1, FS_RemoveElement
  <2>3. Cardinality(Begun') \in Nat /\ Cardinality(Begun') =< Cardinality(Begun \ {sd})
    BY <2>1, <2>2, FS_Subset, FS_CardinalityType
  <2> QED
    BY <1>t, <1>c, <2>1, <2>2, <2>3 DEF PoolCovers
<1> QED
  BY <1>1, <1>2, <1>3, <1>4, <1>5, <1>6 DEF Next, ServerStep, HandlerStep, Ended

(* What the steps do to the streams, taken together. *)
LEMMA StreamsStep ==
  ASSUME IInv, IInv', TypeOK, Streams, StreamClosedOnce, [Next]_vars
  PROVE  Streams' /\ StreamClosedOnce'
<1>1. CASE UNCHANGED vars
  <2>1. UNCHANGED <<masterSet, position, pc, sd, aux, fds, conn, fault>>
    BY <1>1 DEF vars, channelVars, loopVars, tableVars, kernelVars, rpVars
  <2>2. Begun' = Begun
    BY <2>1 DEF Begun
  <2> QED
    BY <2>1, <2>2 DEF Streams, StreamClosedOnce
<1>2. CASE Environment /\ UNCHANGED rpVars
  <2>1. UNCHANGED <<masterSet, position, sd, aux, fds, conn, fault>> /\ (pc' = "recv" => pc = "recv")
    BY <1>2 DEF Environment, ClientConnects, ClientSends, ClientCloses, term_handler,
                rpVars, loopVars, tableVars, kernelVars
  <2>2. Begun' \subseteq Begun
    BY <2>1 DEF Begun
  <2> QED
    BY <2>1, <2>2, ConnectionsStay DEF StreamClosedOnce
<1>3. CASE LoopStep /\ UNCHANGED rpVars
  <2>1. UNCHANGED <<conn, fault>>
    BY <1>3 DEF rpVars
  <2> QED
    BY <1>3, <2>1, LoopBegun, ConnectionsStay DEF StreamClosedOnce
<1>4. ASSUME fault = "none", NEW s \in SD, Visit(s) PROVE Streams' /\ StreamClosedOnce'
  <2>1. UNCHANGED fault
    BY <1>4 DEF Visit, msg_start, rpVars
  <2> QED
    BY <1>4, <2>1, VisitStreams DEF TypeOK, StreamClosedOnce
<1>5. CASE fault = "none" /\ Recv
  BY <1>5, RecvStreams DEF TypeOK
<1>6. CASE fault = "none" /\ Close
  <2>1. /\ Begun' \subseteq Begun /\ fds' = fds \ {sd} /\ UNCHANGED conn
        /\ \A u \in Begun' : aux'[u] = aux[u] /\ u # sd
        /\ fault' \in {"none", "pool"}
    BY <1>6, CloseBegun
  <2> QED
    BY <1>6, <2>1, ConnectionsStay DEF StreamClosedOnce
<1> QED
  BY <1>1, <1>2, <1>3, <1>4, <1>5, <1>6 DEF Next, ServerStep, HandlerStep, Ended

(* The invariants of the connections' slots, with those of their streams    *)
(* and of the pool's size.                                                  *)
EvaInv == TypeOK /\ Streams /\ StreamClosedOnce /\ PoolCovers

LEMMA InitEvaInv == Init => EvaInv
<1> SUFFICES ASSUME Init PROVE EvaInv
  OBVIOUS
<1> USE ChannelAssumption, PoolAssumption DEF ChannelAssumption, PoolAssumption
<1>1. Begun = {} /\ masterSet = {} /\ fault = "none" /\ top = 0 /\ surplus = 0
  BY DEF Init, ChannelInit, PoolInit, Begun
<1>2. ChannelTypeOK
  BY DEF Init, ChannelInit, ChannelTypeOK, Location
<1>3. RequestTypeOK
  BY DEF Init, PoolInit, RequestTypeOK, Parser, NewConn
<1>4. PoolCovers
  BY <1>1, FS_EmptySet DEF PoolCovers
<1> QED
  BY <1>1, <1>2, <1>3, <1>4 DEF EvaInv, TypeOK, Streams, StreamClosedOnce

LEMMA AlwaysEvaInv == Spec => [](IInv /\ EvaInv)
<1>1. IInv /\ EvaInv /\ [Next]_vars => EvaInv'
  <2> SUFFICES ASSUME IInv, EvaInv, [Next]_vars PROVE EvaInv'
    OBVIOUS
  <2>1. IInv'
    BY NextIInv
  <2> QED
    BY <2>1, ChannelTypesStep, RequestTypesStep, StreamsStep, PoolStep DEF EvaInv, TypeOK
<1> QED
  BY <1>1, InitIInv, NextIInv, InitEvaInv, PTL DEF Spec

(* Type correctness of the server: the select loop's variables, the pool's  *)
(* and each parser's conn_info.                                             *)
THEOREM EvaTypes == Spec => []TypeOK
BY AlwaysEvaInv, PTL DEF EvaInv

(* parser_stack_top, plus the parsers made because the pool was empty, is   *)
(* never below the number of connections that hold a parser.                *)
THEOREM PoolSuffices == Spec => []PoolCoversConnections
<1>1. EvaInv => PoolCoversConnections
  BY DEF EvaInv, PoolCovers, PoolCoversConnections
<1> QED
  BY <1>1, AlwaysEvaInv, PTL

(* A stream is written to or closed after it was closed only if a           *)
(* connection sends a second request, however requests are cut into chunks. *)
THEOREM StreamsClosedOnce == Spec => []StreamClosedOnce
BY AlwaysEvaInv, PTL DEF EvaInv

(* When the server waits in select it owes no connection an answer.         *)
THEOREM ReadIsAnswered == Spec => []WaitingMeansUnanswered
<1>1. IInv /\ EvaInv => WaitingMeansUnanswered
  <2> SUFFICES ASSUME IInv, EvaInv, pc = "select", fault = "none",
                      NEW s \in masterSet \ {Listen}, position[s]
               PROVE  LET c == conn[aux[s]] IN /\ c.stream = "open"
                                               /\ c.stage = "body" => c.type = "S"
                                               /\ c.stage = "head" => c.requests = 0
    BY DEF WaitingMeansUnanswered
  <2>1. s \in Begun
    BY DEF Begun
  <2>2. s \in fds
    BY DEF IInv, Watch, WatchesOpenConnections, Receiving
  <2> QED
    BY <2>1, <2>2 DEF EvaInv, Streams, Sound
<1> QED
  BY <1>1, AlwaysEvaInv, PTL
=============================================================================
