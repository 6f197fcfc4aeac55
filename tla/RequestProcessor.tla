-------------------------- MODULE RequestProcessor --------------------------
(***************************************************************************)
(* The HTTP side of the eva server: the pool of parsers (src/http/main.c)   *)
(* and the parser callbacks that answer a request                           *)
(* (src/http/request_processor.c).                                          *)
(*                                                                         *)
(* A connection has one parser, and the parser one connection: its          *)
(* conn_info holds the descriptor and a stdio stream opened on it.  The     *)
(* stream is closed by the callback that finishes the answer, and with it   *)
(* the descriptor, behind the back of the select loop that still watches    *)
(* it.                                                                      *)
(*                                                                         *)
(* A chunk of input is modelled by the callbacks that http_parser_execute   *)
(* makes while it consumes it (ParserEvents); HttpParser models the parser. *)
(***************************************************************************)
EXTENDS ParserEvents, Integers, SequencesExt

CONSTANTS PoolSize,   \* the argument of init_http_parser_pool
          MaxParser,  \* bound: parsers that are ever allocated
          MaxEvents   \* bound: callbacks made for one chunk of input

ASSUME PoolAssumption ==
  /\ PoolSize \in Nat /\ MaxParser \in Nat /\ MaxEvents \in Nat
  /\ PoolSize =< MaxParser

VARIABLES
  pool,     \* parser_pool
  top,      \* parser_stack_top
  made,     \* how many parsers request_processor_init has made
  surplus,  \* how many of them were made because the pool was empty
  client,   \* conn_info->client_sd of each parser
  conn,     \* the rest of its conn_info, and how far its request is parsed
  fault     \* "none" until an access outside parser_pool, to a closed stream
            \* or to a path that is not there

Parser == 1 .. MaxParser

rpVars == <<pool, top, made, surplus, client, conn, fault>>

(* What request_processor_init leaves in a parser: no stream, no request.   *)
NewConn == [stream |-> "none", type |-> "?", stage |-> "head", requests |-> 0]

(* init_http_parser_pool *)
PoolInit ==
  /\ pool    = [i \in 0 .. PoolSize - 1 |-> i + 1]
  /\ top     = 0
  /\ made    = PoolSize
  /\ surplus = 0
  /\ client  = [p \in Parser |-> -1]
  /\ conn    = [p \in Parser |-> NewConn]
  /\ fault   = "none"

-----------------------------------------------------------------------------
(* The pool is a stack: pool[top], pool[top + 1], ... are idle.             *)

(* Mutation: the parser stays in the pool. *)
get_http_parser_keeps(p) ==
  \/ /\ top < PoolSize
     /\ p = pool[top]
     /\ UNCHANGED <<top, made, surplus>>
  \/ /\ top >= PoolSize
     /\ p = made + 1
     /\ p \in Parser
     /\ made' = made + 1
     /\ surplus' = surplus + 1
     /\ UNCHANGED top

(* p is the parser handed out.  One made because the pool is empty is not   *)
(* counted in top.                                                          *)
get_http_parser(p) ==
  \/ /\ top < PoolSize
     /\ p = pool[top]
     /\ top' = top + 1
     /\ UNCHANGED <<made, surplus>>
  \/ /\ top >= PoolSize
     /\ p = made + 1
     /\ p \in Parser
     /\ made' = made + 1
     /\ surplus' = surplus + 1
     /\ UNCHANGED top

(* Mutation: the parser is stored before the stack is popped. *)
release_http_parser_swapped(p) ==
  /\ top' = top - 1
  /\ pool' = IF top \in DOMAIN pool THEN [pool EXCEPT ![top] = p] ELSE pool
  /\ fault' = IF top - 1 < 0 THEN "pool" ELSE fault
  /\ UNCHANGED <<made, surplus>>

(* Every release pops the stack, whether p was counted in top or not.  A    *)
(* store below the array is undefined behaviour and ends the model's run.   *)
release_http_parser(p) ==
  /\ top' = top - 1
  /\ pool' = IF top - 1 \in DOMAIN pool THEN [pool EXCEPT ![top - 1] = p]
                                        ELSE pool
  /\ fault' = IF top - 1 < 0 THEN "pool" ELSE fault
  /\ UNCHANGED <<made, surplus>>

(* The parsers that wait in the pool, and those that do not: in use by a    *)
(* connection, or lost because their connection was closed without end_cb.  *)
Pooled == {pool[i] : i \in {j \in DOMAIN pool : j >= top}}
Out    == (1 .. made) \ Pooled

-----------------------------------------------------------------------------
(* The callbacks, as functions of one parser's conn_info.  Writing to a     *)
(* stream that is closed, or closing it again, makes it "misused".          *)

Use(c)    == IF c.stream = "open" THEN c ELSE [c EXCEPT !.stream = "misused"]
fclose(c) == [c EXCEPT !.stream = IF @ = "open" THEN "closed" ELSE "misused"]

(* Answer from a Lua script, which cannot close the stream itself, and      *)
(* close it.  The Lua state taken from the script's idle states is put      *)
(* back: nothing else runs meanwhile.                                       *)
http_lua_eval(c) == fclose(Use(c))

(* Answer with a file, or with 404. *)
http_send_file(c) == Use(c)

(* on_headers_complete: t is "L" if the path matches a script, else "S".    *)
(* get_script compares the path with the patterns without asking whether    *)
(* there is one; if there is not and a pattern, "N", that is undefined.     *)
start_processing(c, t) ==
  LET d == [c EXCEPT !.type = t, !.stage = StageAfter(t), !.requests = @ + 1]
  IN  CASE t = "L" -> http_lua_eval(d)
        [] t = "S" -> http_send_file(d)
        [] t = "N" -> d

(* Mutation: the stream of a script's answer is closed here as well. *)
message_complete_always(c) == [fclose(c) EXCEPT !.stage = "head"]

(* Mutation: the stream is left to end_cb. *)
message_complete_never(c) == [c EXCEPT !.stage = "head"]

(* on_message_complete.  The parser is then ready for the next request.     *)
message_complete(c) ==
  [(IF c.type = "S" THEN fclose(c) ELSE c) EXCEPT !.stage = "head"]

(* request_processor_reset, with fdopen on the new connection. *)
request_processor_reset(p, s) ==
  /\ client' = [client EXCEPT ![p] = s]
  /\ conn' = [conn EXCEPT ![p].stream = "open", ![p].stage = "head",
                          ![p].requests = 0]

(* How a callback changes the conn_info, by what the parser tells.          *)
Parse(c, e) ==
  CASE e \in {"L", "S", "N"} -> start_processing(c, e)
    [] e = "complete"         -> message_complete(c)
    [] e = "error"            -> [c EXCEPT !.stage = "dead"]

(* What the parser may tell of one chunk of a request at this stage. *)
Chunks(stage) == {es \in BoundedSeq(Event, MaxEvents) : Legal(stage, es)}

(* http_parser_execute on a chunk. *)
http_parser_execute(c, es) == FoldLeft(Parse, c, es)
=============================================================================
