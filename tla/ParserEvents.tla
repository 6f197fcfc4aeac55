---------------------------- MODULE ParserEvents ----------------------------
(***************************************************************************)
(* What http_parser tells its user and in which order: the interface        *)
(* between the parser (HttpParser) and the callbacks that answer a request  *)
(* (RequestProcessor).                                                      *)
(***************************************************************************)
EXTENDS Sequences, Naturals

(* on_headers_complete of a request for a script ("L") or a file ("S"), or  *)
(* of one without a path while there are scripts ("N"), which is the end;   *)
(* on_message_complete; a syntax error, after which the parser ignores its  *)
(* input.                                                                   *)
Event == {"L", "S", "N", "complete", "error"}

Follows(stage, e) == \/ e = "error"
                     \/ e \in {"L", "S", "N"} /\ stage = "head"
                     \/ e = "complete" /\ stage = "body"

(* The stage a message is at after event e. *)
StageAfter(e) == CASE e \in {"L", "S"}     -> "body"
                   [] e = "complete"       -> "head"
                   [] e \in {"N", "error"} -> "dead"

(* What may be told of one chunk while a message is at this stage. *)
Legal(stage, es) ==
  \A i \in 1 .. Len(es) :
     LET before == IF i = 1 THEN stage ELSE StageAfter(es[i - 1])
     IN  before # "dead" /\ Follows(before, es[i])
=============================================================================
