---------------------------- MODULE MCHttpParser ----------------------------
(* Instances of HttpParser for model checking. *)
EXTENDS HttpParser

(* The parser of eva, and a strict one that takes requests and responses.  *)
EvaAndStrict == {[strict |-> FALSE, type |-> "request"],
                 [strict |-> TRUE,  type |-> "both"]}

StrictRequests == {[strict |-> TRUE, type |-> "request"]}
=============================================================================
