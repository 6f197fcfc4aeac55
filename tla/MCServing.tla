------------------------------ MODULE MCServing ------------------------------
(* Instance of Serving for model checking. *)
EXTENDS Serving

MCChar == {"/", ".", "h", "j", "*"}

(* All tables of up to two entries with patterns that are prefixes of one   *)
(* another, and one of each way to be refused.                              *)
Patterns == {<<"/">>, <<"/", "h">>}
Entries ==
  [pattern : Patterns, mimetype : {"none", "given"}, script : {"none", "fails", "loads"}]
  \cup { [pattern |-> None, mimetype |-> "none", script |-> "loads"],
         [pattern |-> <<"/">>, mimetype |-> "error", script |-> "loads"] }
MCScriptTables == BoundedSeq(Entries, 2)

Mime(key, postfix, type) == [key |-> key, postfix |-> postfix, type |-> type]
MCMimetypeTables ==
  { None, <<Mime("string", <<"h">>, "text/html"), Mime("none", <<>>, "")>>,
    <<Mime("string", <<"j">>, "text/x-j"), Mime("string", <<"j", "h">>, "text/x-jh"),
      Mime("number", <<"h">>, "text/html")>> }
MCTypeName ==
  {"text/html", "text/x-j", "text/x-jh", "text/javascript", "application/octet-stream", ""}
MCDefaultMimetypes ==
  << [postfix |-> <<"h">>, postfix_size |-> 1, type |-> "text/html"],
     [postfix |-> <<"j">>, postfix_size |-> 1, type |-> "text/javascript"] >>

(* All paths of up to four characters, and of five if there are no letters. *)
MCRequestPaths ==
  {<<>>} \cup {<<"/">> \o s : s \in BoundedSeq({"/", ".", "h", "j"}, 3)}
         \cup {<<c>> \o s : c \in {"/", "*"}, s \in BoundedSeq({"/", "."}, 4)}

MCLocation == <<".", "/", "h", "/">>
MCDefaultFile == <<"h", ".", "h">>
=============================================================================
