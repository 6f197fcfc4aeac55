----------------------------- MODULE HttpParser -----------------------------
(***************************************************************************)
(* http_parser_execute (3rd-party/http-parser/http_parser.c): a parser fed  *)
(* one character at a time, whose input is cut into calls at any point.     *)
(*                                                                         *)
(* Between calls everything it knows is in struct http_parser; the          *)
(* positions where a path, a header or another piece of data began are      *)
(* local to a call and made anew from the state.  Four fields (state,       *)
(* header_state, index, nread) are read into locals at entry and written    *)
(* back at the end.  One record stands for both: at the two returns that do *)
(* not write them back the parser is not called again.                      *)
(*                                                                         *)
(* A character stands for its class.  A letter stands for its upper and its *)
(* lower case; a keyword has WordLen letters, and whether a letter is the   *)
(* one the keyword has in that place is left open.  Numbers have base       *)
(* Radix, and Digit stands for the digits of base 10 and of base 16 that    *)
(* the bound on lengths leaves.  Callbacks return 0, as eva's do, but       *)
(* on_headers_complete may return 1 for a response.                         *)
(***************************************************************************)
EXTENDS ParserEvents, Integers, FiniteSets

CONSTANTS Builds,     \* the builds and uses: HTTP_PARSER_STRICT, and the type
                      \* given to http_parser_init: "request", "response", "both"
          WordLen,    \* letters of a keyword
          Radix,      \* base of the numbers
          MaxHeader,  \* bound: nread counts to it, then the limit is anywhere
          MaxLength,  \* bound: the largest length written in a message
          MaxCall,    \* bound: characters of one call
          None

ASSUME ParserAssumption ==
  /\ Builds \subseteq [strict : BOOLEAN, type : {"request", "response", "both"}]
  /\ WordLen \in Nat /\ WordLen >= 3
  /\ Radix \in Nat \ {0} /\ MaxHeader \in Nat \ {0}
  /\ MaxLength \in Nat \ {0} /\ MaxCall \in Nat \ {0}
  /\ None \notin Int

VARIABLES
  build,    \* the one of Builds that runs
  q,        \* struct http_parser
  call,     \* "none", or "run" inside http_parser_execute, "failed", "over"
  p, len,   \* the position in the data, and its length
  mark,     \* url_mark, path_mark, ...: a position in the data, or None
  owed,     \* of each piece of data, the bytes read and not yet passed on
  rest,     \* bytes of the body or the chunk that are still to come
  agreed,   \* letters read of a keyword, -1 if it is another word
  entry,    \* the stage of the message at the start of the call
  events    \* what the call has told the user

vars == <<build, q, call, p, len, mark, owed, rest, agreed, entry, events>>

-----------------------------------------------------------------------------
(* Characters. *)

Alpha == {"c", "d", "e", "h", "k", "p", "t", "u", "z"}
Digit == {"0", "1"}
Hex   == Digit \cup {"c", "d", "e"}
Blank == {"SP", "HT"}
Char  == Alpha \cup Digit \cup Blank \cup
           {"CR", "LF", "/", "*", ":", "?", "#", ";", ".", "DEL"}

(* The tables tokens (where the space is a token) and normal_url_char. *)
Token    == Alpha \cup Digit \cup {"SP", "/", "*", "#", "."}
UrlChar  == Alpha \cup Digit \cup {"/", "*", ":", ";", "."}
HostChar == Alpha \cup Digit \cup {"."}

(* The letters a method begins with. *)
MethodStart == {"c", "d", "h", "p", "t", "u"}

Value(ch) == IF ch = "0" THEN 0 ELSE 1

Strict == build.strict

(* STRICT_CHECK: c, and if the build is not strict any other character too. *)
Checked(c) == {c, "any"}

On(ch, chars) == ch \in chars \/ (~Strict /\ "any" \in chars)

-----------------------------------------------------------------------------
(* Transitions of the request line and of the response line: from a state,  *)
(* on a character of a set, to a state, with marks set and callbacks made.  *)

Line(from, on, to) == <<from, on, to, {}, {}>>

(* s_req_spaces_before_url to s_req_port. *)
BeforePath ==
  { Line("req_spaces_before_url", {"SP"}, "req_spaces_before_url"),
    <<"req_spaces_before_url", {"/", "*"}, "req_path", {"url", "path"}, {}>>,
    Line("req_schema", Alpha, "req_schema"),
    Line("req_schema", {":"}, "req_schema_slash"),
    Line("req_schema_slash", Checked("/"), "req_schema_slash_slash"),
    Line("req_schema_slash_slash", Checked("/"), "req_host"),
    Line("req_host", HostChar, "req_host"),
    Line("req_host", {":"}, "req_port"),
    Line("req_port", Digit, "req_port") }
  \cup UNION { { <<from, {"/"}, "req_path", {"path"}, {}>>,
                 <<from, {"SP"}, "req_http_start", {}, {"url"}>>,
                 Line(from, {"?"}, "req_query_string_start") }
               : from \in {"req_host", "req_port"} }

(* The three ways a URL ends. *)
UrlEnds(from, data) ==
  { <<from, {"SP"}, "req_http_start", {}, {"url"} \cup data>>,
    <<from, {"CR"}, "req_line_almost_done", {}, {"url"} \cup data>>,
    <<from, {"LF"}, "header_field_start", {}, {"url"} \cup data>> }

(* s_req_path, s_req_query_string_start, s_req_query_string *)
PathAndQuery ==
  { Line("req_path", UrlChar, "req_path"),
    <<"req_path", {"?"}, "req_query_string_start", {}, {"path"}>>,
    <<"req_path", {"#"}, "req_fragment_start", {}, {"path"}>>,
    <<"req_query_string_start", UrlChar, "req_query_string", {"query"}, {}>>,
    Line("req_query_string_start", {"?"}, "req_query_string_start"),
    Line("req_query_string_start", {"#"}, "req_fragment_start"),
    Line("req_query_string", UrlChar \cup {"?"}, "req_query_string"),
    <<"req_query_string", {"#"}, "req_fragment_start", {}, {"query"}>> }
  \cup UrlEnds("req_path", {"path"})
  \cup UrlEnds("req_query_string_start", {})
  \cup UrlEnds("req_query_string", {"query"})

(* s_req_fragment_start, s_req_fragment *)
Fragment ==
  { <<"req_fragment_start", UrlChar \cup {"?"}, "req_fragment", {"fragment"}, {}>>,
    Line("req_fragment_start", {"#"}, "req_fragment_start"),
    Line("req_fragment", UrlChar \cup {"?", "#"}, "req_fragment") }
  \cup UrlEnds("req_fragment_start", {})
  \cup UrlEnds("req_fragment", {"fragment"})

(* "HTTP/1.1", from the state after the H on: the states of a request's     *)
(* version and those of a response's are alike.                             *)
Version(H, HT, HTT, HTTP, first_major, major, first_minor, minor) ==
  { Line(H, Checked("t"), HT),
    Line(HT, Checked("t"), HTT),
    Line(HTT, Checked("p"), HTTP),
    Line(HTTP, Checked("/"), first_major),
    Line(first_major, Digit \ {"0"}, major),
    Line(major, {"."}, first_minor),
    Line(major, Digit, major),
    Line(first_minor, Digit, minor),
    Line(minor, Digit, minor) }

(* s_req_http_start to s_req_line_almost_done *)
RequestVersion ==
  { Line("req_http_start", {"h"}, "req_http_H"),
    Line("req_http_start", {"SP"}, "req_http_start"),
    Line("req_http_minor", {"CR"}, "req_line_almost_done"),
    Line("req_http_minor", {"LF"}, "header_field_start"),
    Line("req_line_almost_done", {"LF"}, "header_field_start") }
  \cup Version("req_http_H", "req_http_HT", "req_http_HTT", "req_http_HTTP",
               "req_first_http_major", "req_http_major",
               "req_first_http_minor", "req_http_minor")

(* s_res_H to s_res_line_almost_done *)
ResponseLine ==
  { Line("res_http_minor", {"SP"}, "res_first_status_code"),
    Line("res_first_status_code", Digit, "res_status_code"),
    Line("res_first_status_code", {"SP"}, "res_first_status_code"),
    Line("res_status_code", Digit, "res_status_code"),
    Line("res_status_code", {"SP"}, "res_status"),
    Line("res_status", Char \ {"CR", "LF"}, "res_status"),
    Line("res_line_almost_done", Checked("LF"), "header_field_start") }
  \cup Version("res_H", "res_HT", "res_HTT", "res_HTTP",
               "res_first_http_major", "res_http_major",
               "res_first_http_minor", "res_http_minor")
  \cup UNION { { Line(from, {"CR"}, "res_line_almost_done"),
                 Line(from, {"LF"}, "header_field_start") }
               : from \in {"res_status_code", "res_status"} }

Lines == BeforePath \cup PathAndQuery \cup Fragment
           \cup RequestVersion \cup ResponseLine

(* Numbers that may not grow beyond 999. *)
Limited == {"req_http_major", "req_http_minor",
            "res_http_major", "res_http_minor", "res_status_code"}

(* The other states.  Up to s_headers_almost_done they count nread.         *)
HeaderStates ==
  {l[1] : l \in Lines} \cup
  {"dead", "start_req_or_res", "res_or_resp_H", "start_res", "start_req",
   "req_method", "header_field_start", "header_field", "header_value_start",
   "header_value", "header_value_lws", "header_almost_done",
   "chunk_size_start", "chunk_size", "chunk_parameters",
   "chunk_size_almost_done", "headers_almost_done"}
ChunkData == {"chunk_data", "chunk_data_almost_done", "chunk_data_done"}
State == HeaderStates \cup ChunkData \cup {"body_identity", "body_identity_eof"}

(* header_state: the keyword that a name or a value may be or, once it is   *)
(* full, is.  "C" is the part that Connection and Content-Length share.     *)
Names == {"connection", "content_length", "transfer_encoding", "upgrade"}
Words == Names \cup {"general", "C", "proxy_connection", "chunked", "keep_alive", "close"}

General     == [word |-> "general", full |-> FALSE]
Matching(w) == [word |-> w, full |-> FALSE]
Full(w)     == [word |-> IF w = "proxy_connection" THEN "connection" ELSE w,
                full |-> TRUE]

Flag == {"chunked", "keep_alive", "close", "trailing", "upgrade", "skipbody"}

-----------------------------------------------------------------------------
(* Marks and callbacks. *)

Data == {"url", "path", "query", "fragment", "field", "value"}

(* The bytes of a piece of data are those that lead to one of its states:   *)
(* those of a URL begin after the spaces before it and end before those     *)
(* after it.                                                                *)
Region(d) ==
  CASE d = "url"      -> {l[1] : l \in BeforePath \cup PathAndQuery \cup Fragment}
                           \ {"req_spaces_before_url"}
    [] d = "path"     -> {"req_path"}
    [] d = "query"    -> {"req_query_string"}
    [] d = "fragment" -> {"req_fragment"}
    [] d = "field"    -> {"header_field"}
    [] d = "value"    -> {"header_value"}

(* Mutation: the URL is not resumed inside the host. *)
Resumed_not_in_host(state) ==
  {d \in Data : state \in Region(d)} \ (IF state = "req_host" THEN {"url"} ELSE {})

(* The marks set at entry to a call. *)
Resumed(state) ==
  (CASE state = "header_field"     -> {"field"}
     [] state = "header_value"     -> {"value"}
     [] state = "req_fragment"     -> {"fragment"}
     [] state = "req_query_string" -> {"query"}
     [] state = "req_path"         -> {"path"}
     [] OTHER                      -> {})
  \cup (IF state \in {"req_path", "req_schema", "req_schema_slash",
                      "req_schema_slash_slash", "req_port",
                      "req_query_string_start", "req_query_string", "req_host",
                      "req_fragment_start", "req_fragment"}
        THEN {"url"} ELSE {})

Passed(d) == IF mark[d] = None THEN 0 ELSE p - mark[d]

http_should_keep_alive(r) == IF r.http11 THEN "close" \notin r.flags
                                         ELSE "keep_alive" \in r.flags

(* start_state, and NEW_MESSAGE. *)
start_state(type) == IF type = "request" THEN "start_req" ELSE "start_res"

NewMessage(r) == IF Strict /\ ~http_should_keep_alive(r) THEN "dead"
                                                         ELSE start_state(r.type)

-----------------------------------------------------------------------------
(* Steps.  n is the parser when the character has been counted.             *)

n == IF q.state \in HeaderStates
     THEN [q EXCEPT !.nread = IF @ < MaxHeader THEN @ + 1 ELSE @]
     ELSE q

NoMark == [d \in Data |-> None]

(* On to the parser r, with the marks set, callbacks made on data, events   *)
(* told, and size bytes read.                                               *)
Advance(r, marks, callbacks, es, size) ==
  /\ q' = r
  /\ p' = p + size
  /\ mark' = [d \in Data |-> IF d \in callbacks THEN None
                             ELSE IF d \in marks THEN p ELSE mark[d]]
  /\ owed' = [d \in Data |-> owed[d] + (IF r.state \in Region(d) THEN 1 ELSE 0)
                                - (IF d \in callbacks THEN Passed(d) ELSE 0)]
  /\ events' = events \o es
  /\ UNCHANGED <<call, len, entry>>

(* Within the headers. *)
Read(r, marks, callbacks) ==
  Advance(r, marks, callbacks, <<>>, 1) /\ UNCHANGED <<rest, agreed>>

Go(state) == Read([n EXCEPT !.state = state], {}, {})

(* error: the parser is dead from here on. *)
Reject ==
  /\ call' = "failed"
  /\ events' = Append(events, "error")
  /\ UNCHANGED <<q, p, len, mark, owed, rest, agreed, entry>>

-----------------------------------------------------------------------------
(* The characters of a message, one action for each state or table.         *)

(* Too many characters in the headers. *)
HeaderOverflow == q.state \in HeaderStates /\ q.nread = MaxHeader /\ Reject

(* s_dead *)
ReadsAfterClose == q.state = "dead" /\ Reject

(* From start_req_method_assign. *)
MethodAssign(r, ch) ==
  IF ch \in MethodStart
  THEN \/ Read([r EXCEPT !.connect = FALSE, !.index = 1, !.state = "req_method"], {}, {})
       \/ /\ ch = "c"
          /\ Read([r EXCEPT !.connect = TRUE, !.index = 1, !.state = "req_method"], {}, {})
       \/ Reject
  ELSE Reject

NewMessageBegins == [n EXCEPT !.flags = {}, !.content_length = -1]

StartReqOrRes(ch) ==
  /\ q.state = "start_req_or_res"
  /\ CASE ch \in {"CR", "LF"} -> Go("start_req_or_res")
       [] ch = "h" -> Read([NewMessageBegins EXCEPT !.state = "res_or_resp_H"], {}, {})
       [] OTHER    -> MethodAssign([NewMessageBegins EXCEPT !.type = "request"], ch)

(* "HT" begins a response and "HE" the request HEAD. *)
ResOrRespH(ch) ==
  /\ q.state = "res_or_resp_H"
  /\ CASE ch = "t" -> Read([n EXCEPT !.type = "response", !.state = "res_HT"], {}, {})
       [] ch = "e" -> Read([n EXCEPT !.type = "request", !.connect = FALSE,
                                     !.index = 2, !.state = "req_method"], {}, {})
       [] OTHER    -> Reject

StartRes(ch) ==
  /\ q.state = "start_res"
  /\ CASE ch = "h"            -> Read([NewMessageBegins EXCEPT !.state = "res_H"], {}, {})
       [] ch \in {"CR", "LF"} -> Read(NewMessageBegins, {}, {})
       [] OTHER                -> Reject

StartReq(ch) ==
  /\ q.state = "start_req"
  /\ IF ch \in {"CR", "LF"} THEN Go("start_req") ELSE MethodAssign(NewMessageBegins, ch)

(* Mutation: the end of the method's name is not looked for. *)
ReqMethod_no_end(ch) ==
  /\ q.state = "req_method"
  /\ IF ch = "SP" THEN Go("req_spaces_before_url")
     ELSE Read([n EXCEPT !.index = @ + 1], {}, {})

(* A letter that is not the method's may turn it into another, as CONNECT   *)
(* becomes COPY.                                                            *)
ReqMethod(ch) ==
  /\ q.state = "req_method"
  /\ LET on == [n EXCEPT !.index = @ + 1]
     IN  \/ /\ ch = "SP" /\ q.index = WordLen
            /\ Read([on EXCEPT !.state = "req_spaces_before_url"], {}, {})
         \/ /\ ch \in Alpha /\ q.index < WordLen
            /\ \/ Read(on, {}, {})
               \/ q.index =< 2 /\ Read([on EXCEPT !.connect = FALSE], {}, {})
         \/ ~(ch = "SP" /\ q.index = WordLen) /\ Reject

StartsUrl(ch) == /\ q.state = "req_spaces_before_url"
                 /\ ch \in Alpha \/ (q.connect /\ ch \in Digit)

(* An absolute URL, or the host of CONNECT. *)
ReqUrlStart(ch) ==
  /\ StartsUrl(ch)
  /\ Read([n EXCEPT !.state = IF q.connect THEN "req_host" ELSE "req_schema"], {"url"}, {})

(* Whether the version is at least 1.1: the minor version is not zero, and  *)
(* 0.9 is that of a request line without one.                               *)
VersionAfter(ch) ==
  CASE q.state \in {"req_first_http_minor", "res_first_http_minor"} -> ch # "0"
    [] q.state \in {"req_http_minor", "res_http_minor"} -> q.http11 \/ ch = "1"
    [] q.state \in Region("url") /\ ch \in {"CR", "LF"} -> FALSE
    [] OTHER -> q.http11

LinesOn(ch) == {l \in Lines : l[1] = q.state /\ On(ch, l[2])}

OnLine(ch) ==
  \E l \in LinesOn(ch) :
    Read([n EXCEPT !.state = l[3], !.http11 = VersionAfter(ch)], l[4], l[5])

BadLine(ch) ==
  /\ \/ /\ q.state \in {l[1] : l \in Lines}
        /\ LinesOn(ch) = {} /\ ~StartsUrl(ch)
     \/ q.state \in Limited /\ ch \in Digit
  /\ Reject

-----------------------------------------------------------------------------
(* Headers. *)

(* A header's name or value has one more letter, the first if index is 0.   *)
Spell(r, letters, marks, callbacks) ==
  Advance(r, marks, callbacks, <<>>, 1) /\ agreed' = letters /\ UNCHANGED rest

(* Mutation: the word is taken for complete one letter late. *)
Compare_late(r, agrees) ==
  [r EXCEPT !.index = @ + 1,
            !.header_state = CASE ~agrees -> General
                               [] agrees /\ r.index + 1 = WordLen -> Full(@.word)
                               [] OTHER -> @]

(* index++, and the letter is compared with that of the keyword there. *)
Compare(r, agrees) ==
  [r EXCEPT !.index = @ + 1,
            !.header_state = CASE ~agrees -> General
                               [] agrees /\ r.index + 1 = WordLen - 1 -> Full(@.word)
                               [] OTHER -> @]

(* The message ends with its headers. *)
NoBody(r) ==
  \/ "skipbody" \in r.flags
  \/ /\ "chunked" \notin r.flags
     /\ \/ r.content_length = 0
        \/ r.content_length = -1 /\ (r.type = "request" \/ http_should_keep_alive(r))

(* How the body is delimited. *)
BodyState(r) == IF NoBody(r) THEN NewMessage(r)
                ELSE IF "chunked" \in r.flags THEN "chunk_size_start"
                ELSE IF r.content_length > 0 THEN "body_identity"
                ELSE "body_identity_eof"

(* The headers are complete; skip if on_headers_complete returns 1.         *)
HeadersComplete(r, skip) ==
  LET d == [r EXCEPT !.nread = 0,
                     !.upgrade = @ \/ "upgrade" \in r.flags \/ r.connect,
                     !.flags = IF skip THEN @ \cup {"skipbody"} ELSE @]
      next == IF d.upgrade THEN d.state ELSE BodyState(d)
  IN  /\ Advance([d EXCEPT !.state = next], {}, {},
                 IF d.upgrade \/ NoBody(d) THEN <<"S", "complete">> ELSE <<"S">>, 1)
      /\ rest' = IF next = "body_identity" THEN d.content_length ELSE 0
      /\ UNCHANGED agreed

Skips(r) == IF r.type = "response" THEN BOOLEAN ELSE {FALSE}

(* Mutation: trailers are taken for the headers of another message. *)
headers_almost_done_no_trailing(r, ch) ==
  IF Strict /\ ch # "LF" THEN Reject
  ELSE \E skip \in Skips(r) : HeadersComplete(r, skip)

(* headers_almost_done.  After trailers the message is complete; after the  *)
(* headers it is if it has no body or changes to another protocol.          *)
headers_almost_done(r, ch) ==
  IF Strict /\ ch # "LF" THEN Reject
  ELSE IF "trailing" \in r.flags
  THEN /\ Advance([r EXCEPT !.state = NewMessage(r)], {}, {}, <<"complete">>, 1)
       /\ UNCHANGED <<rest, agreed>>
  ELSE \E skip \in Skips(r) : HeadersComplete(r, skip)

(* header_field_start.  The first letter of a name says which keyword it    *)
(* may be.                                                                  *)
FirstOfName(ch) == CASE ch = "c" -> Matching("C")
                     [] ch = "p" -> Matching("proxy_connection")
                     [] ch = "t" -> Matching("transfer_encoding")
                     [] ch = "u" -> Matching("upgrade")
                     [] OTHER    -> General

header_field_start(ch) ==
  CASE ch = "CR"     -> Go("headers_almost_done")
    [] ch = "LF"     -> headers_almost_done([n EXCEPT !.state = "headers_almost_done"], ch)
    [] ch \in Token -> LET h == FirstOfName(ch)
                       IN  Spell([n EXCEPT !.state = "header_field", !.index = 0,
                                           !.header_state = h],
                                 IF h = General THEN -1 ELSE 1, {"field"}, {})
    [] OTHER         -> Reject

HeaderFieldStart(ch) == q.state = "header_field_start" /\ header_field_start(ch)

(* How many letters agree when one more has, or has not. *)
Agreed(agrees) == IF agrees /\ agreed \in 1 .. WordLen - 1 THEN agreed + 1 ELSE -1

(* One more letter of a name.  Full names may be followed by spaces. *)
HeaderFieldToken(ch) ==
  /\ q.state = "header_field" /\ ch \in Token
  /\ LET h == q.header_state
     IN CASE h.full /\ h.word \in Names ->
               IF ch = "SP" THEN Read(n, {}, {})
               ELSE Spell([n EXCEPT !.header_state = General], -1, {}, {})
          [] h = General -> Read(n, {}, {})
          [] h = Matching("C") ->
               \E w \in {"general", "connection", "content_length"} :
                 /\ w # "general" => ch \in Alpha
                 /\ Spell([n EXCEPT !.index = @ + 1, !.header_state = Matching(w)],
                          Agreed(w # "general"), {}, {})
          [] h.word \in Names \cup {"proxy_connection"} /\ ~h.full ->
               \E agrees \in IF ch \in Alpha THEN BOOLEAN ELSE {FALSE} :
                 Spell(Compare(n, agrees), Agreed(agrees), {}, {})

HeaderFieldEnds(ch) ==
  /\ q.state = "header_field" /\ ch \notin Token
  /\ CASE ch = ":"  -> Read([n EXCEPT !.state = "header_value_start"], {}, {"field"})
       [] ch = "CR" -> Read([n EXCEPT !.state = "header_almost_done"], {}, {"field"})
       [] ch = "LF" -> Read([n EXCEPT !.state = "header_field_start"], {}, {"field"})
       [] OTHER     -> Reject

(* header_almost_done.  The header is known, and so are its flags. *)
header_almost_done(r, ch, callbacks) ==
  IF Strict /\ ch # "LF" THEN Reject
  ELSE LET h == r.header_state
       IN  Read([r EXCEPT !.state = "header_value_lws",
                          !.flags = IF h.full THEN @ \cup ({h.word} \cap
                                      {"chunked", "keep_alive", "close"}) ELSE @],
                {}, callbacks)

(* The first letter of a value, which for two headers may begin a keyword.  *)
FirstOfValue(h, ch) ==
  CASE h = Full("transfer_encoding") /\ ch = "c" -> Matching("chunked")
    [] h = Full("connection") /\ ch = "k"        -> Matching("keep_alive")
    [] h = Full("connection") /\ ch = "c"        -> Matching("close")
    [] h = Full("content_length")                -> h
    [] OTHER                                     -> General

HeaderValueStart(ch) ==
  /\ q.state = "header_value_start"
  /\ LET r == [n EXCEPT !.state = "header_value", !.index = 0]
         h == q.header_state
     IN CASE ch \in Blank -> Go("header_value_start")
          [] ch = "CR" -> Read([r EXCEPT !.header_state = General,
                                         !.state = "header_almost_done"], {"value"}, {"value"})
          [] ch = "LF" -> Read([r EXCEPT !.state = "header_field_start"], {"value"}, {"value"})
          [] h = Full("content_length") /\ ch \notin Digit \cup Blank \cup {"CR", "LF"} -> Reject
          [] OTHER ->
               LET k == FirstOfValue(h, ch)
               IN  Spell([r EXCEPT !.header_state = k,
                                   !.flags = IF h = Full("upgrade") THEN @ \cup {h.word}
                                                                    ELSE @,
                                   !.content_length = IF h = Full("content_length")
                                                      THEN Value(ch) ELSE @],
                         IF k = General THEN -1 ELSE 1, {"value"}, {})

(* content_length with one more digit. *)
Longer(ch) == q.content_length * Radix + Value(ch)

HeaderValue(ch) ==
  /\ q.state = "header_value"
  /\ LET h == q.header_state
     IN CASE ch = "CR" -> Read([n EXCEPT !.state = "header_almost_done"], {}, {"value"})
          [] ch = "LF" -> header_almost_done(n, ch, {"value"})
          [] h = Full("content_length") /\ ch \notin {"CR", "LF"} ->
               CASE ch = "SP" -> Read(n, {}, {})
                 [] ch \in Digit -> /\ Longer(ch) =< MaxLength
                                    /\ Read([n EXCEPT !.content_length = Longer(ch)], {}, {})
                 [] OTHER -> Reject
          [] h.word \in {"chunked", "keep_alive", "close"} /\ ch \notin {"CR", "LF"} ->
               IF h.full
               THEN IF ch = "SP" THEN Read(n, {}, {})
                    ELSE Spell([n EXCEPT !.header_state = General], -1, {}, {})
               ELSE \E agrees \in IF ch \in Alpha THEN BOOLEAN ELSE {FALSE} :
                      Spell(Compare(n, agrees), Agreed(agrees), {}, {})
          [] OTHER -> Read([n EXCEPT !.header_state = General], {}, {})

HeaderAlmostDone(ch) == q.state = "header_almost_done" /\ header_almost_done(n, ch, {})

(* A line that begins with a blank continues the value. *)
HeaderValueLws(ch) ==
  /\ q.state = "header_value_lws"
  /\ IF ch \in Blank THEN Go("header_value_start") ELSE header_field_start(ch)

HeadersAlmostDone(ch) == q.state = "headers_almost_done" /\ headers_almost_done(n, ch)

-----------------------------------------------------------------------------
(* Bodies.  They are passed on as they come, as much as the call has.       *)

Least(a, b) == IF a < b THEN a ELSE b

BodyIdentity ==
  /\ q.state = "body_identity"
  /\ LET to_read == Least(len - p, q.content_length)
         left    == q.content_length - to_read
     IN  /\ Advance([q EXCEPT !.content_length = left,
                              !.state = IF left = 0 THEN NewMessage(q) ELSE @],
                    {}, {}, IF left = 0 THEN <<"complete">> ELSE <<>>, to_read)
         /\ rest' = rest - to_read
         /\ UNCHANGED agreed

BodyIdentityEof ==
  /\ q.state = "body_identity_eof"
  /\ Advance(q, {}, {}, <<>>, len - p)
  /\ UNCHANGED <<rest, agreed>>

ChunkSizeStart(ch) ==
  /\ q.state = "chunk_size_start"
  /\ IF ch \notin Hex THEN Reject
     ELSE /\ ch \in Digit
          /\ Read([n EXCEPT !.content_length = Value(ch), !.state = "chunk_size"], {}, {})

ChunkSize(ch) ==
  /\ q.state = "chunk_size"
  /\ CASE ch = "CR"           -> Go("chunk_size_almost_done")
       [] ch \in {";", "SP"}  -> Go("chunk_parameters")
       [] ch \in Hex          -> /\ ch \in Digit /\ Longer(ch) =< MaxLength
                                 /\ Read([n EXCEPT !.content_length = Longer(ch)], {}, {})
       [] OTHER               -> Reject

ChunkParameters(ch) ==
  /\ q.state = "chunk_parameters"
  /\ Go(IF ch = "CR" THEN "chunk_size_almost_done" ELSE "chunk_parameters")

(* Mutation: the characters counted so far are kept. *)
ChunkSizeAlmostDone_counts_on(ch) ==
  /\ q.state = "chunk_size_almost_done"
  /\ IF ~On(ch, Checked("LF")) THEN Reject
     ELSE /\ Advance(IF q.content_length = 0
                     THEN [n EXCEPT !.flags = @ \cup {"trailing"},
                                    !.state = "header_field_start"]
                     ELSE [n EXCEPT !.state = "chunk_data"],
                     {}, {}, <<>>, 1)
          /\ rest' = q.content_length
          /\ UNCHANGED agreed

(* A chunk of size 0 is the last, and trailers follow. *)
ChunkSizeAlmostDone(ch) ==
  /\ q.state = "chunk_size_almost_done"
  /\ IF ~On(ch, Checked("LF")) THEN Reject
     ELSE /\ Advance(IF q.content_length = 0
                     THEN [n EXCEPT !.nread = 0, !.flags = @ \cup {"trailing"},
                                    !.state = "header_field_start"]
                     ELSE [n EXCEPT !.nread = 0, !.state = "chunk_data"],
                     {}, {}, <<>>, 1)
          /\ rest' = q.content_length
          /\ UNCHANGED agreed

(* Mutation: the length is reduced before it is compared. *)
ReadChunkData_reduced_first ==
  LET to_read == Least(len - p, q.content_length)
  IN  /\ Advance([q EXCEPT !.content_length = @ - to_read,
                           !.state = IF to_read = q.content_length - to_read
                                     THEN "chunk_data_almost_done" ELSE @],
                 {}, {}, <<>>, to_read)
      /\ rest' = rest - to_read
      /\ UNCHANGED agreed

ReadChunkData ==
  LET to_read == Least(len - p, q.content_length)
  IN  /\ Advance([q EXCEPT !.content_length = @ - to_read,
                           !.state = IF to_read = q.content_length
                                     THEN "chunk_data_almost_done" ELSE @],
                 {}, {}, <<>>, to_read)
      /\ rest' = rest - to_read
      /\ UNCHANGED agreed

ChunkDataEnds(ch) ==
  \/ /\ q.state = "chunk_data_almost_done"
     /\ IF On(ch, Checked("CR")) THEN Go("chunk_data_done") ELSE Reject
  \/ /\ q.state = "chunk_data_done"
     /\ IF On(ch, Checked("LF")) THEN Go("chunk_size_start") ELSE Reject

-----------------------------------------------------------------------------
(* Calls. *)

(* http_parser_init *)
Init ==
  /\ build \in Builds
  /\ q = [state |-> CASE build.type = "request"  -> "start_req"
                       [] build.type = "response" -> "start_res"
                       [] OTHER                   -> "start_req_or_res",
          header_state |-> General, index |-> 0, nread |-> 0, type |-> build.type,
          flags |-> {}, content_length |-> -1, http11 |-> FALSE,
          connect |-> FALSE, upgrade |-> FALSE]
  /\ call = "none" /\ p = 0 /\ len = 0
  /\ mark = NoMark /\ owed = [d \in Data |-> 0]
  /\ rest = 0 /\ agreed = -1
  /\ entry = "head" /\ events = <<>>

(* http_parser_execute is called with length bytes. *)
Execute(length) ==
  /\ call = "none"
  /\ call' = "run" /\ len' = length
  /\ mark' = [d \in Data |-> IF d \in Resumed(q.state) THEN 0 ELSE None]
  /\ UNCHANGED <<q, p, owed, rest, agreed, entry, events>>

(* Mutation: header_state is not written back. *)
Saved_no_header_state == [q EXCEPT !.header_state = General]

(* The fields written back at the end. *)
Saved == q

Stage == IF events = <<>> THEN entry ELSE StageAfter(events[Len(events)])

(* The data is used up: pieces that go on are passed on as far as they go.  *)
Return ==
  /\ call = "run" /\ p = len /\ ~q.upgrade
  /\ call' = "none" /\ q' = Saved
  /\ owed' = [d \in Data |-> owed[d] - Passed(d)]
  /\ mark' = NoMark /\ p' = 0 /\ len' = 0
  /\ entry' = Stage /\ events' = <<>>
  /\ UNCHANGED <<rest, agreed>>

(* The rest is for another protocol: the user takes over. *)
ReturnUpgraded ==
  /\ call = "run" /\ q.upgrade
  /\ call' = "over"
  /\ UNCHANGED <<q, p, len, mark, owed, rest, agreed, entry, events>>

(* http_parser_execute is called with no bytes: the end of the input. *)
ExecuteEof ==
  /\ call = "none"
  /\ call' = IF q.state \in {"body_identity_eof", "dead", "start_req_or_res",
                             "start_res", "start_req"} THEN "over" ELSE "failed"
  /\ events' = CASE call' = "failed"                -> <<"error">>
                 [] q.state = "body_identity_eof"   -> <<"complete">>
                 [] OTHER                           -> <<>>
  /\ UNCHANGED <<q, p, len, mark, owed, rest, agreed, entry>>

Ended == call \in {"failed", "over"} /\ UNCHANGED vars

Character(ch) ==
  \/ StartReqOrRes(ch) \/ ResOrRespH(ch) \/ StartRes(ch) \/ StartReq(ch)
  \/ ReqMethod(ch) \/ ReqUrlStart(ch) \/ OnLine(ch) \/ BadLine(ch)
  \/ HeaderFieldStart(ch) \/ HeaderFieldToken(ch) \/ HeaderFieldEnds(ch)
  \/ HeaderValueStart(ch) \/ HeaderValue(ch)
  \/ HeaderAlmostDone(ch) \/ HeaderValueLws(ch) \/ HeadersAlmostDone(ch)
  \/ ChunkSizeStart(ch) \/ ChunkSize(ch) \/ ChunkParameters(ch)
  \/ ChunkSizeAlmostDone(ch) \/ ChunkDataEnds(ch)

Bytes == \/ q.state = "chunk_data" /\ ReadChunkData
         \/ BodyIdentity \/ BodyIdentityEof
         \/ HeaderOverflow \/ ReadsAfterClose

Next ==
  /\ \/ \E length \in 1 .. MaxCall : Execute(length)
     \/ call = "run" /\ p < len /\ ~q.upgrade
        /\ ((\E ch \in Char : Character(ch)) \/ Bytes)
     \/ Return \/ ReturnUpgraded \/ ExecuteEof \/ Ended
  /\ UNCHANGED build

Spec == Init /\ [][Next]_vars

-----------------------------------------------------------------------------
(* Properties. *)

(* Type invariant. *)
TypeOK ==
  /\ build \in Builds
  /\ q \in [state : State, header_state : [word : Words, full : BOOLEAN],
            index : 0 .. WordLen + 1, nread : 0 .. MaxHeader,
            type : {"request", "response", "both"}, flags : SUBSET Flag,
            content_length : -1 .. MaxLength, http11 : BOOLEAN,
            connect : BOOLEAN, upgrade : BOOLEAN]
  /\ call \in {"none", "run", "failed", "over"}
  /\ len \in 0 .. MaxCall /\ p \in 0 .. len
  /\ mark \in [Data -> 0 .. MaxCall \cup {None}]
  /\ owed \in [Data -> Int]
  /\ rest \in Int /\ agreed \in -1 .. WordLen
  /\ entry \in {"head", "body", "dead"} /\ events \in Seq(Event)

(* However a message is cut into calls, its events are told in the order    *)
(* that the request processor relies on: headers once, then the end of the  *)
(* message once, and nothing after an error.                                *)
EventsInOrder == Legal(entry, events)

(* Every byte of a path, a URL or a header is passed on exactly once: a     *)
(* mark covers just the bytes not yet passed on, and between calls there    *)
(* are none.                                                                *)
DataPassedOn ==
  call \in {"none", "run"} => \A d \in Data : owed[d] = Passed(d)

(* A body of a known length, and each chunk, is passed on to its end and    *)
(* not beyond before the parser goes on.                                    *)
BodyExact ==
  /\ rest > 0 => q.state \in {"body_identity", "chunk_data"} /\ rest = q.content_length
  /\ q.state \in {"body_identity", "chunk_data"} => rest > 0

(* A header is recognised if and only if all letters of its name were read, *)
(* whatever calls they came in.                                             *)
KeywordsExact ==
  LET h == q.header_state
      spelled == \/ q.state = "header_field"
                 \/ q.state = "header_value" /\ h # Full("content_length")
  IN  spelled => /\ h = General <=> agreed = -1
                 /\ h.full <=> agreed = WordLen
                 /\ agreed \in 1 .. WordLen - 1 => q.index = agreed - 1

(* The assertions in the code hold: a chunk's size is the first thing       *)
(* counted after the headers or after the chunk before it, chunks occur in  *)
(* chunked messages only, and a name's or a value's header_state is one     *)
(* that can be there.                                                       *)
AssertionsHold ==
  /\ q.state = "chunk_size_start" => q.nread = 0
  /\ q.state \in ChunkData \cup {"chunk_size_start", "chunk_size", "chunk_parameters",
                                 "chunk_size_almost_done"} => "chunked" \in q.flags
  /\ q.state = "header_field" =>
       q.header_state.word \in Names \cup {"general", "C", "proxy_connection"}
  /\ q.state = "header_value" =>
       q.header_state \notin {Full("connection"), Full("transfer_encoding")}

(* Violated.  A message after which http_should_keep_alive is true is the   *)
(* last of the connection: the parser waits for no other.                   *)
KeepAliveIsLast ==
  call = "run" /\ events # <<>> /\ events[Len(events)] = "complete" /\ ~q.upgrade =>
    (http_should_keep_alive(q) => q.state = "dead")
=============================================================================
