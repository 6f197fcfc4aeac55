--------------------------- MODULE HttpParserProofs ---------------------------
(***************************************************************************)
(* Proofs about HttpParser, for keywords, numbers and calls of any length.  *)
(*                                                                         *)
(* The properties follow from one invariant, ParserInv: the parser is one   *)
(* that a character can leave behind (Right), exactly the pieces of data    *)
(* its state is inside of are marked (Marked), and its user has been told   *)
(* of the stage that its state belongs to (Told).  A character either is    *)
(* refused (Rejected) or leads from one right state to another with the     *)
(* marks, callbacks and events that the two states call for (Moved); the    *)
(* rest shows this of every state.                                          *)
(***************************************************************************)
EXTENDS HttpParser, TLAPS

-----------------------------------------------------------------------------
(* The parser between two characters. *)

Parser == [state : State, header_state : [word : Words, full : BOOLEAN],
           index : 0 .. WordLen + 1, nread : 0 .. MaxHeader,
           type : {"request", "response", "both"}, flags : SUBSET Flag,
           content_length : -1 .. MaxLength, http11 : BOOLEAN,
           connect : BOOLEAN, upgrade : BOOLEAN]

ChunkStates == ChunkData \cup {"chunk_size_start", "chunk_size", "chunk_parameters",
                               "chunk_size_almost_done"}

Trailers == {"header_field_start", "header_field", "header_value_start", "header_value",
             "header_value_lws", "header_almost_done", "headers_almost_done"}

(* The states of the request line and the response line. *)
Beginning == {l[1] : l \in Lines} \cup {"req_method", "res_or_resp_H"}

(* A keyword of which a letters have been read, i + 1 of them compared. *)
Spelled(h, a, i) == \/ h.full /\ a = WordLen
                    \/ ~h.full /\ a \in 1 .. WordLen - 1 /\ i = a - 1

NameRight(h, a, i) ==
  \/ h = General /\ a = -1
  \/ h = Matching("C") /\ a = 1 /\ i = 0
  \/ h.word \in Names \cup {"proxy_connection"} /\ (h.full => h.word \in Names) /\ Spelled(h, a, i)

ValueRight(h, a, i, length) ==
  \/ h = General /\ a = -1
  \/ h = Full("content_length") /\ length >= 0
  \/ h.word \in {"chunked", "keep_alive", "close"} /\ Spelled(h, a, i)

(* The parser r, with a letters of a keyword read and left bytes to come. *)
Right(r, a, left) ==
  /\ r \in Parser /\ a \in -1 .. WordLen
  /\ r.state = "req_method" => r.index =< WordLen
  /\ r.state = "header_field" => NameRight(r.header_state, a, r.index)
  /\ r.state = "header_value" => ValueRight(r.header_state, a, r.index, r.content_length)
  /\ r.state \in {"chunk_size", "chunk_parameters", "chunk_size_almost_done"} =>
       r.content_length >= 0
  /\ IF r.state \in {"body_identity", "chunk_data"}
     THEN left = r.content_length /\ left > 0 ELSE left = 0
  /\ r.state \in ChunkData \cup {"chunk_size_start"} => r.nread = 0
  /\ r.state \in ChunkStates => "chunked" \in r.flags
  /\ r.state \in Beginning => "trailing" \notin r.flags

(* The stage of its message, as its user has been told. *)
StageOf(r) ==
  IF \/ r.state \in ChunkStates \cup {"body_identity", "body_identity_eof"}
     \/ r.state \in Trailers /\ "trailing" \in r.flags
  THEN "body" ELSE "head"

(* The rest of the state. *)
CallTypes ==
  /\ build \in Builds /\ call \in {"none", "run", "failed", "over"}
  /\ len \in 0 .. MaxCall /\ p \in 0 .. len
  /\ mark \in [Data -> 0 .. MaxCall \cup {None}] /\ owed \in [Data -> Int]
  /\ entry \in {"head", "body", "dead"} /\ events \in Seq(Event)

(* Exactly the pieces of data that the state is inside of are marked, and   *)
(* only the bytes since their marks are not yet passed on.                  *)
Marked ==
  /\ call = "none" => p = 0 /\ mark = NoMark /\ \A d \in Data : owed[d] = 0
  /\ call = "run" => \A d \in Data : /\ mark[d] # None <=> q.state \in Region(d)
                                     /\ owed[d] = Passed(d)

Told ==
  /\ Legal(entry, events)
  /\ call = "none" => events = <<>>
  /\ call \in {"none", "run"} => Stage = StageOf(q)

ParserInv == CallTypes /\ Right(q, agreed, rest) /\ Marked /\ Told

-----------------------------------------------------------------------------
(* The lines of a message's beginning: where they lead and what they mark. *)

UrlStates == {"req_schema", "req_schema_slash", "req_schema_slash_slash", "req_host",
              "req_port", "req_path", "req_query_string_start", "req_query_string",
              "req_fragment_start", "req_fragment"}

RequestVersionStates ==
  {"req_http_start", "req_http_H", "req_http_HT", "req_http_HTT", "req_http_HTTP",
   "req_first_http_major", "req_http_major", "req_first_http_minor", "req_http_minor",
   "req_line_almost_done"}

ResponseLineStates ==
  {"res_H", "res_HT", "res_HTT", "res_HTTP", "res_first_http_major", "res_http_major",
   "res_first_http_minor", "res_http_minor", "res_first_status_code", "res_status_code",
   "res_status", "res_line_almost_done"}

LineStates == UrlStates \cup RequestVersionStates \cup ResponseLineStates
                \cup {"req_spaces_before_url"}

Inside(d, state) ==
  CASE d = "url"      -> state \in UrlStates
    [] d = "path"     -> state = "req_path"
    [] d = "query"    -> state = "req_query_string"
    [] d = "fragment" -> state = "req_fragment"
    [] d = "field"    -> state = "header_field"
    [] d = "value"    -> state = "header_value"

(* A step from one state to another, with the marks it sets and the pieces  *)
(* it passes on.                                                            *)
Shifts(from, to, marks, callbacks) ==
  /\ marks \subseteq Data /\ callbacks \subseteq Data
  /\ \A d \in Data :
       /\ d \in callbacks => ~Inside(d, to)
       /\ d \in marks \ callbacks => ~Inside(d, from) /\ Inside(d, to)
       /\ d \notin marks \cup callbacks => (Inside(d, from) <=> Inside(d, to))

LineRight(l) ==
  /\ l[1] \in LineStates /\ l[3] \in LineStates \cup {"header_field_start"}
  /\ Shifts(l[1], l[3], l[4], l[5])

LEMMA BeforePathRight ==
  \A l \in BeforePath : LineRight(l) /\ l[1] \in UrlStates \cup {"req_spaces_before_url"}
  BY DEF BeforePath, LineRight, Line, Shifts, Inside, Data, LineStates, UrlStates,
         RequestVersionStates, ResponseLineStates

LEMMA PathAndQueryRight ==
  \A l \in PathAndQuery : LineRight(l) /\ l[1] \in UrlStates
  BY DEF PathAndQuery, UrlEnds, LineRight, Line, Shifts, Inside, Data, LineStates, UrlStates,
         RequestVersionStates, ResponseLineStates

LEMMA FragmentRight ==
  \A l \in Fragment : LineRight(l) /\ l[1] \in UrlStates
  BY DEF Fragment, UrlEnds, LineRight, Line, Shifts, Inside, Data, LineStates, UrlStates,
         RequestVersionStates, ResponseLineStates

LEMMA RequestVersionRight ==
  \A l \in RequestVersion : LineRight(l) /\ l[1] \in RequestVersionStates
  BY DEF RequestVersion, Version, LineRight, Line, Shifts, Inside, Data, LineStates, UrlStates,
         RequestVersionStates, ResponseLineStates

LEMMA ResponseLineRight ==
  \A l \in ResponseLine : LineRight(l) /\ l[1] \in ResponseLineStates
  <1> DEFINE R(l) == LineRight(l) /\ l[1] \in ResponseLineStates
             A == { Line("res_http_minor", {"SP"}, "res_first_status_code"),
                    Line("res_first_status_code", Digit, "res_status_code"),
                    Line("res_first_status_code", {"SP"}, "res_first_status_code"),
                    Line("res_status_code", Digit, "res_status_code"),
                    Line("res_status_code", {"SP"}, "res_status"),
                    Line("res_status", Char \ {"CR", "LF"}, "res_status"),
                    Line("res_line_almost_done", Checked("LF"), "header_field_start") }
             B(from) == { Line(from, {"CR"}, "res_line_almost_done"),
                          Line(from, {"LF"}, "header_field_start") }
             V == Version("res_H", "res_HT", "res_HTT", "res_HTTP",
                         "res_first_http_major", "res_http_major",
                         "res_first_http_minor", "res_http_minor")
  <1>1. \A l \in V : R(l)
    BY DEF Version, LineRight, Line, Shifts, Inside, Data, LineStates, UrlStates,
           RequestVersionStates, ResponseLineStates
  <1>2. ASSUME NEW on
        PROVE  /\ R(Line("res_http_minor", on, "res_first_status_code"))
               /\ R(Line("res_first_status_code", on, "res_status_code"))
               /\ R(Line("res_first_status_code", on, "res_first_status_code"))
               /\ R(Line("res_status_code", on, "res_status_code"))
               /\ R(Line("res_status_code", on, "res_status"))
               /\ R(Line("res_status", on, "res_status"))
               /\ R(Line("res_line_almost_done", on, "header_field_start"))
               /\ R(Line("res_status_code", on, "res_line_almost_done"))
               /\ R(Line("res_status_code", on, "header_field_start"))
               /\ R(Line("res_status", on, "res_line_almost_done"))
               /\ R(Line("res_status", on, "header_field_start"))
    BY DEF LineRight, Line, Shifts, Inside, Data, LineStates, UrlStates,
           RequestVersionStates, ResponseLineStates
  <1> DEFINE S == {B(from) : from \in {"res_status_code", "res_status"}}
  <1>3. ResponseLine = A \cup V \cup UNION S
    BY DEF ResponseLine
  <1> HIDE DEF R, V
  <1>4. \A l \in A : R(l)
    BY <1>2, Zenon
  <1>5. \A from \in {"res_status_code", "res_status"} : \A l \in B(from) : R(l)
    BY <1>2
  <1> HIDE DEF A, B, S
  <1>6. \A x \in S : \A l \in x : R(l)
    BY <1>5 DEF S
  <1>7. \A l \in UNION S : R(l)
    BY <1>6
  <1>8. \A l \in ResponseLine : R(l)
    BY <1>1, <1>3, <1>4, <1>7
  <1> QED
    BY <1>8 DEF R

LEMMA UrlStatesReached ==
  {l[1] : l \in BeforePath \cup PathAndQuery \cup Fragment} = UrlStates \cup {"req_spaces_before_url"}
  <1> DEFINE L == BeforePath \cup PathAndQuery \cup Fragment
  <1>1. \A l \in L : l[1] \in UrlStates \cup {"req_spaces_before_url"}
    BY BeforePathRight, PathAndQueryRight, FragmentRight
  <1>2. /\ Line("req_spaces_before_url", {"SP"}, "req_spaces_before_url") \in L
        /\ Line("req_schema", {":"}, "req_schema_slash") \in L
        /\ Line("req_schema_slash", Checked("/"), "req_schema_slash_slash") \in L
        /\ Line("req_schema_slash_slash", Checked("/"), "req_host") \in L
        /\ Line("req_host", {":"}, "req_port") \in L
        /\ Line("req_port", Digit, "req_port") \in L
    BY DEF BeforePath
  <1>3. /\ Line("req_path", UrlChar, "req_path") \in L
        /\ Line("req_query_string_start", {"?"}, "req_query_string_start") \in L
        /\ Line("req_query_string", UrlChar \cup {"?"}, "req_query_string") \in L
    BY DEF PathAndQuery
  <1>4. /\ Line("req_fragment_start", {"#"}, "req_fragment_start") \in L
        /\ Line("req_fragment", UrlChar \cup {"?", "#"}, "req_fragment") \in L
    BY DEF Fragment
  <1>5. \A from, on, to : Line(from, on, to)[1] = from
    BY DEF Line
  <1> HIDE DEF L
  <1>6. \A s \in UrlStates \cup {"req_spaces_before_url"} : \E l \in L : l[1] = s
    BY <1>2, <1>3, <1>4, <1>5 DEF UrlStates
  <1>7. {l[1] : l \in L} = UrlStates \cup {"req_spaces_before_url"}
    BY <1>1, <1>6
  <1> QED
    BY <1>7 DEF L

LEMMA VersionReached ==
  ASSUME NEW H, NEW HT, NEW HTT, NEW HTTP, NEW first_major, NEW major, NEW first_minor, NEW minor
  PROVE  \A s \in {H, HT, HTT, HTTP, first_major, major, first_minor, minor} :
           \E l \in Version(H, HT, HTT, HTTP, first_major, major, first_minor, minor) : l[1] = s
  <1> DEFINE V == Version(H, HT, HTT, HTTP, first_major, major, first_minor, minor)
  <1>1. /\ Line(H, Checked("t"), HT) \in V
        /\ Line(HT, Checked("t"), HTT) \in V
        /\ Line(HTT, Checked("p"), HTTP) \in V
        /\ Line(HTTP, Checked("/"), first_major) \in V
        /\ Line(first_major, Digit \ {"0"}, major) \in V
        /\ Line(major, Digit, major) \in V
        /\ Line(first_minor, Digit, minor) \in V
        /\ Line(minor, Digit, minor) \in V
    BY DEF Version
  <1>2. \A from, on, to : Line(from, on, to)[1] = from
    BY DEF Line
  <1> HIDE DEF V
  <1>3. \A s \in {H, HT, HTT, HTTP, first_major, major, first_minor, minor} :
              \E l \in V : l[1] = s
    BY <1>1, <1>2
  <1> QED
    BY <1>3 DEF V

LEMMA LineStatesReached == {l[1] : l \in Lines} = LineStates
  <1>1. \A l \in Lines : l[1] \in LineStates
    BY BeforePathRight, PathAndQueryRight, FragmentRight, RequestVersionRight, ResponseLineRight
       DEF Lines, LineStates
  <1>2. \A s \in UrlStates \cup {"req_spaces_before_url"} : \E l \in Lines : l[1] = s
    BY UrlStatesReached DEF Lines
  <1>4. /\ Line("req_http_start", {"SP"}, "req_http_start") \in Lines
        /\ Line("req_line_almost_done", {"LF"}, "header_field_start") \in Lines
    BY DEF Lines, RequestVersion
  <1>5. /\ Line("res_first_status_code", Digit, "res_status_code") \in Lines
        /\ Line("res_status_code", Digit, "res_status_code") \in Lines
        /\ Line("res_status", Char \ {"CR", "LF"}, "res_status") \in Lines
        /\ Line("res_line_almost_done", Checked("LF"), "header_field_start") \in Lines
    BY DEF Lines, ResponseLine
  <1>6. \A from, on, to : Line(from, on, to)[1] = from
    BY DEF Line
  <1>7. \A s \in RequestVersionStates : \E l \in Lines : l[1] = s
    <2> DEFINE V == Version("req_http_H", "req_http_HT", "req_http_HTT", "req_http_HTTP",
                            "req_first_http_major", "req_http_major",
                            "req_first_http_minor", "req_http_minor")
    <2>1. V \subseteq Lines
      BY DEF Lines, RequestVersion
    <2>2. \A s \in {"req_http_H", "req_http_HT", "req_http_HTT", "req_http_HTTP",
                    "req_first_http_major", "req_http_major",
                    "req_first_http_minor", "req_http_minor"} : \E l \in V : l[1] = s
      BY VersionReached
    <2> HIDE DEF V
    <2>3. \A s \in {"req_http_start", "req_line_almost_done"} : \E l \in Lines : l[1] = s
      BY <1>4, <1>6
    <2>4. \A s \in RequestVersionStates : (\E l \in V : l[1] = s) \/ (\E l \in Lines : l[1] = s)
      BY <2>2, <2>3 DEF RequestVersionStates
    <2> QED
      BY <2>1, <2>4
  <1>8. \A s \in ResponseLineStates : \E l \in Lines : l[1] = s
    <2> DEFINE V == Version("res_H", "res_HT", "res_HTT", "res_HTTP",
                            "res_first_http_major", "res_http_major",
                            "res_first_http_minor", "res_http_minor")
    <2>1. V \subseteq Lines
      BY DEF Lines, ResponseLine
    <2>2. \A s \in {"res_H", "res_HT", "res_HTT", "res_HTTP",
                    "res_first_http_major", "res_http_major",
                    "res_first_http_minor", "res_http_minor"} : \E l \in V : l[1] = s
      BY VersionReached
    <2> HIDE DEF V
    <2>3. \A s \in {"res_first_status_code", "res_status_code", "res_status",
                    "res_line_almost_done"} : \E l \in Lines : l[1] = s
      BY <1>5, <1>6
    <2>4. \A s \in ResponseLineStates : (\E l \in V : l[1] = s) \/ (\E l \in Lines : l[1] = s)
      BY <2>2, <2>3 DEF ResponseLineStates
    <2> QED
      BY <2>1, <2>4
  <1>9. \A s \in LineStates : \E l \in Lines : l[1] = s
    BY <1>2, <1>7, <1>8 DEF LineStates
  <1> QED
    BY <1>1, <1>9

LEMMA LinesRight == \A l \in Lines : LineRight(l)
  BY BeforePathRight, PathAndQueryRight, FragmentRight, RequestVersionRight, ResponseLineRight
     DEF Lines

(* The pieces of data that a state is inside of, and those that are resumed *)
(* in it.                                                                   *)
LEMMA Regions ==
  /\ \A state : \A d \in Data : state \in Region(d) <=> Inside(d, state)
  /\ \A state : \A d \in Data : d \in Resumed(state) <=> Inside(d, state)
  <1>1. Region("url") = UrlStates
    BY UrlStatesReached DEF Region, UrlStates
  <1>2. \A state : \A d \in Data : state \in Region(d) <=> Inside(d, state)
    BY <1>1 DEF Region, Inside, Data
  <1>3. \A state : \A d \in Data : d \in Resumed(state) <=> Inside(d, state)
    <2> TAKE state
    <2>1. "url" \in Resumed(state) <=> state \in UrlStates
      BY DEF Resumed, UrlStates
    <2>2. "field" \in Resumed(state) <=> state = "header_field"
      BY DEF Resumed
    <2>3. "value" \in Resumed(state) <=> state = "header_value"
      BY DEF Resumed
    <2>4. "fragment" \in Resumed(state) <=> state = "req_fragment"
      BY DEF Resumed
    <2>5. "query" \in Resumed(state) <=> state = "req_query_string"
      BY DEF Resumed
    <2>6. "path" \in Resumed(state) <=> state = "req_path"
      BY DEF Resumed
    <2> QED
      BY <2>1, <2>2, <2>3, <2>4, <2>5, <2>6 DEF Inside, Data
  <1> QED
    BY <1>2, <1>3

(* The states that are not those of a first line. *)
PlainStates ==
  {"dead", "start_req_or_res", "res_or_resp_H", "start_res", "start_req",
   "req_method", "header_field_start", "header_field", "header_value_start",
   "header_value", "header_value_lws", "header_almost_done",
   "chunk_size_start", "chunk_size", "chunk_parameters",
   "chunk_size_almost_done", "headers_almost_done"}

LEMMA StatesAre ==
  /\ HeaderStates = LineStates \cup PlainStates
  /\ State = LineStates \cup PlainStates \cup ChunkData \cup {"body_identity", "body_identity_eof"}
  /\ Beginning = LineStates \cup {"req_method", "res_or_resp_H"}
  BY LineStatesReached DEF HeaderStates, State, Beginning, PlainStates

-----------------------------------------------------------------------------
(* What is told. *)

(* The stage after events es told at a stage. *)
StageIn(stage, es) == IF es = <<>> THEN stage ELSE StageAfter(es[Len(es)])

LEMMA OneTold ==
  ASSUME NEW stage, NEW es \in Seq(Event), Legal(stage, es), NEW e \in Event,
         StageIn(stage, es) # "dead", Follows(StageIn(stage, es), e)
  PROVE  /\ Append(es, e) \in Seq(Event) /\ Legal(stage, Append(es, e))
         /\ StageIn(stage, Append(es, e)) = StageAfter(e)
  <1> DEFINE fs == Append(es, e)
  <1>1. /\ fs \in Seq(Event) /\ Len(fs) = Len(es) + 1 /\ Len(es) \in Nat /\ fs # <<>>
        /\ fs[Len(fs)] = e /\ \A i \in 1 .. Len(es) : fs[i] = es[i]
        /\ es = <<>> <=> Len(es) = 0
    OBVIOUS
  <1> HIDE DEF fs
  <1>2. ASSUME NEW i \in 1 .. Len(fs)
        PROVE  LET before == IF i = 1 THEN stage ELSE StageAfter(fs[i - 1])
               IN  before # "dead" /\ Follows(before, fs[i])
    <2>1. CASE i \in 1 .. Len(es)
      <3>1. LET before == IF i = 1 THEN stage ELSE StageAfter(es[i - 1])
            IN  before # "dead" /\ Follows(before, es[i])
        BY <2>1 DEF Legal
      <3>2. fs[i] = es[i] /\ (i # 1 => fs[i - 1] = es[i - 1])
        BY <1>1, <2>1
      <3> QED
        BY <3>1, <3>2
    <2>2. CASE i = Len(fs)
      <3>1. (IF i = 1 THEN stage ELSE StageAfter(fs[i - 1])) = StageIn(stage, es)
        BY <1>1, <2>2 DEF StageIn
      <3> QED
        BY <1>1, <2>2, <3>1
    <2> QED
      BY <1>1, <2>1, <2>2
  <1>3. Legal(stage, fs)
    BY <1>2 DEF Legal
  <1> QED
    BY <1>1, <1>3 DEF fs, StageIn

(* Events that lead from one stage to another. *)
Tells(es, from, to) ==
  \/ es = <<>> /\ from = to
  \/ es = <<"S">> /\ from = "head" /\ to = "body"
  \/ es = <<"complete">> /\ from = "body" /\ to = "head"
  \/ es = <<"S", "complete">> /\ from = "head" /\ to = "head"

LEMMA MoreTold ==
  ASSUME NEW stage, NEW es \in Seq(Event), Legal(stage, es),
         NEW fs, NEW to, Tells(fs, StageIn(stage, es), to)
  PROVE  /\ es \o fs \in Seq(Event) /\ Legal(stage, es \o fs)
         /\ StageIn(stage, es \o fs) = to
  <1>1. "S" \in Event /\ "complete" \in Event
    BY DEF Event
  <1>2. CASE fs = <<>>
    BY <1>2 DEF Tells
  <1>3. CASE fs = <<"S">> /\ StageIn(stage, es) = "head" /\ to = "body"
    <2>1. es \o fs = Append(es, "S")
      BY <1>1, <1>3
    <2>2. StageIn(stage, es) # "dead" /\ Follows(StageIn(stage, es), "S")
      BY <1>3 DEF Follows
    <2>3. /\ Append(es, "S") \in Seq(Event) /\ Legal(stage, Append(es, "S"))
          /\ StageIn(stage, Append(es, "S")) = StageAfter("S")
      BY <1>1, <2>2, OneTold
    <2> QED
      BY <1>3, <2>1, <2>3 DEF StageAfter
  <1>4. CASE fs = <<"complete">> /\ StageIn(stage, es) = "body" /\ to = "head"
    <2>1. es \o fs = Append(es, "complete")
      BY <1>1, <1>4
    <2>2. StageIn(stage, es) # "dead" /\ Follows(StageIn(stage, es), "complete")
      BY <1>4 DEF Follows
    <2>3. /\ Append(es, "complete") \in Seq(Event) /\ Legal(stage, Append(es, "complete"))
          /\ StageIn(stage, Append(es, "complete")) = StageAfter("complete")
      BY <1>1, <2>2, OneTold
    <2> QED
      BY <1>4, <2>1, <2>3 DEF StageAfter
  <1>5. CASE fs = <<"S", "complete">> /\ StageIn(stage, es) = "head" /\ to = "head"
    <2> DEFINE gs == Append(es, "S")
    <2>1. /\ gs \in Seq(Event) /\ Legal(stage, gs)
          /\ StageIn(stage, gs) = "body"
      BY <1>1, <1>5, OneTold DEF Follows, StageAfter
    <2>2. es \o fs = Append(gs, "complete")
      BY <1>1, <1>5
    <2> HIDE DEF gs
    <2>3. /\ Append(gs, "complete") \in Seq(Event) /\ Legal(stage, Append(gs, "complete"))
          /\ StageIn(stage, Append(gs, "complete")) = "head"
      BY <1>1, <2>1, OneTold DEF Follows, StageAfter
    <2> QED
      BY <1>5, <2>2, <2>3
  <1> QED
    BY <1>2, <1>3, <1>4, <1>5 DEF Tells

-----------------------------------------------------------------------------
(* A step of the parser that leads from a right state to a right state.     *)

LEMMA Running ==
  ASSUME ParserInv, call = "run"
  PROVE  /\ p \in Nat /\ len \in Nat /\ len =< MaxCall /\ p =< len /\ MaxCall \in Nat
         /\ \A d \in Data : /\ mark[d] \in 0 .. MaxCall \cup {None}
                            /\ mark[d] # None <=> Inside(d, q.state)
                            /\ owed[d] \in Int /\ owed[d] = Passed(d)
         /\ Stage = StageIn(entry, events) /\ Stage = StageOf(q)
  <1>1. CallTypes /\ Marked /\ Told
    BY DEF ParserInv
  <1>2. \A d \in Data : mark[d] # None <=> q.state \in Region(d)
    BY <1>1 DEF Marked
  <1>3. \A d \in Data : mark[d] # None <=> Inside(d, q.state)
    BY <1>2, Regions
  <1> QED
    BY <1>1, <1>3, ParserAssumption DEF CallTypes, Marked, Told, Stage, StageIn

LEMMA Moved ==
  ASSUME ParserInv, call = "run", p < len, UNCHANGED build,
         NEW r, NEW marks, NEW callbacks, NEW es, NEW size \in 1 .. len - p,
         Advance(r, marks, callbacks, es, size),
         Right(r, agreed', rest'), Shifts(q.state, r.state, marks, callbacks),
         size # 1 => \A d \in Data : ~Inside(d, r.state),
         Tells(es, StageOf(q), StageOf(r))
  PROVE  ParserInv'
  <1>1. /\ q' = r /\ p' = p + size /\ call' = call /\ len' = len /\ entry' = entry
        /\ mark' = [d \in Data |-> IF d \in callbacks THEN None
                             ELSE IF d \in marks THEN p ELSE mark[d]]
        /\ owed' = [d \in Data |-> owed[d] + (IF r.state \in Region(d) THEN 1 ELSE 0)
                                - (IF d \in callbacks THEN Passed(d) ELSE 0)]
        /\ events' = events \o es
    BY DEF Advance
  <1>2. /\ p \in Nat /\ len \in Nat /\ len =< MaxCall /\ MaxCall \in Nat
        /\ \A d \in Data : /\ mark[d] \in 0 .. MaxCall \cup {None}
                           /\ mark[d] # None <=> Inside(d, q.state)
                           /\ owed[d] \in Int /\ owed[d] = Passed(d)
        /\ Stage = StageIn(entry, events) /\ Stage = StageOf(q)
    BY Running
  <1>7. events \in Seq(Event) /\ Legal(entry, events) /\ Tells(es, StageIn(entry, events), StageOf(r))
    BY <1>2 DEF ParserInv, CallTypes, Told
  <1>8. /\ events' \in Seq(Event) /\ Legal(entry, events')
        /\ StageIn(entry, events') = StageOf(r)
    BY <1>1, <1>7, MoreTold
  <1>3. ASSUME NEW d \in Data
        PROVE  /\ mark'[d] \in 0 .. MaxCall \cup {None} /\ owed'[d] \in Int
               /\ mark'[d] # None <=> Inside(d, r.state)
               /\ owed'[d] = IF mark'[d] = None THEN 0 ELSE p' - mark'[d]
    <2>1. /\ mark'[d] = IF d \in callbacks THEN None ELSE IF d \in marks THEN p ELSE mark[d]
          /\ owed'[d] = owed[d] + (IF Inside(d, r.state) THEN 1 ELSE 0)
                                - (IF d \in callbacks THEN Passed(d) ELSE 0)
      BY <1>1, Regions
    <2>2. /\ d \in callbacks => ~Inside(d, r.state)
          /\ d \in marks \ callbacks => ~Inside(d, q.state) /\ Inside(d, r.state)
          /\ d \notin marks \cup callbacks => (Inside(d, q.state) <=> Inside(d, r.state))
      BY DEF Shifts
    <2>3. /\ mark[d] \in 0 .. MaxCall \cup {None} /\ (mark[d] # None <=> Inside(d, q.state))
          /\ owed[d] \in Int /\ owed[d] = IF mark[d] = None THEN 0 ELSE p - mark[d]
      BY <1>2 DEF Passed
    <2>4. Inside(d, r.state) => size = 1
      OBVIOUS
    <2>5. None \notin Int
      BY ParserAssumption
    <2> HIDE DEF Inside
    <2>6. CASE d \in callbacks
      BY <1>2, <2>1, <2>2, <2>3, <2>6
    <2>7. CASE d \in marks /\ d \notin callbacks
      BY <1>1, <1>2, <2>1, <2>2, <2>3, <2>4, <2>5, <2>7
    <2>8. CASE d \notin marks /\ d \notin callbacks
      BY <1>1, <1>2, <2>1, <2>2, <2>3, <2>4, <2>5, <2>8
    <2> QED
      BY <2>6, <2>7, <2>8
  <1>4. CallTypes'
    <2>1. /\ build \in Builds /\ len \in 0 .. MaxCall /\ p' \in 0 .. len
          /\ entry \in {"head", "body", "dead"}
      BY <1>1, <1>2 DEF ParserInv, CallTypes
    <2>2. mark' \in [Data -> 0 .. MaxCall \cup {None}] /\ owed' \in [Data -> Int]
      BY <1>1, <1>3
    <2> QED
      BY <1>1, <1>8, <2>1, <2>2 DEF CallTypes
  <1>5. Marked'
    <2>1. \A d \in Data : (mark'[d] # None <=> q'.state \in Region(d)) /\ owed'[d] = Passed(d)'
      BY <1>1, <1>3, Regions DEF Passed
    <2> QED
      BY <1>1, <2>1 DEF Marked
  <1>6. Told'
    BY <1>1, <1>8 DEF Told, Stage, StageIn
  <1> QED
    BY <1>1, <1>4, <1>5, <1>6 DEF ParserInv

LEMMA Rejected ==
  ASSUME ParserInv, call = "run", UNCHANGED build, Reject
  PROVE  ParserInv'
  <1>1. /\ call' = "failed" /\ events' = Append(events, "error")
        /\ UNCHANGED <<q, p, len, mark, owed, rest, agreed, entry>>
    BY DEF Reject
  <1>2. events \in Seq(Event) /\ Legal(entry, events) /\ StageIn(entry, events) = StageOf(q)
    BY Running DEF ParserInv, CallTypes, Told
  <1>3. Append(events, "error") \in Seq(Event) /\ Legal(entry, Append(events, "error"))
    BY <1>2, OneTold DEF StageOf, Event, Follows
  <1>4. CallTypes' /\ Marked' /\ Told'
    BY <1>1, <1>3 DEF ParserInv, CallTypes, Marked, Told
  <1>5. Right(q, agreed, rest)'
    BY <1>1 DEF ParserInv
  <1> QED
    BY <1>4, <1>5 DEF ParserInv

-----------------------------------------------------------------------------
(* Steps of the common forms. *)

(* The parser has counted the character. *)
LEMMA Counted ==
  ASSUME ParserInv
  PROVE  /\ q \in Parser /\ n \in Parser /\ agreed \in -1 .. WordLen
         /\ n.state = q.state /\ n.header_state = q.header_state /\ n.index = q.index
         /\ n.type = q.type /\ n.flags = q.flags /\ n.content_length = q.content_length
         /\ n.http11 = q.http11 /\ n.connect = q.connect /\ n.upgrade = q.upgrade
         /\ q.state \notin HeaderStates => n = q
         /\ q.state \in HeaderStates => rest = 0
  <1>1. q \in Parser /\ agreed \in -1 .. WordLen
    BY DEF ParserInv, Right
  <1>2. IF q.nread < MaxHeader THEN q.nread + 1 \in 0 .. MaxHeader ELSE q.nread \in 0 .. MaxHeader
    BY <1>1, ParserAssumption DEF Parser
  <1>3. n \in Parser
    BY <1>1, <1>2 DEF n, Parser
  <1>4. q.state \in HeaderStates => rest = 0
    BY StatesAre DEF ParserInv, Right, LineStates, UrlStates, RequestVersionStates,
                     ResponseLineStates, PlainStates
  <1> QED
    BY <1>1, <1>3, <1>4 DEF n, Parser

(* States that ask for nothing but, of the first lines, that no trailers    *)
(* have been read.                                                          *)
Easy == LineStates \cup
        {"dead", "start_req_or_res", "res_or_resp_H", "start_res", "start_req",
         "header_field_start", "header_value_start", "header_value_lws",
         "header_almost_done", "headers_almost_done"}

LEMMA EasyRight ==
  ASSUME NEW r \in Parser, NEW a \in -1 .. WordLen, r.state \in Easy,
         r.state \in Beginning => "trailing" \notin r.flags
  PROVE  Right(r, a, 0)
  BY DEF Right, Easy, LineStates, UrlStates, RequestVersionStates, ResponseLineStates,
         ChunkData, ChunkStates

LEMMA Reads ==
  ASSUME ParserInv, call = "run", p < len, UNCHANGED build,
         NEW r, NEW marks, NEW callbacks, Read(r, marks, callbacks),
         Right(r, agreed, rest), Shifts(q.state, r.state, marks, callbacks),
         StageOf(q) = StageOf(r)
  PROVE  ParserInv'
  <1>1. Advance(r, marks, callbacks, <<>>, 1) /\ UNCHANGED <<rest, agreed>>
    BY DEF Read
  <1>2. Right(r, agreed', rest') /\ Tells(<<>>, StageOf(q), StageOf(r)) /\ 1 \in 1 .. len - p
    BY <1>1, Running DEF Tells
  <1> QED
    BY <1>1, <1>2, Moved

LEMMA Spells ==
  ASSUME ParserInv, call = "run", p < len, UNCHANGED build,
         NEW r, NEW letters, NEW marks, NEW callbacks, Spell(r, letters, marks, callbacks),
         Right(r, letters, rest), Shifts(q.state, r.state, marks, callbacks),
         StageOf(q) = StageOf(r)
  PROVE  ParserInv'
  <1>1. Advance(r, marks, callbacks, <<>>, 1) /\ rest' = rest /\ agreed' = letters
    BY DEF Spell
  <1>2. Right(r, agreed', rest') /\ Tells(<<>>, StageOf(q), StageOf(r)) /\ 1 \in 1 .. len - p
    BY <1>1, Running DEF Tells
  <1> QED
    BY <1>1, <1>2, Moved

(* Between states that hold no data nothing is marked. *)
DataStates == UrlStates \cup {"header_field", "header_value"}

LEMMA NoShift ==
  ASSUME NEW from, NEW to, from \notin DataStates, to \notin DataStates
  PROVE  Shifts(from, to, {}, {})
  BY DEF Shifts, Inside, DataStates, UrlStates, Data

LEMMA SameShift == ASSUME NEW from PROVE Shifts(from, from, {}, {})
  BY DEF Shifts

(* On to a state that asks for nothing. *)
LEMMA Goes ==
  ASSUME ParserInv, call = "run", p < len, UNCHANGED build, q.state \in HeaderStates,
         NEW to \in Easy, Go(to), to \in Beginning => "trailing" \notin q.flags,
         q.state \notin DataStates, to \notin DataStates,
         StageOf(q) = StageOf([q EXCEPT !.state = to])
  PROVE  ParserInv'
  <1> DEFINE r == [n EXCEPT !.state = to]
  <1>1. /\ n \in Parser /\ n.flags = q.flags /\ rest = 0 /\ agreed \in -1 .. WordLen
        /\ q \in Parser
    BY Counted
  <1>2. to \in State
    BY StatesAre DEF Easy, PlainStates
  <1>3. r \in Parser /\ r.state = to /\ r.flags = q.flags
    BY <1>1, <1>2 DEF Parser
  <1>4. Read(r, {}, {})
    BY DEF Go
  <1>5. StageOf(r) = StageOf(q)
    <2>1. [q EXCEPT !.state = to].state = to /\ [q EXCEPT !.state = to].flags = q.flags
      BY <1>1 DEF Parser
    <2> QED
      BY <1>3, <2>1 DEF StageOf
  <1> HIDE DEF r
  <1>6. Right(r, agreed, rest) /\ Shifts(q.state, r.state, {}, {})
    BY <1>1, <1>3, EasyRight, NoShift
  <1> QED
    BY <1>4, <1>5, <1>6, Reads

-----------------------------------------------------------------------------
(* The first lines. *)

FirstStates == LineStates \cup {"dead", "start_req_or_res", "res_or_resp_H", "start_res",
                                "start_req", "req_method"}

LEMMA FirstAreHead == \A r : r.state \in FirstStates => StageOf(r) = "head"
  BY DEF StageOf, FirstStates, LineStates, UrlStates, RequestVersionStates,
         ResponseLineStates, ChunkStates, ChunkData, Trailers

LEMMA MethodRight ==
  ASSUME NEW r \in Parser, NEW a \in -1 .. WordLen, r.state = "req_method",
         r.index =< WordLen, "trailing" \notin r.flags
  PROVE  Right(r, a, 0)
  BY DEF Right, ChunkData, ChunkStates

LEMMA FirstRight ==
  ASSUME NEW r \in Parser, NEW a \in -1 .. WordLen, r.state \in FirstStates,
         r.state = "req_method" => r.index =< WordLen, "trailing" \notin r.flags
  PROVE  Right(r, a, 0)
  <1>1. CASE r.state = "req_method"
    BY <1>1, MethodRight
  <1>2. CASE r.state # "req_method"
    BY <1>2, EasyRight DEF FirstStates, Easy
  <1> QED
    BY <1>1, <1>2

(* A character of the first lines that leads to another of their states.    *)
LEMMA ReadsFirst ==
  ASSUME ParserInv, call = "run", p < len, UNCHANGED build,
         q.state \in FirstStates, q.state \notin DataStates,
         NEW r \in Parser, r.state \in FirstStates, r.state \notin DataStates,
         r.state = "req_method" => r.index =< WordLen, "trailing" \notin r.flags,
         Read(r, {}, {})
  PROVE  ParserInv'
  <1>1. rest = 0 /\ agreed \in -1 .. WordLen
    BY Counted, StatesAre DEF FirstStates, PlainStates
  <1>2. Right(r, agreed, rest)
    BY <1>1, FirstRight
  <1>3. Shifts(q.state, r.state, {}, {})
    BY NoShift
  <1>4. StageOf(q) = StageOf(r)
    BY FirstAreHead
  <1> QED
    BY <1>2, <1>3, <1>4, Reads

LEMMA MethodAssigned ==
  ASSUME ParserInv, call = "run", p < len, UNCHANGED build,
         q.state \in FirstStates, q.state \notin DataStates,
         NEW r \in Parser, r.flags = {}, NEW ch, MethodAssign(r, ch)
  PROVE  ParserInv'
  <1>1. CASE Reject
    BY <1>1, Rejected
  <1>2. ASSUME NEW c \in BOOLEAN,
               Read([r EXCEPT !.connect = c, !.index = 1, !.state = "req_method"], {}, {})
        PROVE  ParserInv'
    <2>1. PICK r1 : r1 = [r EXCEPT !.connect = c, !.index = 1, !.state = "req_method"]
      OBVIOUS
    <2>2. r1 \in Parser /\ r1.state = "req_method" /\ r1.index = 1 /\ r1.flags = {}
      <3>1. 1 \in 0 .. WordLen + 1
        BY ParserAssumption
      <3>2. "req_method" \in State
        BY StatesAre DEF PlainStates
      <3> QED
        BY <2>1, <3>1, <3>2 DEF Parser
    <2>3. r1.state \in FirstStates /\ r1.state \notin DataStates /\ r1.index =< WordLen
      BY <2>2, ParserAssumption DEF FirstStates, DataStates, UrlStates
    <2> QED
      BY <1>2, <2>1, <2>2, <2>3, ReadsFirst
  <1> QED
    BY <1>1, <1>2 DEF MethodAssign

LEMMA Fresh ==
  ASSUME ParserInv
  PROVE  /\ NewMessageBegins \in Parser /\ NewMessageBegins.flags = {}
         /\ NewMessageBegins.state = q.state
         /\ \A s \in State : /\ [NewMessageBegins EXCEPT !.state = s] \in Parser
                             /\ [NewMessageBegins EXCEPT !.state = s].flags = {}
                             /\ [NewMessageBegins EXCEPT !.state = s].state = s
         /\ [NewMessageBegins EXCEPT !.type = "request"] \in Parser
         /\ [NewMessageBegins EXCEPT !.type = "request"].flags = {}
  <1>1. n \in Parser /\ n.state = q.state /\ -1 \in -1 .. MaxLength
    BY Counted, ParserAssumption
  <1>2. /\ NewMessageBegins \in Parser /\ NewMessageBegins.flags = {}
        /\ NewMessageBegins.state = q.state
    BY <1>1 DEF NewMessageBegins, Parser
  <1> QED
    BY <1>2 DEF Parser

LEMMA StartReqOrResKeeps ==
  ASSUME ParserInv, call = "run", p < len, UNCHANGED build, NEW ch, StartReqOrRes(ch)
  PROVE  ParserInv'
  <1>1. q.state = "start_req_or_res"
    BY DEF StartReqOrRes
  <1>2. q.state \in FirstStates /\ q.state \notin DataStates /\ q.state \in HeaderStates
    BY <1>1, StatesAre DEF FirstStates, DataStates, UrlStates, PlainStates
  <1>3. CASE Go("start_req_or_res")
    <2>1. Read([n EXCEPT !.state = "start_req_or_res"], {}, {}) /\ n \in Parser
      BY <1>3, Counted DEF Go
    <2>2. PICK r : r = [n EXCEPT !.state = "start_req_or_res"]
      OBVIOUS
    <2>3. r = n
      BY <1>1, <2>2, Counted DEF Parser
    <2>4. Right(n, agreed, rest)
      BY <1>1, <1>2, Counted, EasyRight, StatesAre
         DEF Easy, LineStates, UrlStates, RequestVersionStates, ResponseLineStates
    <2> QED
      BY <1>1, <2>1, <2>2, <2>3, <2>4, Counted, Reads, SameShift DEF StageOf
  <1>4. CASE Read([NewMessageBegins EXCEPT !.state = "res_or_resp_H"], {}, {})
    <2>1. "res_or_resp_H" \in State /\ "res_or_resp_H" \in FirstStates
          /\ "res_or_resp_H" \notin DataStates
      BY StatesAre DEF FirstStates, DataStates, UrlStates, PlainStates
    <2>2. PICK r : r = [NewMessageBegins EXCEPT !.state = "res_or_resp_H"]
      OBVIOUS
    <2>3. r \in Parser /\ r.flags = {} /\ r.state = "res_or_resp_H"
      BY <2>1, <2>2, Fresh
    <2> QED
      BY <1>2, <1>4, <2>1, <2>2, <2>3, ReadsFirst
  <1>5. CASE MethodAssign([NewMessageBegins EXCEPT !.type = "request"], ch)
    BY <1>2, <1>5, Fresh, MethodAssigned
  <1> QED
    BY <1>3, <1>4, <1>5 DEF StartReqOrRes

LEMMA ResOrRespHKeeps ==
  ASSUME ParserInv, call = "run", p < len, UNCHANGED build, NEW ch, ResOrRespH(ch)
  PROVE  ParserInv'
  <1>1. q.state = "res_or_resp_H"
    BY DEF ResOrRespH
  <1>2. q.state \in FirstStates /\ q.state \notin DataStates
    BY <1>1 DEF FirstStates, DataStates, UrlStates
  <1>3. n \in Parser /\ "trailing" \notin n.flags
    BY <1>1, Counted, StatesAre DEF ParserInv, Right
  <1>4. CASE Read([n EXCEPT !.type = "response", !.state = "res_HT"], {}, {})
    <2>1. PICK r : r = [n EXCEPT !.type = "response", !.state = "res_HT"]
      OBVIOUS
    <2>2. /\ "res_HT" \in State /\ "res_HT" \in FirstStates /\ "res_HT" \notin DataStates
      BY StatesAre DEF FirstStates, LineStates, ResponseLineStates, DataStates, UrlStates
    <2>3. r \in Parser /\ r.flags = n.flags /\ r.state = "res_HT"
      BY <1>3, <2>1, <2>2 DEF Parser
    <2> QED
      BY <1>2, <1>3, <1>4, <2>1, <2>2, <2>3, ReadsFirst
  <1>5. CASE Read([n EXCEPT !.type = "request", !.connect = FALSE,
                            !.index = 2, !.state = "req_method"], {}, {})
    <2>1. PICK r : r = [n EXCEPT !.type = "request", !.connect = FALSE,
                                 !.index = 2, !.state = "req_method"]
      OBVIOUS
    <2>2. /\ "req_method" \in State /\ "req_method" \in FirstStates
          /\ "req_method" \notin DataStates
      BY StatesAre DEF FirstStates, PlainStates, DataStates, UrlStates
    <2>3. 2 \in 0 .. WordLen + 1 /\ 2 =< WordLen
      BY ParserAssumption
    <2>4. r \in Parser /\ r.flags = n.flags /\ r.state = "req_method" /\ r.index = 2
      BY <1>3, <2>1, <2>2, <2>3 DEF Parser
    <2> QED
      BY <1>2, <1>3, <1>5, <2>1, <2>2, <2>3, <2>4, ReadsFirst
  <1>6. CASE Reject
    BY <1>6, Rejected
  <1> QED
    BY <1>4, <1>5, <1>6 DEF ResOrRespH

LEMMA StartResKeeps ==
  ASSUME ParserInv, call = "run", p < len, UNCHANGED build, NEW ch, StartRes(ch)
  PROVE  ParserInv'
  <1>1. q.state = "start_res"
    BY DEF StartRes
  <1>2. q.state \in FirstStates /\ q.state \notin DataStates
    BY <1>1 DEF FirstStates, DataStates, UrlStates
  <1>3. CASE Read([NewMessageBegins EXCEPT !.state = "res_H"], {}, {})
    <2>1. "res_H" \in State /\ "res_H" \in FirstStates /\ "res_H" \notin DataStates
      BY StatesAre DEF FirstStates, LineStates, ResponseLineStates, DataStates, UrlStates
    <2>2. PICK r : r = [NewMessageBegins EXCEPT !.state = "res_H"]
      OBVIOUS
    <2>3. r \in Parser /\ r.flags = {} /\ r.state = "res_H"
      BY <2>1, <2>2, Fresh
    <2> QED
      BY <1>2, <1>3, <2>1, <2>2, <2>3, ReadsFirst
  <1>4. CASE Read(NewMessageBegins, {}, {})
    <2>1. /\ NewMessageBegins \in Parser /\ NewMessageBegins.flags = {}
          /\ NewMessageBegins.state = "start_res"
      BY <1>1, Fresh
    <2> QED
      BY <1>1, <1>2, <1>4, <2>1, ReadsFirst
  <1>5. CASE Reject
    BY <1>5, Rejected
  <1> QED
    BY <1>3, <1>4, <1>5 DEF StartRes

LEMMA StartReqKeeps ==
  ASSUME ParserInv, call = "run", p < len, UNCHANGED build, NEW ch, StartReq(ch)
  PROVE  ParserInv'
  <1>1. q.state = "start_req"
    BY DEF StartReq
  <1>2. q.state \in FirstStates /\ q.state \notin DataStates /\ q.state \in HeaderStates
    BY <1>1, StatesAre DEF FirstStates, DataStates, UrlStates, PlainStates
  <1>3. CASE Go("start_req")
    <2>1. "start_req" \in Easy /\ "start_req" \notin Beginning
      BY StatesAre DEF Easy, LineStates, UrlStates, RequestVersionStates, ResponseLineStates
    <2>2. StageOf(q) = StageOf([q EXCEPT !.state = "start_req"])
      BY <1>1, Counted DEF Parser
    <2> QED
      BY <1>1, <1>2, <1>3, <2>1, <2>2, Goes
  <1>4. CASE MethodAssign(NewMessageBegins, ch)
    BY <1>2, <1>4, Fresh, MethodAssigned
  <1> QED
    BY <1>3, <1>4 DEF StartReq

LEMMA ReqMethodKeeps ==
  ASSUME ParserInv, call = "run", p < len, UNCHANGED build, NEW ch, ReqMethod(ch)
  PROVE  ParserInv'
  <1>1. q.state = "req_method"
    BY DEF ReqMethod
  <1>2. q.state \in FirstStates /\ q.state \notin DataStates
    BY <1>1 DEF FirstStates, DataStates, UrlStates
  <1>3. n \in Parser /\ n.state = "req_method" /\ n.index = q.index /\ "trailing" \notin n.flags
        /\ q.index \in Nat /\ q.index =< WordLen /\ q.index + 1 \in 0 .. WordLen + 1
    BY <1>1, Counted, StatesAre, ParserAssumption DEF ParserInv, Right, Parser
  <1>4. PICK on : on = [n EXCEPT !.index = @ + 1]
    OBVIOUS
  <1>5. on \in Parser /\ on.state = "req_method" /\ on.index = q.index + 1
        /\ on.flags = n.flags
    BY <1>3, <1>4 DEF Parser
  <1>6. CASE Read([on EXCEPT !.state = "req_spaces_before_url"], {}, {})
    <2>1. PICK r : r = [on EXCEPT !.state = "req_spaces_before_url"]
      OBVIOUS
    <2>2. /\ "req_spaces_before_url" \in State /\ "req_spaces_before_url" \in FirstStates
          /\ "req_spaces_before_url" \notin DataStates
      BY StatesAre DEF FirstStates, LineStates, DataStates, UrlStates
    <2>3. r \in Parser /\ r.flags = n.flags /\ r.state = "req_spaces_before_url"
      BY <1>5, <2>1, <2>2 DEF Parser
    <2> QED
      BY <1>2, <1>3, <1>6, <2>1, <2>2, <2>3, ReadsFirst
  <1>7. CASE q.index < WordLen /\ Read(on, {}, {})
    <2>1. on.index =< WordLen
      BY <1>3, <1>5, <1>7, ParserAssumption
    <2> QED
      BY <1>1, <1>2, <1>3, <1>5, <1>7, <2>1, ReadsFirst
  <1>8. CASE q.index < WordLen /\ Read([on EXCEPT !.connect = FALSE], {}, {})
    <2>1. PICK r : r = [on EXCEPT !.connect = FALSE]
      OBVIOUS
    <2>2. r \in Parser /\ r.flags = n.flags /\ r.state = "req_method" /\ r.index = q.index + 1
      BY <1>5, <2>1 DEF Parser
    <2>3. r.index =< WordLen
      BY <1>3, <1>8, <2>2, ParserAssumption
    <2> QED
      BY <1>1, <1>2, <1>3, <1>8, <2>1, <2>2, <2>3, ReadsFirst
  <1>9. CASE Reject
    BY <1>9, Rejected
  <1> QED
    BY <1>4, <1>6, <1>7, <1>8, <1>9 DEF ReqMethod

LEMMA ReqUrlStartKeeps ==
  ASSUME ParserInv, call = "run", p < len, UNCHANGED build, NEW ch, ReqUrlStart(ch)
  PROVE  ParserInv'
  <1>1. q.state = "req_spaces_before_url"
    BY DEF ReqUrlStart, StartsUrl
  <1>2. PICK to : to = IF q.connect THEN "req_host" ELSE "req_schema"
    OBVIOUS
  <1>3. PICK r : r = [n EXCEPT !.state = to]
    OBVIOUS
  <1>4. Read(r, {"url"}, {})
    BY <1>2, <1>3 DEF ReqUrlStart
  <1>5. to \in State /\ to \in LineStates /\ q.state \in LineStates
    BY <1>1, <1>2, StatesAre DEF LineStates, UrlStates
  <1>6. /\ n \in Parser /\ "trailing" \notin n.flags /\ rest = 0 /\ agreed \in -1 .. WordLen
    BY <1>5, Counted, StatesAre DEF ParserInv, Right
  <1>7. r \in Parser /\ r.state = to /\ "trailing" \notin r.flags
    BY <1>3, <1>5, <1>6 DEF Parser
  <1>8. Right(r, agreed, rest)
    BY <1>5, <1>6, <1>7, FirstRight
       DEF FirstStates, LineStates, UrlStates, RequestVersionStates, ResponseLineStates
  <1>9. StageOf(q) = StageOf(r)
    BY <1>5, <1>7, FirstAreHead DEF FirstStates
  <1>10. Shifts(q.state, r.state, {"url"}, {})
    BY <1>1, <1>2, <1>7 DEF Shifts, Inside, Data, UrlStates
  <1> QED
    BY <1>4, <1>8, <1>9, <1>10, Reads

LEMMA OnLineKeeps ==
  ASSUME ParserInv, call = "run", p < len, UNCHANGED build, NEW ch, OnLine(ch)
  PROVE  ParserInv'
  <1>1. PICK l \in LinesOn(ch) :
             Read([n EXCEPT !.state = l[3], !.http11 = VersionAfter(ch)], l[4], l[5])
    BY DEF OnLine
  <1>2. l \in Lines /\ l[1] = q.state
    BY DEF LinesOn
  <1>3. /\ q.state \in LineStates /\ l[3] \in LineStates \cup {"header_field_start"}
        /\ Shifts(q.state, l[3], l[4], l[5])
    BY <1>2, LinesRight DEF LineRight
  <1>4. PICK r : r = [n EXCEPT !.state = l[3], !.http11 = VersionAfter(ch)]
    OBVIOUS
  <1>5. /\ n \in Parser /\ "trailing" \notin q.flags /\ n.flags = q.flags /\ rest = 0
        /\ agreed \in -1 .. WordLen /\ q \in Parser
    BY <1>3, Counted, StatesAre DEF ParserInv, Right
  <1>6. VersionAfter(ch) \in BOOLEAN
    BY <1>5 DEF VersionAfter, Parser
  <1>7. l[3] \in State
    BY <1>3, StatesAre DEF PlainStates
  <1>8. r \in Parser /\ r.state = l[3] /\ r.flags = q.flags
    BY <1>4, <1>5, <1>6, <1>7 DEF Parser
  <1>9. Right(r, agreed, rest)
    BY <1>3, <1>5, <1>8, EasyRight DEF Easy
  <1>10. StageOf(q) = StageOf(r)
    <2>1. StageOf(q) = "head"
      BY <1>3, FirstAreHead DEF FirstStates
    <2>2. CASE l[3] \in LineStates
      BY <1>8, <2>1, <2>2, FirstAreHead DEF FirstStates
    <2>3. CASE l[3] = "header_field_start"
      BY <1>5, <1>8, <2>1, <2>3 DEF StageOf, ChunkStates, ChunkData
    <2> QED
      BY <1>3, <2>2, <2>3
  <1> QED
    BY <1>1, <1>3, <1>4, <1>8, <1>9, <1>10, Reads

-----------------------------------------------------------------------------
(* Headers. *)

LEMMA HeaderStageSame ==
  ASSUME NEW r, NEW s, r.state \in Trailers, s.state \in Trailers,
         "trailing" \in r.flags <=> "trailing" \in s.flags
  PROVE  StageOf(r) = StageOf(s)
  BY DEF StageOf, Trailers, ChunkStates, ChunkData

LEMMA TrailersAre ==
  /\ Trailers \subseteq State /\ Trailers \subseteq HeaderStates
  /\ Trailers \cap Beginning = {} /\ Trailers \cap DataStates = {"header_field", "header_value"}
  BY StatesAre DEF Trailers, PlainStates, LineStates, UrlStates, RequestVersionStates,
                   ResponseLineStates, DataStates

LEMMA FieldRight ==
  ASSUME NEW r \in Parser, NEW a \in -1 .. WordLen, r.state = "header_field",
         NameRight(r.header_state, a, r.index)
  PROVE  Right(r, a, 0)
  BY StatesAre DEF Right, ChunkData, ChunkStates, LineStates, UrlStates,
                   RequestVersionStates, ResponseLineStates

LEMMA ValueIsRight ==
  ASSUME NEW r \in Parser, NEW a \in -1 .. WordLen, r.state = "header_value",
         ValueRight(r.header_state, a, r.index, r.content_length)
  PROVE  Right(r, a, 0)
  BY StatesAre DEF Right, ChunkData, ChunkStates, LineStates, UrlStates,
                   RequestVersionStates, ResponseLineStates

LEMMA PlainRight ==
  ASSUME NEW r \in Parser, NEW a \in -1 .. WordLen,
         r.state \in Trailers \ {"header_field", "header_value"}
  PROVE  Right(r, a, 0)
  BY TrailersAre, EasyRight DEF Trailers, Easy

(* From one state of the headers to another. *)
LEMMA ReadsHeader ==
  ASSUME ParserInv, call = "run", p < len, UNCHANGED build, q.state \in Trailers,
         NEW r \in Parser, r.state \in Trailers, r.header_state \in [word : Words, full : BOOLEAN],
         "trailing" \in r.flags <=> "trailing" \in q.flags,
         NEW letters \in -1 .. WordLen, NEW marks, NEW callbacks,
         \/ Read(r, marks, callbacks) /\ letters = agreed
         \/ Spell(r, letters, marks, callbacks),
         r.state = "header_field" => NameRight(r.header_state, letters, r.index),
         r.state = "header_value" => ValueRight(r.header_state, letters, r.index, r.content_length),
         Shifts(q.state, r.state, marks, callbacks)
  PROVE  ParserInv'
  <1>1. rest = 0
    BY Counted, TrailersAre
  <1>2. Right(r, letters, rest)
    BY <1>1, FieldRight, ValueIsRight, PlainRight
  <1>3. StageOf(q) = StageOf(r)
    BY HeaderStageSame
  <1>4. CASE Read(r, marks, callbacks) /\ letters = agreed
    BY <1>2, <1>3, <1>4, Reads
  <1>5. CASE Spell(r, letters, marks, callbacks)
    BY <1>2, <1>3, <1>5, Spells
  <1> QED
    BY <1>4, <1>5

NewStates == {"dead", "start_req", "start_res"}

LEMMA NewMessageIs ==
  /\ \A r : NewMessage(r) \in NewStates
  /\ NewStates \subseteq State /\ NewStates \subseteq Easy /\ NewStates \cap Beginning = {}
  /\ NewStates \cap DataStates = {} /\ NewStates \cap Trailers = {}
  /\ NewStates \subseteq FirstStates
  BY StatesAre DEF NewMessage, start_state, NewStates, Easy, PlainStates, Trailers,
                   LineStates, UrlStates, RequestVersionStates, ResponseLineStates, DataStates,
                   FirstStates

(* Where the parser is after the headers. *)
AfterHeaders == NewStates \cup {"headers_almost_done", "chunk_size_start", "body_identity",
                                "body_identity_eof"}

LEMMA AfterHeadersAre ==
  AfterHeaders \subseteq State /\ AfterHeaders \cap DataStates = {}
  BY StatesAre, NewMessageIs DEF AfterHeaders, PlainStates, DataStates, UrlStates

LEMMA HeadersCompleteKeeps ==
  ASSUME ParserInv, call = "run", p < len, UNCHANGED build,
         q.state \in Trailers, q.state \notin DataStates, "trailing" \notin q.flags,
         NEW r \in Parser, r.state = "headers_almost_done", r.flags = q.flags,
         NEW skip \in BOOLEAN, HeadersComplete(r, skip)
  PROVE  ParserInv'
  <1>1. PICK d : d = [r EXCEPT !.nread = 0,
                               !.upgrade = @ \/ "upgrade" \in r.flags \/ r.connect,
                               !.flags = IF skip THEN @ \cup {"skipbody"} ELSE @]
    OBVIOUS
  <1>2. PICK next : next = IF d.upgrade THEN d.state ELSE BodyState(d)
    OBVIOUS
  <1>3. PICK es : es = IF d.upgrade \/ NoBody(d) THEN <<"S", "complete">> ELSE <<"S">>
    OBVIOUS
  <1>4. PICK s : s = [d EXCEPT !.state = next]
    OBVIOUS
  <1>5. /\ Advance(s, {}, {}, es, 1) /\ agreed' = agreed
        /\ rest' = IF next = "body_identity" THEN d.content_length ELSE 0
    BY <1>1, <1>2, <1>3, <1>4 DEF HeadersComplete
  <1>6. /\ d \in Parser /\ d.state = "headers_almost_done" /\ d.nread = 0
        /\ "trailing" \notin d.flags
    <2>1. 0 \in 0 .. MaxHeader
      BY ParserAssumption
    <2>2. (r.upgrade \/ "upgrade" \in r.flags \/ r.connect) \in BOOLEAN
      BY DEF Parser
    <2>3. (IF skip THEN r.flags \cup {"skipbody"} ELSE r.flags) \in SUBSET Flag
      BY DEF Parser, Flag
    <2> QED
      BY <1>1, <2>1, <2>2, <2>3 DEF Parser
  <1>7. next \in AfterHeaders
    BY <1>2, <1>6, NewMessageIs DEF BodyState, AfterHeaders
  <1>8. /\ s \in Parser /\ s.state = next /\ s.nread = 0 /\ s.flags = d.flags
        /\ s.content_length = d.content_length /\ s.content_length \in -1 .. MaxLength
    BY <1>4, <1>6, <1>7, AfterHeadersAre DEF Parser
  <1>9. agreed \in -1 .. WordLen
    BY Counted
  <1>10. Right(s, agreed, rest')
    <2>1. CASE next \in NewStates \cup {"headers_almost_done"}
      <3>1. next # "body_identity" /\ rest' = 0
        BY <1>5, <2>1 DEF NewStates
      <3>2. next \in Easy /\ next \notin Beginning
        BY <2>1, NewMessageIs, TrailersAre DEF Easy, Trailers
      <3> QED
        BY <1>8, <1>9, <3>1, <3>2, EasyRight
    <2>2. CASE next = "chunk_size_start"
      <3>1. "chunked" \in d.flags
        BY <1>2, <1>6, <2>2, NewMessageIs DEF BodyState, NewStates
      <3>2. next \notin Beginning
        BY <2>2, StatesAre DEF LineStates, UrlStates, RequestVersionStates, ResponseLineStates
      <3> QED
        BY <1>5, <1>8, <1>9, <2>2, <3>1, <3>2 DEF Right
    <2>3. CASE next = "body_identity"
      <3>1. d.content_length > 0
        BY <1>2, <1>6, <2>3, NewMessageIs DEF BodyState, NewStates
      <3>2. next \notin Beginning
        BY <2>3, StatesAre DEF LineStates, UrlStates, RequestVersionStates, ResponseLineStates
      <3> QED
        BY <1>5, <1>8, <1>9, <2>3, <3>1, <3>2 DEF Right, ChunkData, ChunkStates
    <2>4. CASE next = "body_identity_eof"
      <3>2. next \notin Beginning
        BY <2>4, StatesAre DEF LineStates, UrlStates, RequestVersionStates, ResponseLineStates
      <3> QED
        BY <1>5, <1>8, <1>9, <2>4, <3>2 DEF Right, ChunkData, ChunkStates
    <2> QED
      BY <1>7, <2>1, <2>2, <2>3, <2>4 DEF AfterHeaders
  <1>11. Shifts(q.state, s.state, {}, {})
    BY <1>7, <1>8, AfterHeadersAre, NoShift
  <1>12. StageOf(q) = "head"
    BY DEF StageOf, Trailers, ChunkStates, ChunkData
  <1>13. Tells(es, StageOf(q), StageOf(s))
    <2>1. CASE d.upgrade \/ NoBody(d)
      <3>1. next \in NewStates \cup {"headers_almost_done"}
        BY <1>2, <1>6, <2>1, NewMessageIs DEF BodyState
      <3>2. StageOf(s) = "head"
        BY <1>6, <1>8, <3>1 DEF StageOf, NewStates, ChunkStates, ChunkData, Trailers
      <3> QED
        BY <1>3, <1>12, <2>1, <3>2 DEF Tells
    <2>2. CASE ~(d.upgrade \/ NoBody(d))
      <3>1. next \in {"chunk_size_start", "body_identity", "body_identity_eof"}
        BY <1>2, <2>2 DEF BodyState
      <3>2. StageOf(s) = "body"
        BY <1>8, <3>1 DEF StageOf, ChunkStates
      <3> QED
        BY <1>3, <1>12, <2>2, <3>2 DEF Tells
    <2> QED
      BY <2>1, <2>2
  <1>14. 1 \in 1 .. len - p
    BY Running
  <1> QED
    BY <1>5, <1>10, <1>11, <1>13, <1>14, Moved

LEMMA headers_almost_done_keeps ==
  ASSUME ParserInv, call = "run", p < len, UNCHANGED build,
         q.state \in Trailers, q.state \notin DataStates,
         NEW r \in Parser, r.state = "headers_almost_done", r.flags = q.flags,
         NEW ch, headers_almost_done(r, ch)
  PROVE  ParserInv'
  <1>1. CASE Reject
    BY <1>1, Rejected
  <1>2. CASE /\ "trailing" \in r.flags
             /\ Advance([r EXCEPT !.state = NewMessage(r)], {}, {}, <<"complete">>, 1)
             /\ UNCHANGED <<rest, agreed>>
    <2>1. PICK s : s = [r EXCEPT !.state = NewMessage(r)]
      OBVIOUS
    <2>2. s \in Parser /\ s.state \in NewStates
      BY <2>1, NewMessageIs DEF Parser
    <2>3. rest = 0 /\ agreed \in -1 .. WordLen
      BY Counted, TrailersAre
    <2>4. Right(s, agreed, 0)
      BY <2>2, <2>3, NewMessageIs, EasyRight
    <2>5. Shifts(q.state, s.state, {}, {})
      BY <2>2, NewMessageIs, NoShift
    <2>6. StageOf(q) = "body"
      BY <1>2 DEF StageOf
    <2>7. StageOf(s) = "head"
      BY <2>2, NewMessageIs, FirstAreHead
    <2>8. Tells(<<"complete">>, StageOf(q), StageOf(s))
      BY <2>6, <2>7 DEF Tells
    <2>9. Right(s, agreed', rest') /\ 1 \in 1 .. len - p
      BY <1>2, <2>3, <2>4, Running
    <2> QED
      BY <1>2, <2>1, <2>5, <2>8, <2>9, Moved
  <1>3. ASSUME "trailing" \notin r.flags, NEW skip \in Skips(r), HeadersComplete(r, skip)
        PROVE  ParserInv'
    <2>1. skip \in BOOLEAN
      BY DEF Skips
    <2> QED
      BY <1>3, <2>1, HeadersCompleteKeeps
  <1> QED
    BY <1>1, <1>2, <1>3 DEF headers_almost_done

LEMMA HeadersAlmostDoneKeeps ==
  ASSUME ParserInv, call = "run", p < len, UNCHANGED build, NEW ch, HeadersAlmostDone(ch)
  PROVE  ParserInv'
  <1>1. q.state = "headers_almost_done" /\ headers_almost_done(n, ch)
    BY DEF HeadersAlmostDone
  <1>2. q.state \in Trailers /\ q.state \notin DataStates
    BY <1>1 DEF Trailers, DataStates, UrlStates
  <1>3. n \in Parser /\ n.state = "headers_almost_done" /\ n.flags = q.flags
    BY <1>1, Counted
  <1> QED
    BY <1>1, <1>2, <1>3, headers_almost_done_keeps

LEMMA GoesHeader ==
  ASSUME ParserInv, call = "run", p < len, UNCHANGED build,
         q.state \in Trailers, q.state \notin DataStates,
         NEW to \in Trailers, to \notin DataStates, Go(to)
  PROVE  ParserInv'
  <1>1. q.state \in HeaderStates /\ to \in Easy /\ to \notin Beginning
    BY TrailersAre DEF Trailers, Easy, DataStates
  <1>2. /\ [q EXCEPT !.state = to].state = to /\ [q EXCEPT !.state = to].flags = q.flags
    BY Counted DEF Parser
  <1>3. StageOf(q) = StageOf([q EXCEPT !.state = to])
    BY <1>2, HeaderStageSame
  <1> QED
    BY <1>1, <1>3, Goes

Word == [word : Words, full : BOOLEAN]

LEMMA WordsAre ==
  /\ General \in Word /\ General.word = "general" /\ General.full = FALSE
  /\ \A w \in Words : /\ Matching(w) \in Word
                      /\ Matching(w).word = w /\ Matching(w).full = FALSE
  /\ \A w \in Words : /\ Full(w) \in Word /\ Full(w).full = TRUE
                      /\ w # "proxy_connection" => Full(w).word = w
                      /\ w = "proxy_connection" => Full(w).word = "connection"
  /\ {"general", "C", "proxy_connection", "chunked", "keep_alive", "close", "connection",
      "content_length", "transfer_encoding", "upgrade"} = Words
  /\ Names \subseteq Words
  BY DEF General, Matching, Full, Word, Words, Names

LEMMA FirstOfNameRight ==
  ASSUME NEW ch
  PROVE  /\ FirstOfName(ch) \in Word
         /\ NameRight(FirstOfName(ch), IF FirstOfName(ch) = General THEN -1 ELSE 1, 0)
  <1>1. CASE FirstOfName(ch) = General
    BY <1>1, WordsAre DEF NameRight
  <1>2. CASE FirstOfName(ch) = Matching("C")
    <2>1. Matching("C") # General /\ Matching("C") \in Word
      BY WordsAre
    <2> QED
      BY <1>2, <2>1 DEF NameRight
  <1>3. ASSUME NEW w \in {"proxy_connection", "transfer_encoding", "upgrade"},
               FirstOfName(ch) = Matching(w)
        PROVE  /\ FirstOfName(ch) \in Word
               /\ NameRight(FirstOfName(ch), IF FirstOfName(ch) = General THEN -1 ELSE 1, 0)
    <2>1. /\ Matching(w) # General /\ Matching(w) \in Word /\ Matching(w).word = w
          /\ Matching(w).full = FALSE
      BY WordsAre
    <2>2. 1 \in 1 .. WordLen - 1
      BY ParserAssumption
    <2> QED
      BY <1>3, <2>1, <2>2 DEF NameRight, Spelled, Names
  <1> QED
    BY <1>1, <1>2, <1>3 DEF FirstOfName

LEMMA header_field_start_keeps ==
  ASSUME ParserInv, call = "run", p < len, UNCHANGED build,
         q.state \in {"header_field_start", "header_value_lws"},
         NEW ch, header_field_start(ch)
  PROVE  ParserInv'
  <1>1. q.state \in Trailers /\ q.state \notin DataStates
    BY DEF Trailers, DataStates, UrlStates
  <1>2. /\ n \in Parser /\ n.flags = q.flags /\ "headers_almost_done" \in Trailers
        /\ "headers_almost_done" \notin DataStates /\ "headers_almost_done" \in State
        /\ "header_field" \in State /\ "header_field" \in Trailers
    BY Counted, TrailersAre DEF Trailers, DataStates, UrlStates
  <1>3. CASE Go("headers_almost_done")
    BY <1>1, <1>2, <1>3, GoesHeader
  <1>4. CASE headers_almost_done([n EXCEPT !.state = "headers_almost_done"], ch)
    <2>1. PICK r : r = [n EXCEPT !.state = "headers_almost_done"]
      OBVIOUS
    <2>2. r \in Parser /\ r.state = "headers_almost_done" /\ r.flags = q.flags
      BY <1>2, <2>1 DEF Parser
    <2> QED
      BY <1>1, <1>4, <2>1, <2>2, headers_almost_done_keeps
  <1>5. ASSUME NEW h, h = FirstOfName(ch),
               Spell([n EXCEPT !.state = "header_field", !.index = 0,
                               !.header_state = h],
                     IF h = General THEN -1 ELSE 1, {"field"}, {})
        PROVE  ParserInv'
    <2>1. PICK letters : letters = IF h = General THEN -1 ELSE 1
      OBVIOUS
    <2>2. PICK r : r = [n EXCEPT !.state = "header_field", !.index = 0,
                               !.header_state = h]
      OBVIOUS
    <2>3. Spell(r, letters, {"field"}, {})
      BY <1>5, <2>1, <2>2
    <2>4. h \in Word /\ NameRight(h, letters, 0)
      BY <1>5, <2>1, FirstOfNameRight
    <2>5. 0 \in 0 .. WordLen + 1 /\ letters \in -1 .. WordLen
      BY <2>1, ParserAssumption
    <2>6. r \in Parser /\ r.state = "header_field" /\ r.flags = q.flags
          /\ r.header_state = h /\ r.index = 0
      BY <1>2, <2>2, <2>4, <2>5 DEF Parser, Word
    <2>7. Shifts(q.state, r.state, {"field"}, {})
      BY <2>6 DEF Shifts, Inside, Data, UrlStates
    <2>8. h \in [word : Words, full : BOOLEAN]
      BY <2>4 DEF Word
    <2> QED
      BY <1>1, <1>2, <2>3, <2>4, <2>5, <2>6, <2>7, <2>8, ReadsHeader
  <1>6. CASE Reject
    BY <1>6, Rejected
  <1> QED
    BY <1>3, <1>4, <1>5, <1>6 DEF header_field_start

LEMMA HeaderFieldStartKeeps ==
  ASSUME ParserInv, call = "run", p < len, UNCHANGED build, NEW ch, HeaderFieldStart(ch)
  PROVE  ParserInv'
  BY header_field_start_keeps DEF HeaderFieldStart

LEMMA HeaderValueLwsKeeps ==
  ASSUME ParserInv, call = "run", p < len, UNCHANGED build, NEW ch, HeaderValueLws(ch)
  PROVE  ParserInv'
  <1>1. q.state = "header_value_lws"
    BY DEF HeaderValueLws
  <1>2. CASE Go("header_value_start")
    <2>1. /\ q.state \in Trailers /\ q.state \notin DataStates
          /\ "header_value_start" \in Trailers /\ "header_value_start" \notin DataStates
      BY <1>1 DEF Trailers, DataStates, UrlStates
    <2> QED
      BY <1>2, <2>1, GoesHeader
  <1>3. CASE header_field_start(ch)
    BY <1>1, <1>3, header_field_start_keeps
  <1> QED
    BY <1>2, <1>3 DEF HeaderValueLws

(* A header ends: from its name or its value, or from within neither. *)
LEMMA HeaderEnds ==
  ASSUME ParserInv, call = "run", p < len, UNCHANGED build, q.state \in Trailers,
         NEW r \in Parser, r.state \in Trailers, r.state \notin DataStates,
         "trailing" \in r.flags <=> "trailing" \in q.flags,
         NEW marks \in SUBSET {"value"}, NEW callbacks,
         \/ q.state = "header_field" /\ callbacks = {"field"} /\ marks = {}
         \/ q.state = "header_value" /\ callbacks = {"value"} /\ marks = {}
         \/ q.state \notin DataStates /\ callbacks = marks,
         Read(r, marks, callbacks)
  PROVE  ParserInv'
  <1>1. agreed \in -1 .. WordLen
    BY Counted
  <1>2. r.header_state \in [word : Words, full : BOOLEAN]
    BY DEF Parser
  <1>3. r.state # "header_field" /\ r.state # "header_value"
    BY DEF DataStates
  <1>4. \A d \in Data : ~Inside(d, r.state)
    BY DEF Data, DataStates, UrlStates, Inside
  <1>5. Shifts(q.state, r.state, marks, callbacks)
    <2>1. CASE q.state = "header_field" /\ callbacks = {"field"} /\ marks = {}
      BY <1>4, <2>1 DEF Data, UrlStates, Inside, Shifts
    <2>2. CASE q.state = "header_value" /\ callbacks = {"value"} /\ marks = {}
      BY <1>4, <2>2 DEF Data, UrlStates, Inside, Shifts
    <2>3. CASE q.state \notin DataStates /\ callbacks = marks
      <3>1. \A d \in Data : ~Inside(d, q.state)
        BY <2>3 DEF Data, DataStates, UrlStates, Inside
      <3>2. marks \subseteq Data /\ callbacks \subseteq Data
        BY <2>3 DEF Data
      <3> QED
        BY <1>4, <2>3, <3>1, <3>2 DEF Shifts
    <2> QED
      BY <2>1, <2>2, <2>3
  <1> QED
    BY <1>1, <1>2, <1>3, <1>5, ReadsHeader

LEMMA HeaderFieldEndsKeeps ==
  ASSUME ParserInv, call = "run", p < len, UNCHANGED build, NEW ch, HeaderFieldEnds(ch)
  PROVE  ParserInv'
  <1>1. q.state = "header_field" /\ q.state \in Trailers
    BY DEF HeaderFieldEnds, Trailers
  <1>2. n \in Parser /\ n.flags = q.flags
    BY Counted
  <1>3. ASSUME NEW to \in {"header_value_start", "header_almost_done", "header_field_start"},
               Read([n EXCEPT !.state = to], {}, {"field"})
        PROVE  ParserInv'
    <2>1. to \in Trailers /\ to \notin DataStates /\ to \in State
      BY TrailersAre DEF Trailers, DataStates, UrlStates
    <2>2. PICK r : r = [n EXCEPT !.state = to]
      OBVIOUS
    <2>3. r \in Parser /\ r.state = to /\ r.flags = q.flags
      BY <1>2, <2>1, <2>2 DEF Parser
    <2>4. {} \in SUBSET {"value"}
      OBVIOUS
    <2>5. Read(r, {}, {"field"})
      BY <1>3, <2>2
    <2> QED
      BY <1>1, <2>1, <2>3, <2>4, <2>5, HeaderEnds
  <1>4. CASE Reject
    BY <1>4, Rejected
  <1> QED
    BY <1>3, <1>4 DEF HeaderFieldEnds

LEMMA header_almost_done_keeps ==
  ASSUME ParserInv, call = "run", p < len, UNCHANGED build, NEW callbacks,
         \/ q.state = "header_value" /\ callbacks = {"value"}
         \/ q.state = "header_almost_done" /\ callbacks = {},
         NEW ch, header_almost_done(n, ch, callbacks)
  PROVE  ParserInv'
  <1>1. q.state \in Trailers
    BY DEF Trailers
  <1>2. n \in Parser /\ n.flags = q.flags /\ q \in Parser
    BY Counted
  <1>3. CASE Reject
    BY <1>3, Rejected
  <1>4. PICK flags : flags = IF n.header_state.full
                             THEN n.flags \cup ({n.header_state.word} \cap
                                      {"chunked", "keep_alive", "close"}) ELSE n.flags
    OBVIOUS
  <1>5. CASE Read([n EXCEPT !.state = "header_value_lws", !.flags = flags], {}, callbacks)
    <2>1. PICK r : r = [n EXCEPT !.state = "header_value_lws", !.flags = flags]
      OBVIOUS
    <2>2. flags \in SUBSET Flag /\ ("trailing" \in flags <=> "trailing" \in q.flags)
      BY <1>2, <1>4 DEF Parser, Flag
    <2>3. /\ "header_value_lws" \in Trailers /\ "header_value_lws" \notin DataStates
          /\ "header_value_lws" \in State
      BY TrailersAre DEF Trailers, DataStates, UrlStates
    <2>4. r \in Parser /\ r.state = "header_value_lws" /\ r.flags = flags
      BY <1>2, <2>1, <2>2, <2>3 DEF Parser
    <2>5. \/ q.state = "header_value" /\ callbacks = {"value"}
          \/ q.state \notin DataStates /\ callbacks = {}
      BY DEF DataStates, UrlStates
    <2>6. Read(r, {}, callbacks) /\ {} \in SUBSET {"value"}
      BY <1>5, <2>1
    <2> QED
      BY <1>1, <2>2, <2>3, <2>4, <2>5, <2>6, HeaderEnds
  <1> QED
    BY <1>3, <1>4, <1>5 DEF header_almost_done

LEMMA HeaderAlmostDoneKeeps ==
  ASSUME ParserInv, call = "run", p < len, UNCHANGED build, NEW ch, HeaderAlmostDone(ch)
  PROVE  ParserInv'
  BY header_almost_done_keeps DEF HeaderAlmostDone

(* One more letter of a keyword, of which those before it agree. *)
LEMMA Compared ==
  ASSUME NEW r \in Parser, r.header_state.full = FALSE, agreed \in 1 .. WordLen - 1,
         r.index = agreed - 1, NEW agrees \in BOOLEAN
  PROVE  LET c == Compare(r, agrees)
         IN  /\ c \in Parser /\ c.state = r.state /\ c.flags = r.flags
             /\ c.content_length = r.content_length
             /\ Agreed(agrees) \in -1 .. WordLen
             /\ \/ c.header_state = General /\ Agreed(agrees) = -1
                \/ c.header_state = Full(r.header_state.word) /\ Agreed(agrees) = WordLen
                \/ /\ c.header_state = r.header_state
                   /\ Agreed(agrees) \in 1 .. WordLen - 1 /\ c.index = Agreed(agrees) - 1
  <1>1. PICK h : h = CASE ~agrees -> General
                       [] agrees /\ r.index + 1 = WordLen - 1 -> Full(r.header_state.word)
                       [] OTHER -> r.header_state
    OBVIOUS
  <1>2. WordLen \in Nat /\ WordLen >= 3
    BY ParserAssumption
  <1>3. r.header_state \in Word /\ r.header_state.word \in Words
    BY DEF Parser, Word
  <1>4. h \in [word : Words, full : BOOLEAN]
    BY <1>1, <1>3, WordsAre DEF Word
  <1>5. PICK c : c = [r EXCEPT !.index = @ + 1, !.header_state = h]
    OBVIOUS
  <1>6. c = Compare(r, agrees)
    BY <1>1, <1>5 DEF Compare
  <1>7. r.index + 1 \in 0 .. WordLen + 1
    BY <1>2
  <1>8. /\ c \in Parser /\ c.state = r.state /\ c.flags = r.flags
        /\ c.content_length = r.content_length /\ c.index = r.index + 1 /\ c.header_state = h
    BY <1>4, <1>5, <1>7 DEF Parser
  <1>9. /\ Agreed(agrees) \in -1 .. WordLen
        /\ \/ c.header_state = General /\ Agreed(agrees) = -1
           \/ c.header_state = Full(r.header_state.word) /\ Agreed(agrees) = WordLen
           \/ /\ c.header_state = r.header_state
              /\ Agreed(agrees) \in 1 .. WordLen - 1 /\ c.index = Agreed(agrees) - 1
    BY <1>1, <1>2, <1>8 DEF Agreed
  <1> QED
    BY <1>6, <1>8, <1>9

LEMMA StaysInWord ==
  ASSUME ParserInv, call = "run", p < len, UNCHANGED build,
         q.state \in {"header_field", "header_value"},
         NEW r \in Parser, r.state = q.state,
         r.flags = q.flags, NEW letters \in -1 .. WordLen,
         q.state = "header_field" => NameRight(r.header_state, letters, r.index),
         q.state = "header_value" => ValueRight(r.header_state, letters, r.index, r.content_length),
         \/ Read(r, {}, {}) /\ letters = agreed
         \/ Spell(r, letters, {}, {})
  PROVE  ParserInv'
  <1>1. q.state \in Trailers /\ r.state \in Trailers
    BY DEF Trailers
  <1>2. Shifts(q.state, r.state, {}, {})
    BY SameShift
  <1>3. r.header_state \in [word : Words, full : BOOLEAN]
    BY DEF Parser
  <1> QED
    BY <1>1, <1>2, <1>3, ReadsHeader

LEMMA HeaderFieldTokenKeeps ==
  ASSUME ParserInv, call = "run", p < len, UNCHANGED build, NEW ch, HeaderFieldToken(ch)
  PROVE  ParserInv'
  <1>1. q.state = "header_field"
    BY DEF HeaderFieldToken
  <1>2. PICK h : h = q.header_state
    OBVIOUS
  <1>3. /\ NameRight(h, agreed, q.index) /\ n \in Parser /\ agreed \in -1 .. WordLen
        /\ n.state = q.state /\ n.flags = q.flags /\ n.header_state = h /\ n.index = q.index
        /\ h \in Word
    BY <1>1, <1>2, Counted DEF ParserInv, Right, Parser, Word
  <1>4. CASE Read(n, {}, {})
    BY <1>1, <1>3, <1>4, StaysInWord
  <1>5. CASE Spell([n EXCEPT !.header_state = General], -1, {}, {})
    <2>1. PICK r : r = [n EXCEPT !.header_state = General]
      OBVIOUS
    <2>2. r \in Parser /\ r.state = q.state /\ r.flags = q.flags /\ r.header_state = General
      BY <1>3, <2>1, WordsAre DEF Parser, Word
    <2>3. NameRight(r.header_state, -1, r.index) /\ -1 \in -1 .. WordLen
      BY <2>2, ParserAssumption DEF NameRight
    <2> QED
      BY <1>1, <1>5, <2>1, <2>2, <2>3, StaysInWord
  <1>6. ASSUME h = Matching("C"), NEW w \in {"general", "connection", "content_length"},
               Spell([n EXCEPT !.index = @ + 1, !.header_state = Matching(w)],
                          Agreed(w # "general"), {}, {})
        PROVE  ParserInv'
    <2>1. agreed = 1 /\ q.index = 0
      BY <1>3, <1>6, WordsAre DEF NameRight, Names
    <2>2. PICK r : r = [n EXCEPT !.index = @ + 1, !.header_state = Matching(w)]
      OBVIOUS
    <2>3. PICK letters : letters = Agreed(w # "general")
      OBVIOUS
    <2>4. w \in Words /\ Matching(w) \in [word : Words, full : BOOLEAN]
      BY WordsAre DEF Word
    <2>5. 1 \in 0 .. WordLen + 1
      BY ParserAssumption
    <2>10. PICK k : k = Matching(w)
      OBVIOUS
    <2>11. n.index = 0 /\ r = [n EXCEPT !.index = 1, !.header_state = k]
      <3>1. n.index = 0
        BY <1>3, <2>1
      <3>2. n.index + 1 = 1
        BY <3>1
      <3>3. r = [n EXCEPT !.index = n.index + 1, !.header_state = k]
        BY <2>2, <2>10, Zenon
      <3> QED
        BY <3>1, <3>2, <3>3
    <2>6. /\ r \in Parser /\ r.state = q.state /\ r.flags = q.flags
          /\ r.header_state = Matching(w) /\ r.index = 1
      BY <1>3, <2>4, <2>5, <2>10, <2>11 DEF Parser
    <2>7. letters = IF w = "general" THEN -1 ELSE 2
      BY <2>1, <2>3, ParserAssumption DEF Agreed
    <2>8. letters \in -1 .. WordLen
      BY <2>7, ParserAssumption
    <2>9. NameRight(r.header_state, letters, r.index)
      <3>1. CASE w = "general"
        BY <2>6, <2>7, <3>1 DEF NameRight, General, Matching
      <3>2. CASE w # "general"
        <4>1. letters \in 1 .. WordLen - 1 /\ r.index = letters - 1
          BY <2>6, <2>7, <3>2, ParserAssumption
        <4> QED
          BY <2>4, <2>6, <3>2, <4>1, WordsAre DEF NameRight, Spelled, Names
      <3> QED
        BY <3>1, <3>2
    <2> QED
      BY <1>1, <1>6, <2>2, <2>3, <2>6, <2>8, <2>9, StaysInWord
  <1>7. ASSUME h.word \in Names \cup {"proxy_connection"}, ~h.full, NEW agrees \in BOOLEAN,
               Spell(Compare(n, agrees), Agreed(agrees), {}, {})
        PROVE  ParserInv'
    <2>1. agreed \in 1 .. WordLen - 1 /\ n.index = agreed - 1
      BY <1>3, <1>7, WordsAre DEF NameRight, Spelled, Names
    <2>2. n.header_state.full = FALSE /\ h.word \in Words
      BY <1>3, <1>7 DEF Word
    <2>3. PICK c : c = Compare(n, agrees)
      OBVIOUS
    <2>4. PICK letters : letters = Agreed(agrees)
      OBVIOUS
    <2>5. /\ c \in Parser /\ c.state = n.state /\ c.flags = n.flags
          /\ letters \in -1 .. WordLen
          /\ \/ c.header_state = General /\ letters = -1
             \/ c.header_state = Full(h.word) /\ letters = WordLen
             \/ /\ c.header_state = h
                /\ letters \in 1 .. WordLen - 1 /\ c.index = letters - 1
      BY <1>3, <2>1, <2>2, <2>3, <2>4, Compared
    <2>6. NameRight(c.header_state, letters, c.index)
      <3>1. Full(h.word).full = TRUE /\ Full(h.word).word \in Names
        BY <1>7, <2>2, WordsAre DEF Names
      <3> QED
        BY <1>7, <2>5, <3>1 DEF NameRight, Spelled
    <2> QED
      BY <1>1, <1>3, <1>7, <2>3, <2>4, <2>5, <2>6, StaysInWord
  <1>8. \/ Read(n, {}, {})
        \/ Spell([n EXCEPT !.header_state = General], -1, {}, {})
        \/ h = Matching("C") /\ \E w \in {"general", "connection", "content_length"} :
              Spell([n EXCEPT !.index = @ + 1, !.header_state = Matching(w)],
                          Agreed(w # "general"), {}, {})
        \/ /\ h.word \in Names \cup {"proxy_connection"} /\ ~h.full
           /\ \E agrees \in BOOLEAN : Spell(Compare(n, agrees), Agreed(agrees), {}, {})
    <2>1. \/ h.full /\ h.word \in Names
          \/ h = General
          \/ h = Matching("C")
          \/ h.word \in Names \cup {"proxy_connection"} /\ ~h.full
      BY <1>3 DEF NameRight
    <2> QED
      BY <1>2, <2>1 DEF HeaderFieldToken
  <1> QED
    BY <1>4, <1>5, <1>6, <1>7, <1>8

LEMMA FirstOfValueRight ==
  ASSUME NEW h \in Word, NEW ch, NEW length \in Int, h = Full("content_length") => length >= 0
  PROVE  LET k == FirstOfValue(h, ch)
         IN  k \in Word /\ ValueRight(k, IF k = General THEN -1 ELSE 1, 0, length)
  <1>1. PICK k : k = FirstOfValue(h, ch)
    OBVIOUS
  <1>2. CASE k = General
    BY <1>1, <1>2, WordsAre DEF ValueRight
  <1>3. CASE h = Full("content_length") /\ k = h
    BY <1>1, <1>3 DEF ValueRight
  <1>4. ASSUME NEW w \in {"chunked", "keep_alive", "close"}, k = Matching(w)
        PROVE  k \in Word /\ ValueRight(k, IF k = General THEN -1 ELSE 1, 0, length)
    <2>1. Matching(w) # General /\ Matching(w) \in Word /\ Matching(w).word = w
          /\ Matching(w).full = FALSE
      BY WordsAre
    <2>2. 1 \in 1 .. WordLen - 1
      BY ParserAssumption
    <2> QED
      BY <1>4, <2>1, <2>2 DEF ValueRight, Spelled
  <1>5. \/ k = General
        \/ h = Full("content_length") /\ k = h
        \/ \E w \in {"chunked", "keep_alive", "close"} : k = Matching(w)
    BY <1>1 DEF FirstOfValue
  <1> QED
    BY <1>1, <1>2, <1>3, <1>4, <1>5

LEMMA HeaderValueStartKeeps ==
  ASSUME ParserInv, call = "run", p < len, UNCHANGED build, NEW ch, HeaderValueStart(ch)
  PROVE  ParserInv'
  <1>1. q.state = "header_value_start" /\ q.state \in Trailers /\ q.state \notin DataStates
    BY DEF HeaderValueStart, Trailers, DataStates, UrlStates
  <1>2. PICK r : r = [n EXCEPT !.state = "header_value", !.index = 0]
    OBVIOUS
  <1>3. PICK h : h = q.header_state
    OBVIOUS
  <1>4. n \in Parser /\ q \in Parser /\ n.flags = q.flags /\ h \in Word
        /\ n.content_length = q.content_length /\ 0 \in 0 .. WordLen + 1
    BY <1>3, Counted, ParserAssumption DEF Parser, Word
  <1>5. /\ r \in Parser /\ r.state = "header_value" /\ r.flags = q.flags /\ r.index = 0
        /\ r.content_length = q.content_length
    BY <1>2, <1>4, TrailersAre DEF Parser, Trailers
  <1>6. CASE Go("header_value_start")
    BY <1>1, <1>6, GoesHeader
  <1>7. CASE Read([r EXCEPT !.header_state = General, !.state = "header_almost_done"],
                  {"value"}, {"value"})
    <2>1. PICK s : s = [r EXCEPT !.header_state = General, !.state = "header_almost_done"]
      OBVIOUS
    <2>2. /\ "header_almost_done" \in Trailers /\ "header_almost_done" \notin DataStates
          /\ "header_almost_done" \in State
      BY TrailersAre DEF Trailers, DataStates, UrlStates
    <2>3. s \in Parser /\ s.state = "header_almost_done" /\ s.flags = q.flags
      BY <1>5, <2>1, <2>2, WordsAre DEF Parser, Word
    <2>4. {"value"} \in SUBSET {"value"} /\ Read(s, {"value"}, {"value"})
      BY <1>7, <2>1
    <2> QED
      BY <1>1, <2>2, <2>3, <2>4, HeaderEnds
  <1>8. CASE Read([r EXCEPT !.state = "header_field_start"], {"value"}, {"value"})
    <2>1. PICK s : s = [r EXCEPT !.state = "header_field_start"]
      OBVIOUS
    <2>2. /\ "header_field_start" \in Trailers /\ "header_field_start" \notin DataStates
          /\ "header_field_start" \in State
      BY TrailersAre DEF Trailers, DataStates, UrlStates
    <2>3. s \in Parser /\ s.state = "header_field_start" /\ s.flags = q.flags
      BY <1>5, <2>1, <2>2 DEF Parser
    <2>4. {"value"} \in SUBSET {"value"} /\ Read(s, {"value"}, {"value"})
      BY <1>8, <2>1
    <2> QED
      BY <1>1, <2>2, <2>3, <2>4, HeaderEnds
  <1>9. ASSUME NEW k, k = FirstOfValue(h, ch),
               Spell([r EXCEPT !.header_state = k,
                               !.flags = IF h = Full("upgrade") THEN @ \cup {h.word}
                                                                ELSE @,
                               !.content_length = IF h = Full("content_length")
                                                  THEN Value(ch) ELSE @],
                     IF k = General THEN -1 ELSE 1, {"value"}, {})
        PROVE  ParserInv'
    <2>1. PICK flags : flags = IF h = Full("upgrade") THEN r.flags \cup {h.word} ELSE r.flags
      OBVIOUS
    <2>2. flags \in SUBSET Flag /\ ("trailing" \in flags <=> "trailing" \in q.flags)
      <3>1. h = Full("upgrade") => h.word = "upgrade"
        BY WordsAre
      <3> QED
        BY <1>5, <2>1, <3>1 DEF Parser, Flag
    <2>3. PICK length : length = IF h = Full("content_length") THEN Value(ch)
                                 ELSE r.content_length
      OBVIOUS
    <2>4. length \in -1 .. MaxLength /\ (h = Full("content_length") => length >= 0)
      BY <1>5, <2>3, ParserAssumption DEF Parser, Value
    <2>5. PICK letters : letters = IF k = General THEN -1 ELSE 1
      OBVIOUS
    <2>6. length \in Int
      BY <2>4, ParserAssumption
    <2>7. k \in Word /\ ValueRight(k, letters, 0, length) /\ letters \in -1 .. WordLen
      BY <1>4, <1>9, <2>4, <2>5, <2>6, FirstOfValueRight, ParserAssumption
    <2>8. PICK s : s = [r EXCEPT !.header_state = k, !.flags = flags, !.content_length = length]
      OBVIOUS
    <2>9. Spell(s, letters, {"value"}, {})
      BY <1>9, <2>1, <2>3, <2>5, <2>8
    <2>10. /\ s \in Parser /\ s.state = "header_value" /\ s.header_state = k
           /\ s.flags = flags /\ s.content_length = length /\ s.index = 0
      BY <1>5, <2>2, <2>4, <2>7, <2>8 DEF Parser, Word
    <2>11. Shifts(q.state, s.state, {"value"}, {})
      BY <1>1, <2>10 DEF Shifts, Inside, Data, UrlStates
    <2>12. /\ s.state \in Trailers /\ s.header_state \in [word : Words, full : BOOLEAN]
           /\ s.state # "header_field"
           /\ ValueRight(s.header_state, letters, s.index, s.content_length)
           /\ "trailing" \in s.flags <=> "trailing" \in q.flags
      BY <2>2, <2>7, <2>10 DEF Trailers, Word
    <2> QED
      BY <1>1, <2>7, <2>9, <2>10, <2>11, <2>12, ReadsHeader
  <1>10. CASE Reject
    BY <1>10, Rejected
  <1> QED
    BY <1>2, <1>3, <1>6, <1>7, <1>8, <1>9, <1>10 DEF HeaderValueStart

LEMMA LongerRight ==
  ASSUME NEW ch, q.content_length \in Int, q.content_length >= 0
  PROVE  Longer(ch) \in Int /\ Longer(ch) >= 0
  <1>1. PICK a \in Nat : a = q.content_length * Radix
    BY ParserAssumption
  <1>2. Value(ch) \in Nat
    BY DEF Value
  <1> QED
    BY <1>1, <1>2 DEF Longer

LEMMA HeaderValueKeeps ==
  ASSUME ParserInv, call = "run", p < len, UNCHANGED build, NEW ch, HeaderValue(ch)
  PROVE  ParserInv'
  <1>1. q.state = "header_value" /\ q.state \in Trailers
    BY DEF HeaderValue, Trailers
  <1>2. PICK h : h = q.header_state
    OBVIOUS
  <1>3. /\ ValueRight(h, agreed, q.index, q.content_length) /\ n \in Parser
        /\ agreed \in -1 .. WordLen /\ q \in Parser
        /\ n.state = q.state /\ n.flags = q.flags /\ n.header_state = h /\ n.index = q.index
        /\ h \in Word /\ n.content_length = q.content_length
    BY <1>1, <1>2, Counted DEF ParserInv, Right, Parser, Word
  <1>4. CASE Read(n, {}, {})
    BY <1>1, <1>3, <1>4, StaysInWord
  <1>5. CASE \/ Spell([n EXCEPT !.header_state = General], -1, {}, {})
             \/ h = General /\ Read([n EXCEPT !.header_state = General], {}, {})
    <2>1. PICK r : r = [n EXCEPT !.header_state = General]
      OBVIOUS
    <2>2. r \in Parser /\ r.state = q.state /\ r.flags = q.flags /\ r.header_state = General
      BY <1>3, <2>1, WordsAre DEF Parser, Word
    <2>3. ValueRight(r.header_state, -1, r.index, r.content_length) /\ -1 \in -1 .. WordLen
      BY <2>2, ParserAssumption DEF ValueRight
    <2>4. h = General => agreed = -1
      BY <1>3, WordsAre DEF ValueRight
    <2> QED
      BY <1>1, <1>5, <2>1, <2>2, <2>3, <2>4, StaysInWord
  <1>6. CASE Read([n EXCEPT !.state = "header_almost_done"], {}, {"value"})
    <2>1. PICK s : s = [n EXCEPT !.state = "header_almost_done"]
      OBVIOUS
    <2>2. /\ "header_almost_done" \in Trailers /\ "header_almost_done" \notin DataStates
          /\ "header_almost_done" \in State
      BY TrailersAre DEF Trailers, DataStates, UrlStates
    <2>3. s \in Parser /\ s.state = "header_almost_done" /\ s.flags = q.flags
      BY <1>3, <2>1, <2>2 DEF Parser
    <2>4. {} \in SUBSET {"value"} /\ Read(s, {}, {"value"})
      BY <1>6, <2>1
    <2> QED
      BY <1>1, <2>2, <2>3, <2>4, HeaderEnds
  <1>7. CASE header_almost_done(n, ch, {"value"})
    BY <1>1, <1>7, header_almost_done_keeps
  <1>8. CASE /\ h = Full("content_length") /\ Longer(ch) =< MaxLength
             /\ Read([n EXCEPT !.content_length = Longer(ch)], {}, {})
    <2>1. q.content_length >= 0 /\ q.content_length \in Int
      BY <1>3, <1>8, WordsAre, ParserAssumption DEF ValueRight, Parser
    <2>2. PICK length : length = Longer(ch)
      OBVIOUS
    <2>3. length >= 0 /\ length \in -1 .. MaxLength
      BY <1>8, <2>1, <2>2, LongerRight, ParserAssumption
    <2>4. PICK r : r = [n EXCEPT !.content_length = length]
      OBVIOUS
    <2>5. /\ r \in Parser /\ r.state = q.state /\ r.flags = q.flags /\ r.header_state = h
          /\ r.content_length = length
      BY <1>3, <2>3, <2>4 DEF Parser
    <2>6. ValueRight(r.header_state, agreed, r.index, r.content_length)
      BY <1>8, <2>3, <2>5 DEF ValueRight
    <2> QED
      BY <1>1, <1>3, <1>8, <2>2, <2>4, <2>5, <2>6, StaysInWord
  <1>9. ASSUME h.word \in {"chunked", "keep_alive", "close"}, ~h.full, NEW agrees \in BOOLEAN,
               Spell(Compare(n, agrees), Agreed(agrees), {}, {})
        PROVE  ParserInv'
    <2>1. agreed \in 1 .. WordLen - 1 /\ n.index = agreed - 1
      BY <1>3, <1>9, WordsAre DEF ValueRight, Spelled
    <2>2. n.header_state.full = FALSE /\ h.word \in Words
      BY <1>3, <1>9 DEF Word
    <2>3. PICK c : c = Compare(n, agrees)
      OBVIOUS
    <2>4. PICK letters : letters = Agreed(agrees)
      OBVIOUS
    <2>5. /\ c \in Parser /\ c.state = n.state /\ c.flags = n.flags
          /\ letters \in -1 .. WordLen
          /\ \/ c.header_state = General /\ letters = -1
             \/ c.header_state = Full(h.word) /\ letters = WordLen
             \/ /\ c.header_state = h
                /\ letters \in 1 .. WordLen - 1 /\ c.index = letters - 1
      BY <1>3, <2>1, <2>2, <2>3, <2>4, Compared
    <2>6. ValueRight(c.header_state, letters, c.index, c.content_length)
      <3>1. Full(h.word).full = TRUE /\ Full(h.word).word = h.word
        BY <1>9, <2>2, WordsAre
      <3> QED
        BY <1>9, <2>5, <3>1 DEF ValueRight, Spelled
    <2> QED
      BY <1>1, <1>3, <1>9, <2>3, <2>4, <2>5, <2>6, StaysInWord
  <1>10. CASE Reject
    BY <1>10, Rejected
  <1>11. \/ Read([n EXCEPT !.state = "header_almost_done"], {}, {"value"})
         \/ header_almost_done(n, ch, {"value"})
         \/ Read(n, {}, {})
         \/ /\ h = Full("content_length") /\ Longer(ch) =< MaxLength
            /\ Read([n EXCEPT !.content_length = Longer(ch)], {}, {})
         \/ Reject
         \/ Spell([n EXCEPT !.header_state = General], -1, {}, {})
         \/ h = General /\ Read([n EXCEPT !.header_state = General], {}, {})
         \/ /\ h.word \in {"chunked", "keep_alive", "close"} /\ ~h.full
            /\ \E agrees \in BOOLEAN : Spell(Compare(n, agrees), Agreed(agrees), {}, {})
    <2>1. \/ /\ h = General /\ h # Full("content_length")
             /\ h.word \notin {"chunked", "keep_alive", "close"}
          \/ h = Full("content_length") \/ h.word \in {"chunked", "keep_alive", "close"}
      BY <1>3, WordsAre DEF ValueRight
    <2> QED
      BY <1>2, <2>1 DEF HeaderValue
  <1> QED
    BY <1>4, <1>5, <1>6, <1>7, <1>8, <1>9, <1>10, <1>11

LEMMA RejectsKeep ==
  ASSUME ParserInv, call = "run", p < len, UNCHANGED build, NEW ch,
         HeaderOverflow \/ ReadsAfterClose \/ BadLine(ch)
  PROVE  ParserInv'
  BY Rejected DEF HeaderOverflow, ReadsAfterClose, BadLine

-----------------------------------------------------------------------------
(* Bodies. *)

(* The states of a body. *)
BodyStates == ChunkStates \cup {"body_identity", "body_identity_eof"}

LEMMA BodyStatesAre ==
  /\ BodyStates \subseteq State /\ BodyStates \cap DataStates = {}
  /\ BodyStates \cap Beginning = {} /\ BodyStates \cap Trailers = {}
  /\ ChunkData \cap HeaderStates = {} /\ ChunkData \subseteq ChunkStates
  /\ ChunkStates \subseteq BodyStates
  /\ ChunkStates \ ChunkData \subseteq HeaderStates
  /\ \A r : r.state \in BodyStates => StageOf(r) = "body"
  BY StatesAre DEF BodyStates, ChunkStates, ChunkData, PlainStates, LineStates, UrlStates,
                   RequestVersionStates, ResponseLineStates, DataStates, Trailers, StageOf

(* How much of a body is read at once. *)
LEMMA ReadsSome ==
  ASSUME ParserInv, call = "run", p < len, q.state \in {"body_identity", "chunk_data"},
         NEW size, size = Least(len - p, q.content_length)
  PROVE  /\ size \in 1 .. len - p /\ size =< q.content_length
         /\ q.content_length \in 1 .. MaxLength /\ rest = q.content_length
         /\ q.content_length - size \in 0 .. MaxLength
         /\ q \in Parser /\ agreed \in -1 .. WordLen
  <1>1. /\ q \in Parser /\ rest = q.content_length /\ rest > 0 /\ agreed \in -1 .. WordLen
        /\ q.content_length \in -1 .. MaxLength /\ MaxLength \in Nat
    BY ParserAssumption DEF ParserInv, Right, Parser
  <1>2. p \in Nat /\ len \in Nat
    BY Running
  <1> QED
    BY <1>1, <1>2 DEF Least

LEMMA BodyIdentityKeeps ==
  ASSUME ParserInv, call = "run", p < len, UNCHANGED build, BodyIdentity
  PROVE  ParserInv'
  <1>1. q.state = "body_identity" /\ q.state \in BodyStates
    BY DEF BodyIdentity, BodyStates
  <1>2. PICK to_read : to_read = Least(len - p, q.content_length)
    OBVIOUS
  <1>3. PICK left : left = q.content_length - to_read
    OBVIOUS
  <1>4. PICK next : next = IF left = 0 THEN NewMessage(q) ELSE q.state
    OBVIOUS
  <1>5. PICK es : es = IF left = 0 THEN <<"complete">> ELSE <<>>
    OBVIOUS
  <1>6. PICK r : r = [q EXCEPT !.content_length = left, !.state = next]
    OBVIOUS
  <1>7. Advance(r, {}, {}, es, to_read) /\ rest' = rest - to_read /\ agreed' = agreed
    BY <1>2, <1>3, <1>4, <1>5, <1>6 DEF BodyIdentity
  <1>8. /\ to_read \in 1 .. len - p /\ to_read =< q.content_length
        /\ q.content_length \in 1 .. MaxLength /\ rest = q.content_length
        /\ left \in 0 .. MaxLength /\ left \in -1 .. MaxLength /\ rest' = left
        /\ q \in Parser /\ agreed \in -1 .. WordLen
    BY <1>1, <1>2, <1>3, <1>7, ReadsSome, ParserAssumption
  <1>9. /\ next \in State /\ next \notin DataStates /\ next \notin Beginning
        /\ next \notin Trailers
        /\ left = 0 => next \in NewStates
        /\ left # 0 => next = "body_identity"
    BY <1>1, <1>4, NewMessageIs, BodyStatesAre
  <1>10. r \in Parser /\ r.state = next /\ r.content_length = left
    BY <1>6, <1>8, <1>9 DEF Parser
  <1>11. Right(r, agreed, rest')
    <2>1. CASE left = 0
      <3>1. next \in Easy
        BY <1>9, <2>1, NewMessageIs
      <3> QED
        BY <1>8, <1>9, <1>10, <2>1, <3>1, EasyRight
    <2>2. CASE left # 0
      BY <1>8, <1>9, <1>10, <2>2 DEF Right, ChunkData, ChunkStates
    <2> QED
      BY <2>1, <2>2
  <1>12. Shifts(q.state, r.state, {}, {})
    BY <1>1, <1>9, <1>10, BodyStatesAre, NoShift
  <1>13. \A d \in Data : ~Inside(d, r.state)
    BY <1>9, <1>10 DEF Data, DataStates, UrlStates, Inside
  <1>14. Tells(es, StageOf(q), StageOf(r))
    <2>1. StageOf(q) = "body"
      BY <1>1, BodyStatesAre
    <2>2. CASE left = 0
      <3>1. StageOf(r) = "head"
        BY <1>9, <1>10, <2>2, NewMessageIs, FirstAreHead
      <3> QED
        BY <1>5, <2>1, <2>2, <3>1 DEF Tells
    <2>3. CASE left # 0
      <3>1. StageOf(r) = "body"
        BY <1>9, <1>10, <2>3, BodyStatesAre DEF BodyStates
      <3> QED
        BY <1>5, <2>1, <2>3, <3>1 DEF Tells
    <2> QED
      BY <2>2, <2>3
  <1>15. Right(r, agreed', rest')
    BY <1>7, <1>11
  <1> QED
    BY <1>7, <1>8, <1>12, <1>13, <1>14, <1>15, Moved

LEMMA BodyIdentityEofKeeps ==
  ASSUME ParserInv, call = "run", p < len, UNCHANGED build, BodyIdentityEof
  PROVE  ParserInv'
  <1>1. q.state = "body_identity_eof" /\ q.state \in BodyStates
    BY DEF BodyIdentityEof, BodyStates
  <1>2. Advance(q, {}, {}, <<>>, len - p) /\ rest' = rest /\ agreed' = agreed
    BY DEF BodyIdentityEof
  <1>3. len - p \in 1 .. len - p
    BY Running
  <1>4. Right(q, agreed', rest')
    BY <1>2 DEF ParserInv
  <1>5. \A d \in Data : ~Inside(d, q.state)
    BY <1>1 DEF Data, UrlStates, Inside
  <1>6. Tells(<<>>, StageOf(q), StageOf(q)) /\ Shifts(q.state, q.state, {}, {})
    BY SameShift DEF Tells
  <1> QED
    BY <1>2, <1>3, <1>4, <1>5, <1>6, Moved

(* From one state of a chunked body to another, or to the trailers. *)
LEMMA ReadsChunk ==
  ASSUME ParserInv, call = "run", p < len, UNCHANGED build, q.state \in ChunkStates,
         NEW r \in Parser, NEW size \in 1 .. len - p, "chunked" \in r.flags,
         \/ r.state \in ChunkStates
         \/ r.state = "header_field_start" /\ "trailing" \in r.flags,
         Advance(r, {}, {}, <<>>, size), agreed' = agreed,
         r.state \in {"chunk_size", "chunk_parameters", "chunk_size_almost_done"} =>
           r.content_length >= 0,
         r.state \in ChunkData \cup {"chunk_size_start"} => r.nread = 0,
         IF r.state = "chunk_data" THEN rest' = r.content_length /\ rest' > 0 ELSE rest' = 0
  PROVE  ParserInv'
  <1>1. agreed \in -1 .. WordLen
    BY Counted
  <1>2. /\ q.state \notin DataStates /\ r.state \notin DataStates /\ r.state \notin Beginning
    BY BodyStatesAre, TrailersAre DEF Trailers, DataStates, UrlStates
  <1>3. Right(r, agreed, rest')
    <2>1. CASE r.state \in ChunkStates
      BY <1>1, <1>2, <2>1 DEF Right, ChunkData, ChunkStates
    <2>2. CASE r.state = "header_field_start"
      <3>1. rest' = 0 /\ r.state \in Easy
        BY <2>2 DEF Easy
      <3> QED
        BY <1>1, <1>2, <3>1, EasyRight
    <2> QED
      BY <2>1, <2>2
  <1>4. Shifts(q.state, r.state, {}, {})
    BY <1>2, NoShift
  <1>5. \A d \in Data : ~Inside(d, r.state)
    BY <1>2 DEF Data, DataStates, UrlStates, Inside
  <1>6. StageOf(q) = "body" /\ StageOf(r) = "body"
    BY DEF StageOf, Trailers
  <1>7. Tells(<<>>, StageOf(q), StageOf(r)) /\ Right(r, agreed', rest')
    BY <1>3, <1>6 DEF Tells
  <1> QED
    BY <1>4, <1>5, <1>7, Moved

LEMMA InChunk ==
  ASSUME ParserInv, call = "run", p < len, q.state \in ChunkStates
  PROVE  /\ "chunked" \in q.flags /\ q \in Parser /\ 1 \in 1 .. len - p
         /\ q.state # "chunk_data" => rest = 0
         /\ q.state \in ChunkData \cup {"chunk_size_start"} => q.nread = 0
         /\ q.state \in {"chunk_size", "chunk_parameters", "chunk_size_almost_done"} =>
              q.content_length >= 0
         /\ q.content_length \in Int
  <1>1. q.state # "body_identity"
    BY DEF ChunkStates, ChunkData
  <1> QED
    BY <1>1, Running, ParserAssumption DEF ParserInv, Right, Parser

(* A size is begun or goes on. *)
LEMMA ReadsSize ==
  ASSUME ParserInv, call = "run", p < len, UNCHANGED build, q.state \in ChunkStates,
         q.state # "chunk_data", NEW length \in 0 .. MaxLength,
         Read([n EXCEPT !.content_length = length, !.state = "chunk_size"], {}, {})
  PROVE  ParserInv'
  <1>1. PICK r : r = [n EXCEPT !.content_length = length, !.state = "chunk_size"]
    OBVIOUS
  <1>2. /\ n \in Parser /\ n.flags = q.flags /\ "chunked" \in q.flags /\ rest = 0
        /\ 1 \in 1 .. len - p /\ length \in -1 .. MaxLength /\ length >= 0
    BY Counted, InChunk, ParserAssumption
  <1>3. "chunk_size" \in State /\ "chunk_size" \in ChunkStates
    BY BodyStatesAre DEF BodyStates, ChunkStates
  <1>4. r \in Parser /\ r.state = "chunk_size" /\ r.flags = q.flags /\ r.content_length = length
    BY <1>1, <1>2, <1>3 DEF Parser
  <1>5. Advance(r, {}, {}, <<>>, 1) /\ agreed' = agreed /\ rest' = 0
    BY <1>1, <1>2 DEF Read
  <1>6. r.state \notin ChunkData \cup {"chunk_size_start"} /\ r.state # "chunk_data"
    BY <1>4 DEF ChunkData
  <1> QED
    BY <1>2, <1>3, <1>4, <1>5, <1>6, ReadsChunk

(* On within a chunk. *)
LEMMA GoesChunk ==
  ASSUME ParserInv, call = "run", p < len, UNCHANGED build, q.state \in ChunkStates,
         q.state # "chunk_data", NEW to, Go(to),
         \/ /\ to \in {"chunk_size_almost_done", "chunk_parameters"}
            /\ q.state \in {"chunk_size", "chunk_parameters", "chunk_size_almost_done"}
         \/ to \in {"chunk_data_done", "chunk_size_start"} /\ q.state \in ChunkData
  PROVE  ParserInv'
  <1>1. PICK r : r = [n EXCEPT !.state = to]
    OBVIOUS
  <1>2. /\ n \in Parser /\ n.flags = q.flags /\ "chunked" \in q.flags /\ rest = 0
        /\ 1 \in 1 .. len - p /\ n.content_length = q.content_length
        /\ q.state \in ChunkData => n.nread = 0
    BY Counted, InChunk, BodyStatesAre
  <1>3. to \in State /\ to \in ChunkStates /\ to # "chunk_data"
    BY BodyStatesAre DEF BodyStates, ChunkStates, ChunkData
  <1>4. r \in Parser /\ r.state = to /\ r.flags = q.flags /\ r.nread = n.nread
        /\ r.content_length = q.content_length
    BY <1>1, <1>2, <1>3 DEF Parser
  <1>5. Advance(r, {}, {}, <<>>, 1) /\ agreed' = agreed /\ rest' = 0
    BY <1>1, <1>2 DEF Go, Read
  <1>6. /\ r.state \in {"chunk_size", "chunk_parameters", "chunk_size_almost_done"} =>
             r.content_length >= 0
        /\ r.state \in ChunkData \cup {"chunk_size_start"} => r.nread = 0
    BY <1>2, <1>4, InChunk DEF ChunkData
  <1> QED
    BY <1>2, <1>3, <1>4, <1>5, <1>6, ReadsChunk

LEMMA ChunkSizeStartKeeps ==
  ASSUME ParserInv, call = "run", p < len, UNCHANGED build, NEW ch, ChunkSizeStart(ch)
  PROVE  ParserInv'
  <1>1. q.state \in ChunkStates /\ q.state # "chunk_data"
    BY DEF ChunkSizeStart, ChunkStates
  <1>2. CASE Reject
    BY <1>2, Rejected
  <1>3. CASE Read([n EXCEPT !.content_length = Value(ch), !.state = "chunk_size"], {}, {})
    <2>1. Value(ch) \in 0 .. MaxLength
      BY ParserAssumption DEF Value
    <2> QED
      BY <1>1, <1>3, <2>1, ReadsSize
  <1> QED
    BY <1>2, <1>3 DEF ChunkSizeStart

LEMMA ChunkSizeKeeps ==
  ASSUME ParserInv, call = "run", p < len, UNCHANGED build, NEW ch, ChunkSize(ch)
  PROVE  ParserInv'
  <1>1. q.state = "chunk_size" /\ q.state \in ChunkStates /\ q.state # "chunk_data"
    BY DEF ChunkSize, ChunkStates
  <1>2. CASE Reject
    BY <1>2, Rejected
  <1>3. CASE Go("chunk_size_almost_done") \/ Go("chunk_parameters")
    BY <1>1, <1>3, GoesChunk
  <1>4. CASE Longer(ch) =< MaxLength /\ Read([n EXCEPT !.content_length = Longer(ch)], {}, {})
    <2>1. PICK length : length = Longer(ch)
      OBVIOUS
    <2>2. length \in 0 .. MaxLength
      BY <1>1, <1>4, <2>1, InChunk, LongerRight, ParserAssumption
    <2>3. n \in Parser /\ n.state = "chunk_size"
      BY <1>1, Counted
    <2>4. [n EXCEPT !.content_length = length]
          = [n EXCEPT !.content_length = length, !.state = "chunk_size"]
      BY <2>3 DEF Parser
    <2> QED
      BY <1>1, <1>4, <2>1, <2>2, <2>4, ReadsSize
  <1> QED
    BY <1>2, <1>3, <1>4 DEF ChunkSize

LEMMA ChunkParametersKeeps ==
  ASSUME ParserInv, call = "run", p < len, UNCHANGED build, NEW ch, ChunkParameters(ch)
  PROVE  ParserInv'
  <1>1. q.state = "chunk_parameters" /\ q.state \in ChunkStates /\ q.state # "chunk_data"
    BY DEF ChunkParameters, ChunkStates
  <1>2. \E to \in {"chunk_size_almost_done", "chunk_parameters"} : Go(to)
    BY DEF ChunkParameters
  <1> QED
    BY <1>1, <1>2, GoesChunk

LEMMA ChunkDataEndsKeeps ==
  ASSUME ParserInv, call = "run", p < len, UNCHANGED build, NEW ch, ChunkDataEnds(ch)
  PROVE  ParserInv'
  <1>1. q.state \in ChunkData /\ q.state \in ChunkStates /\ q.state # "chunk_data"
    BY DEF ChunkDataEnds, ChunkStates, ChunkData
  <1>2. CASE Reject
    BY <1>2, Rejected
  <1>3. CASE Go("chunk_data_done") \/ Go("chunk_size_start")
    BY <1>1, <1>3, GoesChunk
  <1> QED
    BY <1>2, <1>3 DEF ChunkDataEnds

LEMMA ChunkSizeAlmostDoneKeeps ==
  ASSUME ParserInv, call = "run", p < len, UNCHANGED build, NEW ch, ChunkSizeAlmostDone(ch)
  PROVE  ParserInv'
  <1>1. q.state = "chunk_size_almost_done" /\ q.state \in ChunkStates /\ q.state # "chunk_data"
    BY DEF ChunkSizeAlmostDone, ChunkStates
  <1>2. CASE Reject
    BY <1>2, Rejected
  <1>3. /\ n \in Parser /\ n.flags = q.flags /\ "chunked" \in q.flags
        /\ 1 \in 1 .. len - p /\ n.content_length = q.content_length
        /\ q.content_length >= 0 /\ q.content_length \in Int /\ 0 \in 0 .. MaxHeader
    BY <1>1, Counted, InChunk, ParserAssumption
  <1>4. CASE /\ q.content_length = 0
             /\ Advance([n EXCEPT !.nread = 0, !.flags = @ \cup {"trailing"},
                                  !.state = "header_field_start"], {}, {}, <<>>, 1)
             /\ rest' = q.content_length /\ agreed' = agreed
    <2>1. PICK r : r = [n EXCEPT !.nread = 0, !.flags = @ \cup {"trailing"},
                                 !.state = "header_field_start"]
      OBVIOUS
    <2>2. "header_field_start" \in State /\ n.flags \cup {"trailing"} \in SUBSET Flag
      BY <1>3, TrailersAre DEF Trailers, Parser, Flag
    <2>3. r \in Parser /\ r.state = "header_field_start" /\ r.flags = n.flags \cup {"trailing"}
      BY <1>3, <2>1, <2>2 DEF Parser
    <2>4. Advance(r, {}, {}, <<>>, 1) /\ rest' = 0 /\ agreed' = agreed
      BY <1>4, <2>1
    <2>5. r.state # "chunk_data" /\ r.state \notin ChunkData \cup {"chunk_size_start"}
          /\ r.state \notin {"chunk_size", "chunk_parameters", "chunk_size_almost_done"}
      BY <2>3 DEF ChunkData
    <2>6. "chunked" \in r.flags /\ "trailing" \in r.flags
      BY <1>3, <2>3
    <2> QED
      BY <1>1, <1>3, <2>3, <2>4, <2>5, <2>6, ReadsChunk
  <1>5. CASE /\ q.content_length # 0
             /\ Advance([n EXCEPT !.nread = 0, !.state = "chunk_data"], {}, {}, <<>>, 1)
             /\ rest' = q.content_length /\ agreed' = agreed
    <2>1. PICK r : r = [n EXCEPT !.nread = 0, !.state = "chunk_data"]
      OBVIOUS
    <2>2. "chunk_data" \in State /\ "chunk_data" \in ChunkStates
      BY BodyStatesAre DEF BodyStates, ChunkStates, ChunkData
    <2>3. /\ r \in Parser /\ r.state = "chunk_data" /\ r.flags = n.flags /\ r.nread = 0
          /\ r.content_length = q.content_length
      BY <1>3, <2>1, <2>2 DEF Parser
    <2>4. Advance(r, {}, {}, <<>>, 1) /\ rest' = r.content_length /\ rest' > 0 /\ agreed' = agreed
      BY <1>3, <1>5, <2>1, <2>3
    <2>5. r.state \notin {"chunk_size", "chunk_parameters", "chunk_size_almost_done"}
          /\ "chunked" \in r.flags
      BY <1>3, <2>3
    <2> QED
      BY <1>1, <1>3, <2>2, <2>3, <2>4, <2>5, ReadsChunk
  <1> QED
    BY <1>2, <1>4, <1>5 DEF ChunkSizeAlmostDone

LEMMA ReadChunkDataKeeps ==
  ASSUME ParserInv, call = "run", p < len, UNCHANGED build,
         q.state = "chunk_data", ReadChunkData
  PROVE  ParserInv'
  <1>1. q.state \in ChunkStates /\ q.state \in ChunkData
    BY DEF ChunkStates, ChunkData
  <1>2. PICK to_read : to_read = Least(len - p, q.content_length)
    OBVIOUS
  <1>3. PICK next : next = IF to_read = q.content_length THEN "chunk_data_almost_done"
                           ELSE q.state
    OBVIOUS
  <1>4. PICK left : left = q.content_length - to_read
    OBVIOUS
  <1>5. PICK r : r = [q EXCEPT !.content_length = left, !.state = next]
    OBVIOUS
  <1>6. Advance(r, {}, {}, <<>>, to_read) /\ rest' = rest - to_read /\ agreed' = agreed
    BY <1>2, <1>3, <1>4, <1>5 DEF ReadChunkData
  <1>7. /\ to_read \in 1 .. len - p /\ to_read =< q.content_length
        /\ q.content_length \in 1 .. MaxLength /\ rest = q.content_length
        /\ left \in 0 .. MaxLength /\ left \in -1 .. MaxLength /\ rest' = left
        /\ q \in Parser /\ q.nread = 0 /\ "chunked" \in q.flags
    BY <1>1, <1>2, <1>4, <1>6, ReadsSome, InChunk, ParserAssumption
  <1>8. next \in ChunkData /\ next \in ChunkStates /\ next \in State
        /\ next \in {"chunk_data", "chunk_data_almost_done"}
        /\ (next = "chunk_data" <=> left # 0)
    BY <1>3, <1>4, <1>7, BodyStatesAre DEF BodyStates, ChunkStates, ChunkData
  <1>9. /\ r \in Parser /\ r.state = next /\ r.flags = q.flags /\ r.nread = 0
        /\ r.content_length = left
    BY <1>5, <1>7, <1>8 DEF Parser
  <1>10. IF r.state = "chunk_data" THEN rest' = r.content_length /\ rest' > 0 ELSE rest' = 0
    BY <1>7, <1>8, <1>9
  <1>11. r.state \notin {"chunk_size", "chunk_parameters", "chunk_size_almost_done"}
         /\ r.state \in ChunkStates /\ "chunked" \in r.flags
    BY <1>7, <1>8, <1>9
  <1> QED
    BY <1>1, <1>6, <1>7, <1>9, <1>10, <1>11, ReadsChunk

-----------------------------------------------------------------------------
(* Calls. *)

LEMMA CharacterKeeps ==
  ASSUME ParserInv, call = "run", p < len, UNCHANGED build, NEW ch, Character(ch)
  PROVE  ParserInv'
  BY StartReqOrResKeeps, ResOrRespHKeeps, StartResKeeps, StartReqKeeps, ReqMethodKeeps,
     ReqUrlStartKeeps, OnLineKeeps, RejectsKeep, HeaderFieldStartKeeps,
     HeaderFieldTokenKeeps, HeaderFieldEndsKeeps, HeaderValueStartKeeps, HeaderValueKeeps,
     HeaderAlmostDoneKeeps, HeaderValueLwsKeeps, HeadersAlmostDoneKeeps,
     ChunkSizeStartKeeps, ChunkSizeKeeps, ChunkParametersKeeps, ChunkSizeAlmostDoneKeeps,
     ChunkDataEndsKeeps
  DEF Character

LEMMA BytesKeep ==
  ASSUME ParserInv, call = "run", p < len, UNCHANGED build, Bytes
  PROVE  ParserInv'
  BY ReadChunkDataKeeps, BodyIdentityKeeps, BodyIdentityEofKeeps, RejectsKeep DEF Bytes

LEMMA ExecuteKeeps ==
  ASSUME ParserInv, UNCHANGED build, NEW length \in 1 .. MaxCall, Execute(length)
  PROVE  ParserInv'
  <1>1. /\ call = "none" /\ call' = "run" /\ len' = length /\ p' = p
        /\ mark' = [d \in Data |-> IF d \in Resumed(q.state) THEN 0 ELSE None]
        /\ UNCHANGED <<q, owed, rest, agreed, entry, events>>
    BY DEF Execute
  <1>2. CallTypes /\ p = 0 /\ (\A d \in Data : owed[d] = 0) /\ Told
    BY <1>1 DEF ParserInv, Marked
  <1>3. MaxCall \in Nat /\ None # 0
    BY ParserAssumption
  <1>4. CallTypes'
    <2>1. mark' \in [Data -> 0 .. MaxCall \cup {None}] /\ 0 \in 0 .. length
          /\ length \in 0 .. MaxCall
      BY <1>1, <1>3
    <2> QED
      BY <1>1, <1>2, <2>1 DEF CallTypes
  <1>5. \A d \in Data : /\ mark'[d] # None <=> q.state \in Region(d)
                        /\ owed'[d] = 0
                        /\ mark'[d] \in {0, None}
    BY <1>1, <1>2, <1>3, Regions
  <1>6. Marked'
    <2>1. \A d \in Data : owed'[d] = IF mark'[d] = None THEN 0 ELSE p' - mark'[d]
      BY <1>1, <1>2, <1>3, <1>5
    <2>2. q' = q
      BY <1>1
    <2> QED
      BY <1>1, <1>5, <2>1, <2>2 DEF Marked, Passed
  <1>7. Told'
    BY <1>1, <1>2 DEF Told, Stage
  <1>8. Right(q, agreed, rest)'
    BY <1>1 DEF ParserInv
  <1> QED
    BY <1>4, <1>6, <1>7, <1>8 DEF ParserInv

LEMMA ReturnKeeps ==
  ASSUME ParserInv, UNCHANGED build, Return
  PROVE  ParserInv'
  <1>1. /\ call = "run" /\ p = len /\ call' = "none" /\ q' = q
        /\ owed' = [d \in Data |-> owed[d] - Passed(d)]
        /\ mark' = NoMark /\ p' = 0 /\ len' = 0
        /\ entry' = Stage /\ events' = <<>>
        /\ rest' = rest /\ agreed' = agreed
    BY DEF Return, Saved
  <1>2. /\ \A d \in Data : owed[d] \in Int /\ owed[d] = Passed(d)
        /\ Stage = StageOf(q) /\ MaxCall \in Nat
    BY <1>1, Running
  <1>3. \A d \in Data : owed'[d] = 0
    BY <1>1, <1>2
  <1>4. CallTypes'
    <2>1. entry' \in {"head", "body", "dead"}
      BY <1>1, <1>2 DEF StageOf
    <2>2. owed' \in [Data -> Int]
      BY <1>1, <1>3
    <2>3. mark' \in [Data -> 0 .. MaxCall \cup {None}]
      BY <1>1 DEF NoMark
    <2>4. events' \in Seq(Event) /\ 0 \in 0 .. MaxCall /\ 0 \in 0 .. 0
      BY <1>1, <1>2
    <2>5. build' \in Builds
      BY DEF ParserInv, CallTypes
    <2> QED
      BY <1>1, <2>1, <2>2, <2>3, <2>4, <2>5 DEF CallTypes
  <1>5. Marked'
    <2>1. (mark = NoMark)'
      BY <1>1 DEF NoMark
    <2> QED
      BY <1>1, <1>3, <2>1 DEF Marked
  <1>6. Told'
    <2>1. Legal(entry', <<>>)
      BY DEF Legal
    <2>2. Stage' = entry'
      BY <1>1 DEF Stage
    <2> QED
      BY <1>1, <1>2, <2>1, <2>2 DEF Told
  <1>7. Right(q, agreed, rest)'
    BY <1>1 DEF ParserInv
  <1> QED
    BY <1>4, <1>5, <1>6, <1>7 DEF ParserInv

LEMMA ReturnUpgradedKeeps ==
  ASSUME ParserInv, UNCHANGED build, ReturnUpgraded
  PROVE  ParserInv'
  <1>1. call = "run" /\ call' = "over"
        /\ UNCHANGED <<q, p, len, mark, owed, rest, agreed, entry, events>>
    BY DEF ReturnUpgraded
  <1>2. CallTypes' /\ Marked' /\ Told'
    BY <1>1 DEF ParserInv, CallTypes, Marked, Told
  <1>3. Right(q, agreed, rest)'
    BY <1>1 DEF ParserInv
  <1> QED
    BY <1>2, <1>3 DEF ParserInv

LEMMA ExecuteEofKeeps ==
  ASSUME ParserInv, UNCHANGED build, ExecuteEof
  PROVE  ParserInv'
  <1>1. /\ call = "none" /\ call' \in {"over", "failed"}
        /\ UNCHANGED <<q, p, len, mark, owed, rest, agreed, entry>>
        /\ \/ events' = <<"error">>
           \/ events' = <<"complete">> /\ q.state = "body_identity_eof"
           \/ events' = <<>>
    BY DEF ExecuteEof
  <1>2. events = <<>> /\ entry = StageOf(q)
    BY <1>1 DEF ParserInv, Told, Stage
  <1>3. entry # "dead" /\ (q.state = "body_identity_eof" => entry = "body")
    BY <1>2 DEF StageOf
  <1>4. \A e \in Event : Follows(entry, e) => Legal(entry, <<e>>)
    BY <1>3 DEF Legal
  <1>5. Legal(entry, events') /\ events' \in Seq(Event)
    <2>1. "error" \in Event /\ "complete" \in Event
      BY DEF Event
    <2>2. Legal(entry, <<>>)
      BY DEF Legal
    <2>3. Follows(entry, "error") /\ (entry = "body" => Follows(entry, "complete"))
      BY DEF Follows
    <2>4. Legal(entry, <<"error">>) /\ (entry = "body" => Legal(entry, <<"complete">>))
      BY <1>4, <2>1, <2>3
    <2>5. <<>> \in Seq(Event) /\ <<"error">> \in Seq(Event) /\ <<"complete">> \in Seq(Event)
      BY <2>1
    <2> QED
      BY <1>1, <1>3, <2>2, <2>4, <2>5, Zenon
  <1>6. CallTypes' /\ Marked' /\ Told'
    BY <1>1, <1>5 DEF ParserInv, CallTypes, Marked, Told
  <1>7. Right(q, agreed, rest)'
    BY <1>1 DEF ParserInv
  <1> QED
    BY <1>6, <1>7 DEF ParserInv

LEMMA InitInv == Init => ParserInv
  <1> SUFFICES ASSUME Init PROVE ParserInv
    OBVIOUS
  <1>1. PICK s : s = CASE build.type = "request"  -> "start_req"
                       [] build.type = "response" -> "start_res"
                       [] OTHER                   -> "start_req_or_res"
    OBVIOUS
  <1>2. /\ build \in Builds
        /\ q = [state |-> s, header_state |-> General, index |-> 0, nread |-> 0,
                type |-> build.type, flags |-> {}, content_length |-> -1,
                http11 |-> FALSE, connect |-> FALSE, upgrade |-> FALSE]
        /\ call = "none" /\ p = 0 /\ len = 0 /\ mark = NoMark /\ owed = [d \in Data |-> 0]
        /\ rest = 0 /\ agreed = -1 /\ entry = "head" /\ events = <<>>
    BY <1>1 DEF Init
  <1>3. s \in State /\ s \in Easy /\ s \notin Beginning /\ s \in FirstStates
    BY <1>1, StatesAre DEF PlainStates, Easy, FirstStates, LineStates, UrlStates,
       RequestVersionStates, ResponseLineStates
  <1>4. /\ build.type \in {"request", "response", "both"} /\ WordLen \in Nat
        /\ MaxHeader \in Nat /\ MaxLength \in Nat /\ MaxCall \in Nat
        /\ General \in [word : Words, full : BOOLEAN]
    BY <1>2, ParserAssumption, WordsAre DEF Word
  <1>5. q \in Parser /\ q.state = s
    BY <1>2, <1>3, <1>4 DEF Parser
  <1>6. Right(q, agreed, rest)
    BY <1>2, <1>3, <1>4, <1>5, EasyRight
  <1>7. CallTypes
    BY <1>2, <1>4 DEF CallTypes, NoMark
  <1>8. Marked
    BY <1>2 DEF Marked
  <1>9. Told
    <2>1. Legal(entry, events)
      BY <1>2 DEF Legal
    <2>2. Stage = StageOf(q)
      BY <1>2, <1>3, <1>5, FirstAreHead DEF Stage
    <2> QED
      BY <1>2, <2>1, <2>2 DEF Told
  <1> QED
    BY <1>6, <1>7, <1>8, <1>9 DEF ParserInv

LEMMA NextInv == ParserInv /\ [Next]_vars => ParserInv'
  <1> SUFFICES ASSUME ParserInv, [Next]_vars PROVE ParserInv'
    OBVIOUS
  <1>1. CASE UNCHANGED vars
    BY <1>1 DEF vars, ParserInv, CallTypes, Right, Marked, Told, Passed, Stage
  <1>2. CASE Next
    <2>1. UNCHANGED build
      BY <1>2 DEF Next
    <2>2. ASSUME NEW length \in 1 .. MaxCall, Execute(length) PROVE ParserInv'
      BY <2>1, <2>2, ExecuteKeeps
    <2>3. ASSUME call = "run", p < len, NEW ch \in Char, Character(ch) PROVE ParserInv'
      BY <2>1, <2>3, CharacterKeeps
    <2>4. CASE call = "run" /\ p < len /\ Bytes
      BY <2>1, <2>4, BytesKeep
    <2>5. CASE Return
      BY <2>1, <2>5, ReturnKeeps
    <2>6. CASE ReturnUpgraded
      BY <2>1, <2>6, ReturnUpgradedKeeps
    <2>7. CASE ExecuteEof
      BY <2>1, <2>7, ExecuteEofKeeps
    <2>8. CASE Ended
      BY <1>1, <2>8 DEF Ended
    <2> QED
      BY <1>2, <2>2, <2>3, <2>4, <2>5, <2>6, <2>7, <2>8 DEF Next
  <1> QED
    BY <1>1, <1>2

LEMMA ParserInvariant == Spec => []ParserInv
  BY InitInv, NextInv, PTL DEF Spec

-----------------------------------------------------------------------------
(* Results. *)

LEMMA InvImplies ==
  ParserInv => /\ TypeOK /\ EventsInOrder /\ DataPassedOn /\ BodyExact
               /\ KeywordsExact /\ AssertionsHold
  <1> SUFFICES ASSUME ParserInv
               PROVE  /\ TypeOK /\ EventsInOrder /\ DataPassedOn /\ BodyExact
                      /\ KeywordsExact /\ AssertionsHold
    OBVIOUS
  <1>1. CallTypes /\ Right(q, agreed, rest) /\ Marked /\ Told
    BY DEF ParserInv
  <1>2. q \in Parser /\ agreed \in -1 .. WordLen /\ q.content_length \in -1 .. MaxLength
    BY <1>1 DEF Right, Parser
  <1>3. rest \in Int
    BY <1>1, <1>2, ParserAssumption DEF Right
  <1>4. TypeOK
    BY <1>1, <1>2, <1>3 DEF TypeOK, Parser, CallTypes
  <1>5. EventsInOrder
    BY <1>1 DEF EventsInOrder, Told
  <1>6. DataPassedOn
    <2>1. CASE call = "none"
      BY <1>1, <2>1 DEF DataPassedOn, Marked, Passed, NoMark
    <2>2. CASE call = "run"
      BY <1>1, <2>2 DEF DataPassedOn, Marked
    <2> QED
      BY <2>1, <2>2 DEF DataPassedOn
  <1>7. BodyExact
    BY <1>1, <1>2 DEF BodyExact, Right
  <1>8. KeywordsExact
    <2>1. WordLen \in Nat /\ WordLen >= 3
      BY ParserAssumption
    <2>2. ASSUME Spelled(q.header_state, agreed, q.index), q.header_state # General
          PROVE  /\ q.header_state = General <=> agreed = -1
                 /\ q.header_state.full <=> agreed = WordLen
                 /\ agreed \in 1 .. WordLen - 1 => q.index = agreed - 1
      BY <2>1, <2>2 DEF Spelled
    <2>3. ASSUME q.header_state = General, agreed = -1
          PROVE  /\ q.header_state = General <=> agreed = -1
                 /\ q.header_state.full <=> agreed = WordLen
                 /\ agreed \in 1 .. WordLen - 1 => q.index = agreed - 1
      BY <2>1, <2>3, WordsAre
    <2>4. ASSUME q.header_state = Matching("C"), agreed = 1, q.index = 0
          PROVE  /\ q.header_state = General <=> agreed = -1
                 /\ q.header_state.full <=> agreed = WordLen
                 /\ agreed \in 1 .. WordLen - 1 => q.index = agreed - 1
      BY <2>1, <2>4, WordsAre
    <2>5. CASE q.state = "header_field"
      <3>1. NameRight(q.header_state, agreed, q.index)
        BY <1>1, <2>5 DEF Right
      <3>2. q.header_state.word \in Names \cup {"proxy_connection"} => q.header_state # General
        BY WordsAre DEF Names
      <3> QED
        BY <2>2, <2>3, <2>4, <2>5, <3>1, <3>2 DEF NameRight, KeywordsExact
    <2>6. CASE q.state = "header_value" /\ q.header_state # Full("content_length")
      <3>1. ValueRight(q.header_state, agreed, q.index, q.content_length)
        BY <1>1, <2>6 DEF Right
      <3>2. q.header_state.word \in {"chunked", "keep_alive", "close"}
              => q.header_state # General
        BY WordsAre
      <3> QED
        BY <2>2, <2>3, <2>6, <3>1, <3>2 DEF ValueRight, KeywordsExact
    <2> QED
      BY <2>5, <2>6 DEF KeywordsExact
  <1>9. AssertionsHold
    <2>1. q.state = "chunk_size_start" => q.nread = 0
      BY <1>1 DEF Right
    <2>2. q.state \in ChunkStates => "chunked" \in q.flags
      BY <1>1 DEF Right
    <2>3. q.state = "header_field" =>
            q.header_state.word \in Names \cup {"general", "C", "proxy_connection"}
      BY <1>1, WordsAre DEF Right, NameRight
    <2>4. q.state = "header_value" =>
            q.header_state \notin {Full("connection"), Full("transfer_encoding")}
      <3>1. /\ Full("connection").word = "connection"
            /\ Full("transfer_encoding").word = "transfer_encoding"
            /\ Full("content_length").word = "content_length"
        BY WordsAre
      <3> QED
        BY <1>1, <3>1, WordsAre DEF Right, ValueRight
    <2> QED
      BY <2>1, <2>2, <2>3, <2>4 DEF AssertionsHold, ChunkStates
  <1> QED
    BY <1>4, <1>5, <1>6, <1>7, <1>8, <1>9

(* Everything the parser keeps between calls, and everything local to a     *)
(* call, has its type: in particular index and nread stay within their      *)
(* bounds however long a keyword and however the input is cut.              *)
THEOREM ParserTypes == Spec => []TypeOK
  BY ParserInvariant, InvImplies, PTL

(* Whatever bytes come, in whatever calls, each message's headers are told  *)
(* once and before its end, and nothing is told after an error: what the    *)
(* request processor's callbacks rely on.                                   *)
THEOREM EventsOrdered == Spec => []EventsInOrder
  BY ParserInvariant, InvImplies, PTL

(* A mark covers just the bytes of a piece of data that have not been       *)
(* passed on, and the marks set at entry are those that the state is inside *)
(* of, so that a piece that is cut by the end of a call is passed on whole. *)
THEOREM BytesPassedOn == Spec => []DataPassedOn
  BY ParserInvariant, InvImplies, PTL

(* A body with a Content-Length, and each chunk, ends where its length says. *)
THEOREM BodiesExact == Spec => []BodyExact
  BY ParserInvariant, InvImplies, PTL

(* A header's name or value is taken for a keyword if and only if every one *)
(* of its letters is the keyword's.                                         *)
THEOREM KeywordsRight == Spec => []KeywordsExact
  BY ParserInvariant, InvImplies, PTL

(* The assertions of http_parser_execute hold, those of the default cases   *)
(* of header_state among them.                                              *)
THEOREM CodeAssertionsHold == Spec => []AssertionsHold
  BY ParserInvariant, InvImplies, PTL

=============================================================================
