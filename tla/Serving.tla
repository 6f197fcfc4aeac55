------------------------------- MODULE Serving -------------------------------
(***************************************************************************)
(* What eva answers a request with: the lookups of                          *)
(* src/http/request_processor.c in the configuration that HttpdConf reads,  *)
(* and the file that Paths finds.                                           *)
(*                                                                         *)
(* A request whose path begins with the pattern of a script is answered by  *)
(* the script, in a Lua state of its own pool; any other with a file.  The  *)
(* server has one thread: a request is answered before the next is looked   *)
(* at.                                                                      *)
(***************************************************************************)
EXTENDS Paths, SequencesExt

CONSTANTS Location,     \* default_file_location
          DefaultFile   \* default_file

ASSUME LocationAssumption ==
  /\ Location \in Text /\ DefaultFile \in Text /\ DefaultFile # <<>>
  /\ DefaultFile[1] # "/" /\ DefaultFile[Len(DefaultFile)] # "/"

VARIABLES
  lua,      \* conn_info->lua: the slot of the script, or None
  running,  \* the Lua state the script runs in, or None
  answer    \* the file sent and the mimetype it is sent with, or None

vars == <<pc, confVars, pathVars, lua, running, answer>>

Init == ConfInit /\ PathInit /\ lua = None /\ running = None /\ answer = None

-----------------------------------------------------------------------------
(* get_script *)

(* An entry whose pattern the path begins with; the empty path of a request *)
(* without one is a null pointer, that no pattern is compared with here.    *)
Serves(n, s) == IsPrefix(scripts[n].pattern, s)

(* Mutation: as many characters are compared as the path has. *)
EndsAt_over_path(k, s) ==
  states[k].pattern = None \/ IsPrefix(s, scripts[states[k].pattern].pattern)

(* The loop ends at the terminator or at a pattern that fits.               *)
EndsAt(k, s) == states[k].pattern = None \/ Serves(states[k].pattern, s)

get_script(s) ==
  LET k == CHOOSE k \in DOMAIN states :
             EndsAt(k, s) /\ \A j \in 0 .. k - 1 : ~EndsAt(j, s)
  IN  IF states[k].pattern = None THEN None ELSE k

-----------------------------------------------------------------------------
(* Requests. *)

(* Mutation: the state stays in the pool. *)
get_lua_state_leaves_it(k) ==
  IF states[k].top < 0
  THEN /\ luaStates' = luaStates + 1 /\ running' = luaStates + 1
       /\ UNCHANGED states
  ELSE /\ running' = states[k].idle[states[k].top]
       /\ UNCHANGED <<states, luaStates>>

(* get_lua_state: the top of the pool, or a new one.                        *)
get_lua_state(k) ==
  IF states[k].top < 0
  THEN /\ luaStates' = luaStates + 1 /\ running' = luaStates + 1
       /\ UNCHANGED states
  ELSE /\ running' = states[k].idle[states[k].top]
       /\ states' = [states EXCEPT ![k].top = @ - 1]
       /\ UNCHANGED luaStates

(* start_processing, and http_lua_eval to the call of the script.           *)
ScriptStarts ==
  /\ pc = "serve"
  /\ \E s \in RequestPaths \ {<<>>} :
       /\ get_script(s) # None
       /\ path' = s /\ lua' = get_script(s)
  /\ get_lua_state(lua')
  /\ pc' = "script"
  /\ UNCHANGED <<tableVars, mimetypes, entry, i, heap, newfile, pos, depth, answer>>

(* return_lua_state.  Its test lets the index grow two beyond the table,    *)
(* where L would be stored.                                                 *)
return_lua_state(k, L) ==
  IF states[k].top - 1 < StackSize
  THEN states' = [states EXCEPT ![k].top = @ + 1, ![k].idle[states[k].top + 1] = L]
  ELSE UNCHANGED states

(* The script has returned, or failed. *)
ScriptEnds ==
  /\ pc = "script"
  /\ return_lua_state(lua, running)
  /\ pc' = "sent" /\ running' = None
  /\ UNCHANGED <<tableVars, mimetypes, entry, i, heap, luaStates, pathVars, lua, answer>>

(* start_processing, and http_send_file to the call of get_full_path.       *)
FileStarts ==
  /\ pc = "serve"
  /\ \E s \in RequestPaths :
       /\ s = <<>> => states[0].pattern = None
       /\ s # <<>> => get_script(s) = None
       /\ PathStarts(s)
  /\ pc' = "path"
  /\ UNCHANGED <<confVars, lua, running, answer>>

FullPath == Location \o Name \o IF IsDirectory THEN DefaultFile ELSE <<>>

(* rindex: what follows the last dot. *)
Postfix(name) ==
  LET dots == {n \in 1 .. Len(name) : name[n] = "."}
      last == CHOOSE n \in dots : \A m \in dots : m =< n
  IN  IF dots = {} THEN None ELSE SubSeq(name, last + 1, Len(name))

(* strncasecmp over the first postfix_size characters. *)
Fits(t, postfix) == IsPrefix(SubSeq(t.postfix, 1, t.postfix_size), postfix)

(* Mutation: the first dot is found instead of the last. *)
get_mimetype_first_dot(name) ==
  LET dots == {n \in 1 .. Len(name) : name[n] = "."}
      first == CHOOSE n \in dots : \A m \in dots : n =< m
      fitting == {k \in 1 .. Len(mimetypes) :
                    dots # {} /\ Fits(mimetypes[k], SubSeq(name, first + 1, Len(name)))}
  IN  IF fitting = {} THEN "application/octet-stream"
      ELSE mimetypes[CHOOSE k \in fitting : \A j \in fitting : k =< j].type

get_mimetype(name) ==
  LET fitting == {k \in 1 .. Len(mimetypes) :
                    Postfix(name) # None /\ Fits(mimetypes[k], Postfix(name))}
  IN  IF fitting = {} THEN "application/octet-stream"
      ELSE mimetypes[CHOOSE k \in fitting : \A j \in fitting : k =< j].type

(* The file is there, or it is not. *)
FileSent ==
  /\ PathDone
  /\ answer' \in {None, [name |-> FullPath, type |-> get_mimetype(FullPath)]}
  /\ pc' = "sent"
  /\ UNCHANGED <<confVars, pathVars, lua, running>>

(* request_processor_reset, for the next request. *)
RequestEnds ==
  /\ pc = "sent"
  /\ pc' = "serve" /\ lua' = None /\ answer' = None
  /\ path' = <<>> /\ newfile' = <<>> /\ pos' = 0 /\ depth' = 0
  /\ UNCHANGED <<confVars, running>>

Next ==
  \/ httpd_conf_load /\ UNCHANGED <<pathVars, lua, running, answer>>
  \/ ScriptStarts \/ ScriptEnds
  \/ FileStarts \/ FileSent \/ RequestEnds
  \/ get_full_path /\ UNCHANGED <<pc, confVars, lua, running, answer>>

Spec == Init /\ [][Next]_vars

-----------------------------------------------------------------------------
(* Properties. *)

(* Type invariant. *)
TypeOK ==
  /\ pc \in {"mimetypes", "scripts", "aborted", "overflow", "serve", "script",
             "path", "sent"}
  /\ mimeTable \in MimetypeTables /\ mimetypes \in Seq(Mimetype)
  /\ scripts \in ScriptTables /\ rawlen \in 0 .. Len(scripts)
  /\ entry \in Nat /\ i \in 0 .. rawlen + 1 /\ luaStates \in Nat
  /\ heap \subseteq (1 .. Len(scripts)) \X {"pattern", "mimetype", "filename"}
  /\ states \in [0 .. rawlen -> Slot]
  /\ path \in Text /\ newfile \in Text
  /\ pos \in 0 .. Len(path) + 1 /\ depth \in 0 .. Len(path)
  /\ lua \in DOMAIN states \cup {None} /\ running \in 1 .. luaStates \cup {None}
  /\ answer = None \/ answer \in [name : Text, type : TypeName]

(* The scripts of the configuration that eva serves. *)
Accepted == {n \in 1 .. Len(scripts) : scripts[n].pattern # None /\ scripts[n].script = "loads"}

(* Whatever entries were refused while loading, a request is answered by    *)
(* the first script of the configuration whose pattern its path begins      *)
(* with, and with a file only if there is none.                             *)
ScriptServes ==
  /\ pc = "script" =>
       LET n == states[lua].pattern
       IN  n \in Accepted /\ Serves(n, path)
           /\ \A m \in Accepted : m < n => ~Serves(m, path)
  /\ pc = "path" => \A n \in Accepted : ~Serves(n, path)

(* A Lua state is in one place: in the pool of one script or running one.   *)
(* Places up to the top hold states, and the top stays in the table, though *)
(* return_lua_state's test is not what keeps it there.                      *)
StatesKept ==
  \A k \in 0 .. i - 1 :
     /\ states[k].top < StackSize
     /\ \A m \in 0 .. states[k].top :
          LET L == states[k].idle[m]
          IN  /\ L # Junk /\ L # running
              /\ \A j \in 0 .. i - 1 : \A o \in 0 .. states[j].top :
                   states[j].idle[o] = L => j = k /\ o = m

(* A path without ".." that does not end in a dot names its own file, or    *)
(* the default file in it; and a file whose postfix is registered is sent   *)
(* with its mimetype, unless an earlier entry is the beginning of it.       *)
FileServed ==
  pc = "sent" /\ answer # None /\ path # <<>> =>
    LET name == path \o IF path[Len(path)] = "/" THEN DefaultFile ELSE <<>>
    IN  path[Len(path)] # "." /\ (\A n \in 1 .. Len(path) - 1 : ~DotsAt(path, n)) =>
          /\ answer.name = Location \o name
          /\ \A k \in 1 .. Len(mimetypes) :
               /\ Postfix(name) = mimetypes[k].postfix
               /\ \A j \in 1 .. k - 1 : ~Fits(mimetypes[j], mimetypes[k].postfix)
               => answer.type = mimetypes[k].type
=============================================================================
