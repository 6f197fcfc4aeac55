------------------------------ MODULE HttpdConf ------------------------------
(***************************************************************************)
(* How eva reads its configuration: src/http/httpd_conf.c.                  *)
(*                                                                         *)
(* httpd_conf_load walks two tables that a Lua script has made.  Of         *)
(* "mimetypes" it takes as many entries as the table is long.  Of "scripts" *)
(* it takes every entry, also those that are not counted by its length      *)
(* (because their keys are not 1, 2, ...), and keeps those with a pattern   *)
(* and a script that loads.  It stores them in an array with room for the   *)
(* length and a terminator.                                                 *)
(*                                                                         *)
(* Strings are numbered by the entry they are copied from: a pointer in the *)
(* array is that number, NULL or what malloc left there.  An entry that is  *)
(* not a table, or whose mimetype is not a string, raises an error that     *)
(* nobody catches, and eva ends.                                            *)
(***************************************************************************)
EXTENDS Integers, Sequences

CONSTANTS
  Char,              \* characters; "/" and "." are two of them
  ScriptTables,      \* the tables "scripts", entries in the order of lua_next
  MimetypeTables,    \* the tables "mimetypes"; None if there is no table
  default_mimetypes, \* the built-in one, of which each entry is a mimetype_t
  TypeName,          \* names of mimetypes, that of bin_mimetype among them
  StackSize,         \* DEFAULT_STATE_SIZE
  None

Text == Seq(Char)

(* pattern and mimetype may be missing, or raise an error; loading the      *)
(* script may fail.                                                         *)
ScriptEntry == [pattern : Text \cup {None}, mimetype : {"none", "given", "error"},
                script : {"none", "fails", "loads"}]

(* The first pair of an entry: its key may be a number, and it may have     *)
(* none.                                                                    *)
MimetypeEntry == [postfix : Text, key : {"string", "number", "none"}, type : TypeName]

(* struct mimetype *)
Mimetype == [postfix : Text, postfix_size : Nat, type : TypeName]

ASSUME ConfAssumption ==
  /\ {"/", "."} \subseteq Char
  /\ ScriptTables \subseteq Seq(ScriptEntry)
  /\ MimetypeTables \ {None} \subseteq Seq(MimetypeEntry)
  /\ default_mimetypes \in Seq(Mimetype)
  /\ \A k \in DOMAIN default_mimetypes :
       default_mimetypes[k].postfix_size =< Len(default_mimetypes[k].postfix)
  /\ "application/octet-stream" \in TypeName
  /\ StackSize \in Nat \ {0}
  /\ None \notin Int /\ None \notin Text

VARIABLES
  pc,           \* where httpd_conf_load is, or the request it is followed by
  mimeTable,    \* the table "mimetypes"
  mimetypes,    \* conf->mimetypes, up to its terminator
  scripts,      \* the table "scripts"
  rawlen,       \* its length
  entry,        \* entries of the table at hand that have been read
  i,            \* slots of states that are in use
  states,       \* conf->lua_states
  heap,         \* the strings on the heap: an entry and a field of it
  luaStates     \* Lua states made so far

tableVars == <<mimeTable, scripts, rawlen>>
confVars == <<tableVars, mimetypes, entry, i, states, heap, luaStates>>

(* What malloc left in a slot is not told from anything else: an entry that *)
(* there is none of.                                                        *)
Junk == -1

Slot == [pattern : Nat \cup {Junk, None}, mimetype : Nat \cup {Junk, None},
         filename : Nat \cup {Junk}, top : -1 .. StackSize + 1,
         idle : [0 .. StackSize - 1 -> Nat \cup {Junk}]]

Uninitialised == [pattern |-> Junk, mimetype |-> Junk, filename |-> Junk, top |-> -1,
                  idle |-> [k \in 0 .. StackSize - 1 |-> Junk]]

ConfInit ==
  /\ pc = "mimetypes"
  /\ mimeTable \in MimetypeTables
  /\ mimetypes = IF mimeTable = None THEN default_mimetypes ELSE <<>>
  /\ scripts \in ScriptTables /\ rawlen \in 0 .. Len(scripts)
  /\ entry = 0 /\ i = 0 /\ heap = {} /\ luaStates = 0
  /\ states = [k \in 0 .. rawlen |-> Uninitialised]

-----------------------------------------------------------------------------
(* The mimetypes. *)

(* The key's length is asked for before a number is made a string.          *)
ReadMimetype ==
  /\ pc = "mimetypes" /\ mimeTable # None /\ entry < Len(mimeTable)
  /\ LET e == mimeTable[entry + 1]
     IN  /\ e.key # "none"
         /\ mimetypes' = Append(mimetypes,
              [postfix |-> e.postfix, type |-> e.type,
               postfix_size |-> IF e.key = "number" THEN 0 ELSE Len(e.postfix)])
  /\ entry' = entry + 1
  /\ UNCHANGED <<pc, tableVars, i, states, heap, luaStates>>

(* lua_error, with no protected call around it. *)
MimetypeIsEmpty ==
  /\ pc = "mimetypes" /\ mimeTable # None /\ entry < Len(mimeTable)
  /\ mimeTable[entry + 1].key = "none"
  /\ pc' = "aborted"
  /\ UNCHANGED confVars

MimetypesEnd ==
  /\ pc = "mimetypes"
  /\ mimeTable # None => entry = Len(mimeTable)
  /\ pc' = "scripts" /\ entry' = 0
  /\ UNCHANGED <<tableVars, mimetypes, i, states, heap, luaStates>>

-----------------------------------------------------------------------------
(* load_scripts.  An action reads one entry into the slot states[i].        *)

At == entry + 1
Entry == scripts[At]

Reads == pc = "scripts" /\ entry < Len(scripts) /\ i =< rawlen /\ entry' = At

(* The slot with what an entry that has a pattern leaves in it: pointers,   *)
(* to strings that may be freed again.  The default mimetype is None.       *)
Filled(filename) ==
  [states[i] EXCEPT !.pattern = At, !.filename = filename,
                    !.mimetype = IF Entry.mimetype = "given" THEN At ELSE None]

(* The strings of an entry. *)
Strings(fields) ==
  {<<At, f>> : f \in {f \in fields : f = "mimetype" => Entry.mimetype = "given"}}

NoPattern ==
  /\ Reads /\ Entry.pattern = None
  /\ states' = [states EXCEPT ![i].pattern = None]
  /\ UNCHANGED <<pc, tableVars, mimetypes, i, heap, luaStates>>

(* luaL_optstring raises an error, or the first lua_getfield does. *)
EntryIsWrong ==
  /\ Reads /\ Entry.pattern # None /\ Entry.mimetype = "error"
  /\ pc' = "aborted"
  /\ UNCHANGED <<tableVars, mimetypes, i, states, heap, luaStates>>

(* Mutation: the slot is taken all the same. *)
NoScript_takes_slot ==
  /\ Reads /\ Entry.pattern # None /\ Entry.mimetype # "error"
  /\ Entry.script = "none"
  /\ states' = [states EXCEPT ![i] = Filled(@.filename)]
  /\ heap' = heap \cup Strings({"mimetype"})
  /\ i' = i + 1
  /\ UNCHANGED <<pc, tableVars, mimetypes, luaStates>>

(* The pattern is freed, a mimetype is not. *)
NoScript ==
  /\ Reads /\ Entry.pattern # None /\ Entry.mimetype # "error"
  /\ Entry.script = "none"
  /\ states' = [states EXCEPT ![i] = Filled(@.filename)]
  /\ heap' = heap \cup Strings({"mimetype"})
  /\ UNCHANGED <<pc, tableVars, mimetypes, i, luaStates>>

(* Everything is freed, and the Lua state closed. *)
ScriptFails ==
  /\ Reads /\ Entry.pattern # None /\ Entry.mimetype # "error"
  /\ Entry.script = "fails"
  /\ states' = [states EXCEPT ![i] = Filled(At)]
  /\ luaStates' = luaStates + 1
  /\ UNCHANGED <<pc, tableVars, mimetypes, i, heap>>

(* Mutation: slots are counted as entries are. *)
ScriptLoads_in_entry_order ==
  /\ Reads /\ Entry.pattern # None /\ Entry.mimetype # "error"
  /\ Entry.script = "loads"
  /\ states' = [states EXCEPT ![i] = [Filled(At) EXCEPT !.top = 0,
                                                       !.idle[0] = luaStates + 1]]
  /\ heap' = heap \cup Strings({"pattern", "mimetype", "filename"})
  /\ luaStates' = luaStates + 1
  /\ i' = At
  /\ UNCHANGED <<pc, tableVars, mimetypes>>

(* The slot has a pool with the script's Lua state in it. *)
ScriptLoads ==
  /\ Reads /\ Entry.pattern # None /\ Entry.mimetype # "error"
  /\ Entry.script = "loads"
  /\ states' = [states EXCEPT ![i] = [Filled(At) EXCEPT !.top = 0,
                                                       !.idle[0] = luaStates + 1]]
  /\ heap' = heap \cup Strings({"pattern", "mimetype", "filename"})
  /\ luaStates' = luaStates + 1
  /\ i' = i + 1
  /\ UNCHANGED <<pc, tableVars, mimetypes>>

(* The next entry, or the terminator, is beyond the array. *)
StatesOverflow ==
  /\ pc = "scripts" /\ i > rawlen
  /\ pc' = "overflow"
  /\ UNCHANGED confVars

ScriptsEnd ==
  /\ pc = "scripts" /\ entry = Len(scripts) /\ i =< rawlen
  /\ states' = [states EXCEPT ![i].pattern = None]
  /\ pc' = "serve"
  /\ UNCHANGED <<tableVars, mimetypes, entry, i, heap, luaStates>>

load_scripts == \/ NoPattern \/ EntryIsWrong \/ NoScript \/ ScriptFails
                \/ ScriptLoads \/ StatesOverflow \/ ScriptsEnd

httpd_conf_load == ReadMimetype \/ MimetypeIsEmpty \/ MimetypesEnd \/ load_scripts

Loading == pc \in {"mimetypes", "scripts", "aborted", "overflow"}

-----------------------------------------------------------------------------
(* Properties. *)

(* When eva starts to serve, the array is that of the entries kept, in      *)
(* order, with a terminator after them; their strings are live, and of the  *)
(* others' only mimetypes of entries without a script are left behind.  The *)
(* array is too short only for entries that rawlen does not count.          *)
TableSound ==
  /\ pc = "overflow" => rawlen < Len(scripts)
  /\ ~Loading =>
       LET kept == {states[k].pattern : k \in 0 .. i - 1}
           left == {n \in 1 .. Len(scripts) : scripts[n].pattern # None
                                             /\ scripts[n].script = "none"}
           given == {n \in 1 .. Len(scripts) : scripts[n].mimetype = "given"}
       IN  /\ i =< rawlen /\ states[i].pattern = None
           /\ \A k \in 0 .. i - 1 : \A j \in 0 .. k - 1 :
                states[j].pattern < states[k].pattern
           /\ \A k \in 0 .. i - 1 : states[k].mimetype \in given \cup {None}
           /\ heap = kept \X {"pattern", "filename"}
                      \cup ((kept \cup left) \cap given) \X {"mimetype"}
=============================================================================
