---------------------------- MODULE ServingProofs ----------------------------
(***************************************************************************)
(* Proofs about Serving, for all configurations and all request paths.      *)
(***************************************************************************)
EXTENDS ScriptProofs, SequenceTheorems, TLAPS

-----------------------------------------------------------------------------
(* No ".." in a file's name.  Once a "/" has been seen no two dots follow   *)
(* one another in what the loop has done; before, they may, but then they   *)
(* are not at the beginning of a component: the path begins with no dot.    *)

DotsBeforeSlash ==
  \A n \in 1 .. pos : n =< Len(path) /\ DotsAt(newfile, n) =>
     \A m \in 1 .. n : newfile[m] # "/"

NoSlashYet == depth = 0 => \A n \in 1 .. pos : n =< Len(path) => newfile[n] # "/"

PathTypes == /\ path \in Text /\ newfile \in Text /\ pos \in Nat /\ depth \in Nat

PathInvariant ==
  /\ PathTypes
  /\ pc = "path" => /\ Len(newfile) = Len(path) + 1
                    /\ path # <<>> => newfile[1] # "."
                    /\ NoSlashYet /\ DotsBeforeSlash

LEMMA PathInitially == Init => PathInvariant
  <1> SUFFICES ASSUME Init PROVE PathInvariant
    OBVIOUS
  <1>1. pc # "path"
    BY DEF Init, ConfInit
  <1>2. PathTypes
    BY DEF Init, PathInit, PathTypes, Text
  <1> QED
    BY <1>1, <1>2 DEF PathInvariant

(* Steps of other parts. *)
LEMMA PathElsewhere ==
  ASSUME PathInvariant, UNCHANGED pathVars, pc' = "path" => pc = "path"
  PROVE  PathInvariant'
  BY DEF PathInvariant, PathTypes, NoSlashYet, DotsBeforeSlash, DotsAt, pathVars

LEMMA PathBegins == ASSUME FileStarts PROVE PathInvariant'
  <1>1. PICK s \in RequestPaths : PathStarts(s)
    BY DEF FileStarts
  <1>2. PICK c \in Char : newfile' = Append(s, c)
    BY <1>1 DEF PathStarts
  <1>3. s \in Text /\ (s # <<>> => s[1] # ".")
    BY PathAssumption
  <1>4. path' = s /\ pos' = 0 /\ depth' = 0
    BY <1>1 DEF PathStarts
  <1>5. PathTypes'
    BY <1>2, <1>3, <1>4 DEF PathTypes, Text
  <1>6. Len(newfile') = Len(path') + 1
    BY <1>2, <1>3, <1>4 DEF Text
  <1>7. path' # <<>> => newfile'[1] # "."
    BY <1>2, <1>3, <1>4 DEF Text
  <1>8. NoSlashYet' /\ DotsBeforeSlash'
    BY <1>4 DEF NoSlashYet, DotsBeforeSlash
  <1> QED
    BY <1>5, <1>6, <1>7, <1>8 DEF PathInvariant

LEMMA PathDots == ASSUME PathInvariant, DotsReplaced, UNCHANGED pc PROVE PathInvariant'
  <1> USE DEF Text
  <1>1. /\ pc = "path" /\ pos < Len(path) /\ depth > 0
        /\ pos' = pos + 2 /\ path' = path /\ depth' = depth
        /\ newfile' = [newfile EXCEPT ![pos + 1] = "/", ![pos + 2] = "/"]
    BY DEF DotsReplaced, InPath
  <1>2. PathTypes /\ Len(newfile) = Len(path) + 1
    BY <1>1 DEF PathInvariant
  <1>3. /\ newfile' \in Seq(Char) /\ Len(newfile') = Len(newfile)
        /\ \A n \in 1 .. Len(newfile) :
             newfile'[n] = IF n \in {pos + 1, pos + 2} THEN "/" ELSE newfile[n]
    <2>1. newfile \in [1 .. Len(newfile) -> Char] /\ "/" \in Char
      BY <1>2, ConfAssumption DEF PathTypes
    <2>2. newfile' \in [1 .. Len(newfile) -> Char]
      BY <1>1, <2>1
    <2>3. \A n \in 1 .. Len(newfile) :
             newfile'[n] = IF n \in {pos + 1, pos + 2} THEN "/" ELSE newfile[n]
      BY <1>1, <1>2, <2>1 DEF PathTypes
    <2>4. newfile' \in Seq(Char) /\ Len(newfile') = Len(newfile)
      <3> DEFINE t == newfile'
                 k == Len(newfile)
      <3>1. k \in Nat /\ t \in [1 .. k -> Char]
        BY <1>2, <2>2 DEF PathTypes
      <3> HIDE DEF t, k
      <3>2. t \in Seq(Char) /\ Len(t) = k
        BY <3>1
      <3> QED
        BY <3>2 DEF t, k
    <2> QED
      BY <2>3, <2>4
  <1>4. PathTypes'
    BY <1>1, <1>2, <1>3 DEF PathTypes
  <1>5. path' # <<>> => newfile'[1] # "."
    <2>1. path # <<>> => newfile[1] # "."
      BY <1>1 DEF PathInvariant
    <2> QED
      BY <1>1, <1>2, <1>3, <2>1 DEF PathTypes
  <1>6. NoSlashYet'
    BY <1>1, <1>2 DEF NoSlashYet, PathTypes
  <1>7. DotsBeforeSlash'
    <2> SUFFICES ASSUME NEW n \in 1 .. pos + 2, n =< Len(path), DotsAt(newfile', n),
                        NEW m \in 1 .. n
                 PROVE  newfile'[m] # "/"
      BY <1>1 DEF DotsBeforeSlash, DotsAt
    <2>1. n < pos
      BY <1>1, <1>2, <1>3 DEF DotsAt, PathTypes
    <2>2. DotsAt(newfile, n)
      <3>1. /\ n \in 1 .. Len(newfile) /\ n + 1 \in 1 .. Len(newfile)
            /\ n \notin {pos + 1, pos + 2} /\ n + 1 \notin {pos + 1, pos + 2}
        BY <1>1, <1>2, <2>1 DEF PathTypes
      <3>2. newfile'[n] = newfile[n] /\ newfile'[n + 1] = newfile[n + 1]
        BY <1>3, <3>1
      <3> QED
        BY <3>2 DEF DotsAt
    <2>3. newfile[m] # "/"
      BY <1>1, <1>2, <2>1, <2>2 DEF PathInvariant, DotsBeforeSlash, PathTypes
    <2> QED
      BY <1>1, <1>2, <1>3, <2>1, <2>3 DEF PathTypes
  <1> QED
    BY <1>1, <1>2, <1>3, <1>4, <1>5, <1>6, <1>7 DEF PathInvariant

LEMMA PathCharacter ==
  ASSUME PathInvariant, CharacterKept, UNCHANGED pc PROVE PathInvariant'
  <1> USE DEF Text
  <1>1. /\ pc = "path" /\ pos < Len(path)
        /\ ~(DotsAt(newfile, pos + 1) /\ depth > 0)
        /\ depth' = (IF newfile[pos + 1] = "/" THEN depth + 1 ELSE depth)
        /\ pos' = pos + 1 /\ path' = path /\ newfile' = newfile
    BY DEF CharacterKept, InPath
  <1>2. PathTypes /\ NoSlashYet /\ DotsBeforeSlash
    BY <1>1 DEF PathInvariant
  <1>3. PathTypes'
    BY <1>1, <1>2 DEF PathTypes
  <1>4. NoSlashYet'
    BY <1>1, <1>2 DEF NoSlashYet, PathTypes
  <1>5. DotsBeforeSlash'
    <2> SUFFICES ASSUME NEW n \in 1 .. pos + 1, n =< Len(path), DotsAt(newfile, n),
                        NEW m \in 1 .. n
                 PROVE  newfile[m] # "/"
      BY <1>1 DEF DotsBeforeSlash, DotsAt
    <2>1. CASE n \in 1 .. pos
      BY <1>2, <2>1 DEF DotsBeforeSlash
    <2>2. CASE n = pos + 1
      <3>1. depth = 0 /\ newfile[pos + 1] = "."
        BY <1>1, <1>2, <2>2 DEF DotsAt, PathTypes
      <3> QED
        BY <1>1, <1>2, <2>2, <3>1 DEF NoSlashYet, PathTypes
    <2> QED
      BY <1>2, <2>1, <2>2 DEF PathTypes
  <1> QED
    BY <1>1, <1>3, <1>4, <1>5 DEF PathInvariant

LEMMA PathKept == PathInvariant /\ [Next]_vars => PathInvariant'
  <1> SUFFICES ASSUME PathInvariant, [Next]_vars PROVE PathInvariant'
    OBVIOUS
  <1>1. CASE httpd_conf_load /\ UNCHANGED <<pathVars, lua, running, answer>>
    <2>1. UNCHANGED pathVars
      BY <1>1
    <2>2. pc' = "path" => pc = "path"
      BY <1>1 DEF httpd_conf_load, load_scripts, ReadMimetype, MimetypeIsEmpty,
                  MimetypesEnd, NoPattern, EntryIsWrong, NoScript, ScriptFails,
                  ScriptLoads, StatesOverflow, ScriptsEnd
    <2> QED
      BY <2>1, <2>2, PathElsewhere
  <1>2. CASE ScriptStarts
    <2>1. PICK s \in RequestPaths : path' = s
      BY <1>2 DEF ScriptStarts
    <2>2. pc' # "path" /\ PathTypes'
      BY <1>2, <2>1, PathAssumption DEF ScriptStarts, PathInvariant, PathTypes
    <2> QED
      BY <2>2 DEF PathInvariant
  <1>3. CASE ScriptEnds
    BY <1>3, PathElsewhere DEF ScriptEnds
  <1>4. CASE FileStarts
    BY <1>4, PathBegins
  <1>5. CASE FileSent
    BY <1>5, PathElsewhere DEF FileSent
  <1>6. CASE RequestEnds
    BY <1>6 DEF RequestEnds, PathInvariant, PathTypes, Text
  <1>7. CASE get_full_path /\ UNCHANGED <<pc, confVars, lua, running, answer>>
    BY <1>7, PathDots, PathCharacter DEF get_full_path
  <1>8. CASE UNCHANGED vars
    BY <1>8, PathElsewhere DEF vars
  <1> QED
    BY <1>1, <1>2, <1>3, <1>4, <1>5, <1>6, <1>7, <1>8 DEF Next

LEMMA PathInvariantSuffices == PathInvariant => BelowLocation
  <1> USE DEF Text
  <1> SUFFICES ASSUME PathInvariant, PathDone, NEW n \in 1 .. Len(Name), ParentAt(Name, n)
               PROVE  FALSE
    BY DEF BelowLocation
  <1>1. /\ PathTypes /\ Len(newfile) = Len(path) + 1 /\ pos >= Len(path)
        /\ path # <<>> => newfile[1] # "."
        /\ DotsBeforeSlash
    BY DEF PathInvariant, PathDone
  <1>2. Len(Name) = Len(path) /\ \A k \in 1 .. Len(path) : Name[k] = newfile[k]
    BY <1>1 DEF Name, PathTypes
  <1>3. n < Len(path) /\ DotsAt(newfile, n) /\ (n = 1 \/ newfile[n - 1] = "/")
    BY <1>1, <1>2 DEF ParentAt, DotsAt, PathTypes
  <1>4. \A m \in 1 .. n : newfile[m] # "/"
    BY <1>1, <1>2, <1>3 DEF DotsBeforeSlash, PathTypes
  <1> QED
    BY <1>1, <1>2, <1>3, <1>4 DEF DotsAt, PathTypes

(* eva opens no file by a name with a component "..": for every path that   *)
(* does not begin with a dot, whatever the character after it is.           *)
THEOREM FilesBelowLocation == Spec => []BelowLocation
  <1>1. Spec => []PathInvariant
    BY PathInitially, PathKept, PTL DEF Spec
  <1> QED
    BY <1>1, PathInvariantSuffices, PTL

-----------------------------------------------------------------------------
(* The types of all variables.  No pool has more than the state it was made *)
(* with, and the walk along a path ends at most one character behind it.    *)

Phase == {"mimetypes", "scripts", "aborted", "overflow", "serve", "script", "path", "sent"}

(* A registered postfix is compared with no more characters than it has.    *)
MimetypesSound ==
  /\ pc \in Phase /\ mimeTable \in MimetypeTables /\ mimetypes \in Seq(Mimetype)
  /\ \A k \in DOMAIN mimetypes : mimetypes[k].postfix_size =< Len(mimetypes[k].postfix)

SlotsSound ==
  /\ heap \subseteq (1 .. Len(scripts)) \X {"pattern", "mimetype", "filename"}
  /\ \A k \in 0 .. rawlen : states[k].top \in {-1, 0} /\ states[k].filename # None
  /\ lua \in 0 .. rawlen \cup {None}

WalkSound ==
  /\ pos =< Len(path) + 1 /\ depth =< pos /\ depth =< Len(path)
  /\ pc \notin {"path", "sent"} => pos = 0 /\ depth = 0

Answer == [name : Text, type : TypeName]

AnswerSound == answer # None => pc = "sent" /\ answer \in Answer

LEMMA LoadingSteps ==
  ASSUME httpd_conf_load
  PROVE  /\ pc \in {"mimetypes", "scripts"}
         /\ pc' \in {"mimetypes", "scripts", "aborted", "overflow", "serve"}
         /\ UNCHANGED tableVars
         /\ UNCHANGED mimetypes \/ ReadMimetype
  BY DEF httpd_conf_load, load_scripts, ReadMimetype, MimetypeIsEmpty, MimetypesEnd, NoPattern,
         EntryIsWrong, NoScript, ScriptFails, ScriptLoads, StatesOverflow, ScriptsEnd, Reads,
         confVars

LEMMA MimetypesRead == ArrayTypeOK /\ MimetypesSound /\ [Next]_vars => MimetypesSound'
  <1> SUFFICES ASSUME ArrayTypeOK, MimetypesSound, [Next]_vars PROVE MimetypesSound'
    OBVIOUS
  <1>1. CASE ReadMimetype
    <2> DEFINE e == mimeTable[entry + 1]
               n == IF e.key = "number" THEN 0 ELSE Len(e.postfix)
    <2>1. /\ pc' = pc /\ mimeTable' = mimeTable /\ mimeTable # None /\ entry < Len(mimeTable)
          /\ mimetypes' = Append(mimetypes,
               [postfix |-> e.postfix, type |-> e.type, postfix_size |-> n])
      BY <1>1 DEF ReadMimetype, tableVars
    <2>2. PICK t : t = [postfix |-> e.postfix, type |-> e.type, postfix_size |-> n]
      OBVIOUS
    <2>3. e \in MimetypeEntry
      <3>1. mimeTable \in Seq(MimetypeEntry)
        BY <2>1, ConfAssumption DEF MimetypesSound
      <3>2. entry + 1 \in 1 .. Len(mimeTable)
        <4>1. entry \in Nat
          BY DEF ArrayTypeOK
        <4> QED
          BY <2>1, <3>1, <4>1
      <3> QED
        BY <3>1, <3>2
    <2>4. t \in Mimetype /\ t.postfix_size =< Len(t.postfix)
      BY <2>2, <2>3 DEF MimetypeEntry, Mimetype, Text
    <2>5. mimetypes' = Append(mimetypes, t)
      BY <2>1, <2>2
    <2>6. \A k \in DOMAIN mimetypes' : mimetypes'[k].postfix_size =< Len(mimetypes'[k].postfix)
      BY <2>4, <2>5 DEF MimetypesSound
    <2> QED
      BY <2>1, <2>4, <2>5, <2>6 DEF MimetypesSound
  <1>2. CASE UNCHANGED <<mimeTable, mimetypes>> /\ pc' \in Phase
    BY <1>2 DEF MimetypesSound
  <1>3. CASE httpd_conf_load
    BY <1>1, <1>2, <1>3, LoadingSteps DEF tableVars, Phase
  <1>4. CASE Next /\ ~httpd_conf_load
    BY <1>2, <1>4 DEF Next, ScriptStarts, ScriptEnds, FileStarts, FileSent, RequestEnds,
          get_full_path, DotsReplaced, CharacterKept, confVars, tableVars, MimetypesSound, Phase
  <1>5. CASE UNCHANGED vars
    BY <1>2, <1>5 DEF vars, confVars, tableVars, MimetypesSound
  <1> QED
    BY <1>3, <1>4, <1>5


(* The slot at hand, or that of the script, changes. *)
LEMMA OneSlot ==
  ASSUME ArrayTypeOK, SlotsSound, UNCHANGED tableVars, NEW k \in 0 .. rawlen,
         NEW x, states' = [states EXCEPT ![k] = x],
         x.top \in {-1, 0}, x.filename # None
  PROVE  \A j \in 0 .. rawlen : states'[j].top \in {-1, 0} /\ states'[j].filename # None
  BY DEF ArrayTypeOK, SlotsSound, tableVars

LEMMA StringsSound ==
  ASSUME At \in 1 .. Len(scripts), NEW F \in SUBSET {"pattern", "mimetype", "filename"}
  PROVE  Strings(F) \subseteq (1 .. Len(scripts)) \X {"pattern", "mimetype", "filename"}
  BY DEF Strings

LEMMA ReadingSlot ==
  ASSUME ArrayTypeOK, SlotsSound, Reads
  PROVE  /\ i \in 0 .. rawlen /\ states[i] \in SlotShape /\ At \in 1 .. Len(scripts)
         /\ states[i].top \in {-1, 0} /\ states[i].filename # None
  <1>1. rawlen \in Nat /\ Len(scripts) \in Nat
    BY ConfAssumption DEF ArrayTypeOK
  <1> QED
    BY <1>1 DEF ArrayTypeOK, SlotsSound, Reads, At

LEMMA SlotsLoaded ==
  ASSUME ArrayTypeOK, SlotsSound, load_scripts, UNCHANGED lua
  PROVE  SlotsSound'
  <1>1. CASE NoPattern
    <2>1. Reads /\ UNCHANGED <<tableVars, heap>>
      BY <1>1 DEF NoPattern
    <2>2. PICK x : x = [states[i] EXCEPT !.pattern = None]
      OBVIOUS
    <2>3. x.top = states[i].top /\ x.filename = states[i].filename
      BY <2>1, <2>2, ReadingSlot DEF SlotShape
    <2>4. states' = [states EXCEPT ![i] = x]
      BY <1>1, <2>1, <2>2, ReadingSlot DEF NoPattern, ArrayTypeOK
    <2> QED
      BY <2>1, <2>3, <2>4, ReadingSlot, OneSlot DEF SlotsSound, tableVars
  <1>2. CASE NoScript \/ ScriptFails
    <2>1. Reads /\ UNCHANGED tableVars
      BY <1>2 DEF NoScript, ScriptFails
    <2>2. PICK c \in {states[i].filename, At} : states' = [states EXCEPT ![i] = Filled(c)]
      BY <1>2 DEF NoScript, ScriptFails
    <2>3. c \in Pointer /\ c # None
      BY <2>1, ReadingSlot, SlotFields, ConfAssumption DEF Pointer
    <2>4. Filled(c).top \in {-1, 0}
      BY <2>1, <2>3, ReadingSlot, FilledSlot
    <2>5. Filled(c).filename = c
      BY <2>1, ReadingSlot DEF Filled, SlotShape
    <2>6. heap' \subseteq heap \cup Strings({"mimetype"})
      BY <1>2 DEF NoScript, ScriptFails
    <2>7. heap' \subseteq (1 .. Len(scripts)) \X {"pattern", "mimetype", "filename"}
      BY <2>1, <2>6, ReadingSlot, StringsSound DEF SlotsSound
    <2> QED
      BY <2>1, <2>2, <2>3, <2>4, <2>5, <2>7, ReadingSlot, OneSlot DEF SlotsSound, tableVars
  <1>3. CASE ScriptLoads
    <2>1. /\ Reads /\ UNCHANGED tableVars
          /\ heap' = heap \cup Strings({"pattern", "mimetype", "filename"})
          /\ states' = [states EXCEPT ![i] = [Filled(At) EXCEPT !.top = 0,
                                                       !.idle[0] = luaStates + 1]]
      BY <1>3 DEF ScriptLoads
    <2>2. PICK x : x = [Filled(At) EXCEPT !.top = 0, !.idle[0] = luaStates + 1]
      OBVIOUS
    <2>3. Filled(At) \in SlotShape /\ Filled(At).filename = At
      <3>1. At \in Nat /\ At \in Pointer /\ i \in 0 .. rawlen /\ states[i] \in SlotShape
        BY <2>1, ReadingSlot DEF Pointer
      <3>2. Filled(At) \in SlotShape
        BY <3>1, FilledSlot
      <3>3. Filled(At).filename = At
        BY <3>1 DEF Filled, SlotShape
      <3> QED
        BY <3>2, <3>3
    <2>4. x.top = 0 /\ x.filename = At
      BY <2>2, <2>3 DEF SlotShape
    <2>5. At # None
      BY <2>1, ReadingSlot, ConfAssumption
    <2>6. heap' \subseteq (1 .. Len(scripts)) \X {"pattern", "mimetype", "filename"}
      BY <2>1, ReadingSlot, StringsSound DEF SlotsSound
    <2> QED
      BY <2>1, <2>2, <2>4, <2>5, <2>6, ReadingSlot, OneSlot DEF SlotsSound, tableVars
  <1>4. CASE EntryIsWrong \/ StatesOverflow
    BY <1>4 DEF EntryIsWrong, StatesOverflow, SlotsSound, confVars, tableVars
  <1>5. CASE ScriptsEnd
    <2>1. UNCHANGED <<tableVars, heap>> /\ i =< rawlen
      BY <1>5 DEF ScriptsEnd
    <2>2. i \in 0 .. rawlen /\ states[i] \in SlotShape
      BY <2>1, ConfAssumption DEF ArrayTypeOK
    <2>3. PICK x : x = [states[i] EXCEPT !.pattern = None]
      OBVIOUS
    <2>4. x.top = states[i].top /\ x.filename = states[i].filename
      BY <2>2, <2>3 DEF SlotShape
    <2>5. states' = [states EXCEPT ![i] = x]
      BY <1>5, <2>2, <2>3 DEF ScriptsEnd, ArrayTypeOK
    <2> QED
      BY <2>1, <2>2, <2>4, <2>5, OneSlot DEF SlotsSound, tableVars
  <1> QED
    BY <1>1, <1>2, <1>3, <1>4, <1>5 DEF load_scripts

LEMMA SlotsKept == ServingInvariant /\ SlotsSound /\ [Next]_vars => SlotsSound'
  <1> SUFFICES ASSUME ServingInvariant, SlotsSound, [Next]_vars PROVE SlotsSound'
    OBVIOUS
  <1>1. ConfInvariant /\ TableInvariant /\ ArrayTypeOK
    BY DEF ServingInvariant, ConfInvariant, TableInvariant
  <1>2. CASE httpd_conf_load /\ UNCHANGED <<pathVars, lua, running, answer>>
    <2>1. CASE load_scripts
      BY <1>1, <1>2, <2>1, SlotsLoaded
    <2>2. CASE ReadMimetype \/ MimetypeIsEmpty \/ MimetypesEnd
      BY <1>2, <2>2 DEF ReadMimetype, MimetypeIsEmpty, MimetypesEnd, SlotsSound, confVars, tableVars
    <2> QED
      BY <1>2, <2>1, <2>2 DEF httpd_conf_load
  <1>3. CASE ScriptStarts
    <2>1. PICK s \in RequestPaths \ {<<>>} :
            get_script(s) # None /\ path' = s /\ lua' = get_script(s)
      BY <1>3 DEF ScriptStarts
    <2>2. /\ pc = "serve" /\ ~Loading /\ get_lua_state(lua')
          /\ UNCHANGED <<tableVars, heap>>
      BY <1>3 DEF ScriptStarts, Loading
    <2>3. PICK k \in 0 .. i - 1 : k = lua'
      BY <1>1, <2>1, <2>2, ScriptFound
    <2>4. i =< rawlen /\ i \in Nat /\ rawlen \in Nat
      BY <1>1, <2>2, WhileServing
    <2>5. k \in 0 .. rawlen /\ states[k] \in SlotShape
      BY <1>1, <2>3, <2>4 DEF ArrayTypeOK
    <2>6. PICK x : x = [states[k] EXCEPT !.top = -1]
      OBVIOUS
    <2>7. x.top = -1 /\ x.filename = states[k].filename
      BY <2>5, <2>6 DEF SlotShape
    <2>8. UNCHANGED states \/ states' = [states EXCEPT ![k] = x]
      <3>1. states[k].top = 0
        BY <1>1, <2>2, <2>3 DEF ConfInvariant, PoolsRight
      <3> QED
        BY <1>1, <2>2, <2>3, <2>5, <2>6, <3>1 DEF get_lua_state, ArrayTypeOK
    <2>9. \A j \in 0 .. rawlen : states'[j].top \in {-1, 0} /\ states'[j].filename # None
      BY <1>1, <2>2, <2>5, <2>7, <2>8, OneSlot DEF SlotsSound
    <2> QED
      BY <2>2, <2>3, <2>5, <2>9 DEF SlotsSound, tableVars
  <1>4. CASE ScriptEnds
    <2>1. /\ pc = "script" /\ ~Loading /\ return_lua_state(lua, running)
          /\ UNCHANGED <<tableVars, heap, lua>>
      BY <1>4 DEF ScriptEnds, Loading
    <2>2. PICK k \in 0 .. i - 1 : k = lua /\ states[k].top = -1
      BY <1>1, <2>1 DEF ConfInvariant, PoolsRight
    <2>3. i =< rawlen /\ i \in Nat /\ rawlen \in Nat
      BY <1>1, <2>1, WhileServing
    <2>4. k \in 0 .. rawlen /\ states[k] \in SlotShape
      BY <1>1, <2>2, <2>3 DEF ArrayTypeOK
    <2>5. PICK x : x = [states[k] EXCEPT !.top = 0, !.idle[0] = running]
      OBVIOUS
    <2>6. x.top = 0 /\ x.filename = states[k].filename
      BY <2>4, <2>5 DEF SlotShape
    <2>7. states' = [states EXCEPT ![k] = x]
      <3>1. -1 - 1 < StackSize /\ -1 + 1 = 0
        BY ConfAssumption
      <3>2. states' = [states EXCEPT ![k].top = @ + 1, ![k].idle[0] = running]
        BY <2>1, <2>2, <3>1 DEF return_lua_state
      <3> QED
        BY <1>1, <2>2, <2>4, <2>5, <3>1, <3>2 DEF ArrayTypeOK
    <2>8. \A j \in 0 .. rawlen : states'[j].top \in {-1, 0} /\ states'[j].filename # None
      BY <1>1, <2>1, <2>4, <2>6, <2>7, OneSlot DEF SlotsSound
    <2> QED
      BY <2>1, <2>8 DEF SlotsSound, tableVars
  <1>5. CASE \/ FileStarts \/ FileSent
             \/ get_full_path /\ UNCHANGED <<pc, confVars, lua, running, answer>>
    BY <1>5 DEF FileStarts, FileSent, SlotsSound, confVars, tableVars
  <1>6. CASE RequestEnds
    BY <1>6 DEF RequestEnds, SlotsSound, confVars, tableVars
  <1>7. CASE UNCHANGED vars
    BY <1>7 DEF vars, SlotsSound, confVars, tableVars
  <1> QED
    BY <1>2, <1>3, <1>4, <1>5, <1>6, <1>7 DEF Next

LEMMA WalkKept == PathInvariant /\ WalkSound /\ [Next]_vars => WalkSound'
  <1> SUFFICES ASSUME PathInvariant, WalkSound, [Next]_vars PROVE WalkSound'
    OBVIOUS
  <1>1. pos \in Nat /\ depth \in Nat /\ Len(path) \in Nat
    BY DEF PathInvariant, PathTypes, Text
  <1>2. CASE httpd_conf_load /\ UNCHANGED <<pathVars, lua, running, answer>>
    BY <1>2, LoadingSteps DEF WalkSound, pathVars
  <1>3. CASE ScriptStarts
    <2>1. PICK s \in RequestPaths : path' = s
      BY <1>3 DEF ScriptStarts
    <2>2. Len(path') \in Nat
      BY <2>1, PathAssumption DEF Text
    <2> QED
      BY <1>3, <2>2 DEF ScriptStarts, WalkSound
  <1>4. CASE ScriptEnds
    BY <1>4 DEF ScriptEnds, WalkSound, pathVars
  <1>5. CASE FileStarts
    <2>1. PICK s \in RequestPaths : PathStarts(s)
      BY <1>5 DEF FileStarts
    <2>2. Len(path') \in Nat /\ pos' = 0 /\ depth' = 0
      BY <2>1, PathAssumption DEF PathStarts, Text
    <2> QED
      BY <1>5, <2>2 DEF FileStarts, WalkSound
  <1>6. CASE FileSent
    BY <1>6 DEF FileSent, WalkSound, pathVars
  <1>7. CASE RequestEnds
    BY <1>7 DEF RequestEnds, WalkSound
  <1>8. CASE get_full_path /\ UNCHANGED <<pc, confVars, lua, running, answer>>
    <2>1. pc' = pc /\ pc = "path" /\ path' = path /\ pos < Len(path)
      BY <1>8 DEF get_full_path, DotsReplaced, CharacterKept, InPath
    <2>2. \/ pos' = pos + 2 /\ depth' = depth
          \/ pos' = pos + 1 /\ depth' \in {depth, depth + 1}
      BY <1>8 DEF get_full_path, DotsReplaced, CharacterKept
    <2> QED
      BY <1>1, <2>1, <2>2 DEF WalkSound
  <1>9. CASE UNCHANGED vars
    BY <1>9 DEF vars, WalkSound, pathVars
  <1> QED
    BY <1>2, <1>3, <1>4, <1>5, <1>6, <1>7, <1>8, <1>9 DEF Next

-----------------------------------------------------------------------------
(* The file that is sent.  What follows the last dot of a name does not     *)
(* depend on what stands before it, and the loop over the mimetypes stops   *)
(* at the first that fits.                                                  *)

LEMMA Largest ==
  ASSUME NEW n \in Nat, NEW S \in SUBSET (1 .. n), S # {}
  PROVE  \E x \in S : \A y \in S : y =< x
  <1> DEFINE T == {n - y : y \in S}
  <1>1. T \in SUBSET Nat /\ T # {}
    <2>1. \A y \in S : n - y \in Nat
      OBVIOUS
    <2> QED
      BY <2>1
  <1>2. PICK x \in T : \A y \in T : x =< y
    <2> HIDE DEF T
    <2> QED
      BY <1>1, LeastNatural
  <1>3. PICK z \in S : x = n - z
    BY <1>2
  <1>4. \A y \in S : n - z =< n - y
    BY <1>2, <1>3
  <1> QED
    BY <1>3, <1>4

LEMMA PostfixIs ==
  ASSUME NEW name \in Text
  PROVE  \/ Postfix(name) = None /\ \A n \in 1 .. Len(name) : name[n] # "."
         \/ \E n \in 1 .. Len(name) :
              /\ name[n] = "." /\ \A m \in 1 .. Len(name) : name[m] = "." => m =< n
              /\ Postfix(name) = SubSeq(name, n + 1, Len(name))
  <1> DEFINE dots == {n \in 1 .. Len(name) : name[n] = "."}
             last == CHOOSE n \in dots : \A m \in dots : m =< n
  <1>1. Postfix(name) = IF dots = {} THEN None ELSE SubSeq(name, last + 1, Len(name))
    BY DEF Postfix
  <1>2. CASE dots = {}
    BY <1>1, <1>2
  <1>3. CASE dots # {}
    <2>1. Len(name) \in Nat
      BY DEF Text
    <2>2. \E n \in dots : \A m \in dots : m =< n
      <3>1. dots \in SUBSET (1 .. Len(name))
        OBVIOUS
      <3> HIDE DEF dots
      <3> QED
        BY <1>3, <2>1, <3>1, Largest
    <2>3. last \in dots /\ \A m \in dots : m =< last
      <3> HIDE DEF dots
      <3> QED
        BY <2>2
    <2>4. /\ last \in 1 .. Len(name) /\ name[last] = "."
          /\ \A m \in 1 .. Len(name) : name[m] = "." => m =< last
      <3> HIDE DEF last
      <3> QED
        BY <2>3
    <2> HIDE DEF last
    <2> QED
      BY <1>1, <1>3, <2>4
  <1> QED
    BY <1>2, <1>3

LEMMA PostfixBehind ==
  ASSUME NEW s \in Text, NEW name \in Text, Postfix(name) # None
  PROVE  Postfix(s \o name) = Postfix(name)
  <1> USE DEF Text
  <1>1. PICK n \in 1 .. Len(name) :
          /\ name[n] = "." /\ \A m \in 1 .. Len(name) : name[m] = "." => m =< n
          /\ Postfix(name) = SubSeq(name, n + 1, Len(name))
    BY PostfixIs
  <1>2. /\ s \o name \in Text /\ Len(s \o name) = Len(s) + Len(name)
        /\ Len(s) \in Nat /\ Len(name) \in Nat
        /\ \A k \in 1 .. Len(name) : (s \o name)[Len(s) + k] = name[k]
    OBVIOUS
  <1> DEFINE t == s \o name
  <1>3. Len(s) + n \in 1 .. Len(t) /\ t[Len(s) + n] = "."
    BY <1>1, <1>2
  <1> HIDE DEF t
  <1>4. PICK k \in 1 .. Len(t) :
          /\ t[k] = "." /\ \A m \in 1 .. Len(t) : t[m] = "." => m =< k
          /\ Postfix(t) = SubSeq(t, k + 1, Len(t))
    BY <1>2, <1>3, PostfixIs DEF t
  <1>5. k = Len(s) + n
    <2>1. k >= Len(s) + n
      BY <1>3, <1>4
    <2>2. k - Len(s) \in 1 .. Len(name) /\ name[k - Len(s)] = "."
      BY <1>2, <1>4, <2>1 DEF t
    <2>3. k - Len(s) =< n
      BY <1>1, <2>2
    <2>4. k \in Nat /\ n \in Nat /\ Len(s) \in Nat
      BY <1>2 DEF t
    <2> QED
      BY ONLY <2>1, <2>3, <2>4
  <1>6. SubSeq(t, Len(s) + n + 1, Len(s) + Len(name)) = SubSeq(name, n + 1, Len(name))
    <2>1. CASE n = Len(name)
      <3> DEFINE a == Len(s)
                 b == Len(name)
      <3>1. a \in Nat /\ b \in Nat
        BY <1>2
      <3>2. t \in Seq(Char) /\ name \in Seq(Char)
        BY <1>2 DEF t
      <3> HIDE DEF a, b, t
      <3>3. SubSeq(t, a + b + 1, a + b) = <<>> /\ SubSeq(name, b + 1, b) = <<>>
        BY <3>1, <3>2
      <3> QED
        BY <2>1, <3>3 DEF a, b
    <2>2. CASE n < Len(name)
      <3>1. /\ Len(s) + n + 1 \in Len(s) + 1 .. Len(s) + Len(name)
            /\ Len(s) + Len(name) \in Len(s) + 1 .. Len(s) + Len(name)
            /\ (Len(s) + n + 1) - Len(s) = n + 1 /\ (Len(s) + Len(name)) - Len(s) = Len(name)
        BY <1>2, <2>2
      <3> QED
        BY <3>1, SubSeqOfConcat2 DEF t
    <2> QED
      BY <1>2, <2>1, <2>2
  <1> QED
    BY <1>1, <1>2, <1>4, <1>5, <1>6 DEF t

LEMMA MimetypeFound ==
  ASSUME MimetypesSound, NEW name \in Text
  PROVE  /\ get_mimetype(name) \in TypeName
         /\ \A k \in 1 .. Len(mimetypes) :
              /\ Postfix(name) = mimetypes[k].postfix
              /\ \A j \in 1 .. k - 1 : ~Fits(mimetypes[j], mimetypes[k].postfix)
              => get_mimetype(name) = mimetypes[k].type
  <1> DEFINE fitting == {k \in 1 .. Len(mimetypes) :
                           Postfix(name) # None /\ Fits(mimetypes[k], Postfix(name))}
             first == CHOOSE k \in fitting : \A j \in fitting : k =< j
  <1>1. get_mimetype(name) = IF fitting = {} THEN "application/octet-stream"
                             ELSE mimetypes[first].type
    BY DEF get_mimetype
  <1>2. ASSUME fitting # {}
        PROVE  first \in fitting /\ \A j \in fitting : first =< j
    <2>1. fitting \in SUBSET Nat
      BY DEF MimetypesSound
    <2>2. \E k \in fitting : \A j \in fitting : k =< j
      <3> HIDE DEF fitting
      <3> QED
        BY <1>2, <2>1, LeastNatural
    <2> HIDE DEF fitting
    <2> QED
      BY <2>2
  <1>3. get_mimetype(name) \in TypeName
    <2>1. CASE fitting # {}
      <3>1. first \in 1 .. Len(mimetypes)
        BY <1>2, <2>1
      <3> HIDE DEF first, fitting
      <3>2. mimetypes[first] \in Mimetype
        BY <3>1, ElementOfSeq DEF MimetypesSound
      <3>3. mimetypes[first].type \in TypeName
        BY <3>2 DEF Mimetype
      <3> QED
        BY <1>1, <2>1, <3>3
    <2>2. CASE fitting = {}
      <3> HIDE DEF first, fitting
      <3>1. "application/octet-stream" \in TypeName
        BY ConfAssumption
      <3> QED
        BY <1>1, <2>2, <3>1
    <2> QED
      BY <2>1, <2>2
  <1>4. ASSUME NEW k \in 1 .. Len(mimetypes), Postfix(name) = mimetypes[k].postfix,
               \A j \in 1 .. k - 1 : ~Fits(mimetypes[j], mimetypes[k].postfix)
        PROVE  get_mimetype(name) = mimetypes[k].type
    <2> HIDE DEF fitting, first
    <2>1. /\ mimetypes[k] \in Mimetype /\ mimetypes[k].postfix \in Text
          /\ mimetypes[k].postfix_size \in Nat
          /\ mimetypes[k].postfix_size =< Len(mimetypes[k].postfix)
      <3>1. mimetypes[k] \in Mimetype
        BY ElementOfSeq DEF MimetypesSound
      <3>2. k \in DOMAIN mimetypes
        BY DEF MimetypesSound
      <3> QED
        BY <3>1, <3>2 DEF MimetypesSound, Mimetype
    <2>2. Fits(mimetypes[k], mimetypes[k].postfix)
      <3> DEFINE t == mimetypes[k].postfix
                 n == mimetypes[k].postfix_size
      <3>1. t \in Seq(Char) /\ n \in 0 .. Len(t) /\ Len(t) \in Nat
        BY <2>1 DEF Text
      <3> HIDE DEF t, n
      <3>2. Len(SubSeq(t, 1, n)) = n /\ SubSeq(SubSeq(t, 1, n), 1, n) = SubSeq(t, 1, n)
        BY <3>1
      <3>3. IsPrefix(SubSeq(t, 1, n), t)
        BY <3>1, <3>2 DEF IsPrefix
      <3> QED
        BY <3>3 DEF Fits, t, n
    <2>3. k \in fitting
      BY <1>4, <2>1, <2>2, ConfAssumption DEF fitting
    <2>4. first \in fitting /\ \A j \in fitting : first =< j
      BY <1>2, <2>3
    <2>5. first = k
      <3> HIDE DEF first
      <3>1. first \in 1 .. Len(mimetypes) /\ first =< k /\ Fits(mimetypes[first], Postfix(name))
        BY <2>3, <2>4 DEF fitting
      <3>2. Len(mimetypes) \in Nat
        BY DEF MimetypesSound
      <3> QED
        BY <1>4, <3>1, <3>2
    <2> HIDE DEF first, fitting
    <2> QED
      BY <1>1, <2>3, <2>5
  <1> QED
    BY <1>3, <1>4

(* A path with no two dots in a row and none at the end is not changed: the *)
(* character behind it does not matter.                                     *)

PlainPath ==
  /\ path # <<>> /\ path[Len(path)] # "."
  /\ \A n \in 1 .. Len(path) - 1 : ~DotsAt(path, n)

PlainKept == pc = "path" /\ PlainPath => \A n \in 1 .. Len(path) : newfile[n] = path[n]

FileInvariant == PlainKept /\ AnswerSound /\ FileServed

LEMMA PlainBegins == ASSUME FileStarts PROVE PlainKept'
  <1>1. PICK s \in RequestPaths : PathStarts(s)
    BY DEF FileStarts
  <1>2. PICK c \in Char : newfile' = Append(s, c)
    BY <1>1 DEF PathStarts
  <1>3. path' = s /\ s \in Seq(Char)
    BY <1>1, PathAssumption DEF PathStarts, Text
  <1> QED
    BY <1>2, <1>3 DEF PlainKept

LEMMA PlainWalked ==
  ASSUME PathInvariant, PlainKept, get_full_path, UNCHANGED pc PROVE PlainKept'
  <1>1. /\ pc = "path" /\ pos < Len(path) /\ path' = path
        /\ \/ DotsAt(newfile, pos + 1) 
           \/ newfile' = newfile
    BY DEF get_full_path, DotsReplaced, CharacterKept, InPath
  <1>2. path \in Seq(Char) /\ pos \in Nat /\ Len(path) \in Nat
    BY DEF PathInvariant, PathTypes, Text
  <1>3. ASSUME PlainPath PROVE ~DotsAt(newfile, pos + 1)
    <2>1. \A n \in 1 .. Len(path) : newfile[n] = path[n]
      BY <1>1, <1>3 DEF PlainKept
    <2>2. CASE pos + 1 = Len(path)
      BY <1>2, <1>3, <2>1, <2>2 DEF PlainPath, DotsAt
    <2>3. CASE pos + 1 < Len(path)
      <3>1. pos + 1 \in 1 .. Len(path) - 1 /\ pos + 1 \in 1 .. Len(path)
            /\ (pos + 1) + 1 \in 1 .. Len(path)
        BY <1>2, <2>3
      <3> QED
        BY <1>3, <2>1, <3>1 DEF PlainPath, DotsAt
    <2> QED
      BY <1>1, <1>2, <2>2, <2>3
  <1>4. PlainPath' <=> PlainPath
    BY <1>1 DEF PlainPath, DotsAt
  <1> QED
    BY <1>1, <1>3, <1>4 DEF PlainKept

(* The file that http_send_file opens for such a path. *)
LEMMA PlainName ==
  ASSUME PathInvariant, PlainKept, PlainPath, PathDone
  PROVE  Name = path /\ (IsDirectory <=> path[Len(path)] = "/")
  <1>1. /\ path \in Seq(Char) /\ newfile \in Seq(Char) /\ Len(newfile) = Len(path) + 1
        /\ \A n \in 1 .. Len(path) : newfile[n] = path[n]
    BY DEF PathInvariant, PathTypes, PathDone, PlainKept, Text
  <1>2. Name \in Seq(Char) /\ Len(Name) = Len(path)
        /\ \A n \in 1 .. Len(path) : Name[n] = newfile[n]
    BY <1>1 DEF Name
  <1>3. Name = path
    BY <1>1, <1>2, SeqEqual
  <1>4. path # <<>> /\ Len(path) \in 1 .. Len(path)
    BY <1>1 DEF PlainPath
  <1> QED
    BY <1>1, <1>3, <1>4 DEF IsDirectory

LEMMA NameIsText ==
  ASSUME PathInvariant, PathDone PROVE FullPath \in Text
  <1>1. path \in Seq(Char) /\ newfile \in Seq(Char) /\ Len(newfile) = Len(path) + 1
    BY DEF PathInvariant, PathTypes, PathDone, Text
  <1>2. Name \in Seq(Char)
    BY <1>1 DEF Name
  <1>3. (IF IsDirectory THEN DefaultFile ELSE <<>>) \in Seq(Char)
    BY LocationAssumption DEF Text
  <1>4. Location \in Seq(Char)
    BY LocationAssumption DEF Text
  <1> QED
    BY <1>2, <1>3, <1>4 DEF FullPath, Text

LEMMA FileAnswers ==
  ASSUME PathInvariant, MimetypesSound, FileInvariant, FileSent
  PROVE  FileInvariant'
  <1>1. /\ PathDone /\ pc' = "sent" /\ UNCHANGED <<confVars, pathVars>>
        /\ answer' = None \/ answer' = [name |-> FullPath, type |-> get_mimetype(FullPath)]
    BY DEF FileSent
  <1>2. FullPath \in Text /\ get_mimetype(FullPath) \in TypeName
    BY <1>1, NameIsText, MimetypeFound
  <1>3. PlainKept' /\ AnswerSound'
    BY <1>1, <1>2 DEF PlainKept, AnswerSound, Answer
  <1>4. ASSUME answer' # None, PlainPath,
               NEW name, name = path \o IF path[Len(path)] = "/" THEN DefaultFile ELSE <<>>
        PROVE  /\ answer'.name = Location \o name
               /\ \A k \in 1 .. Len(mimetypes) :
                    /\ Postfix(name) = mimetypes[k].postfix
                    /\ \A j \in 1 .. k - 1 : ~Fits(mimetypes[j], mimetypes[k].postfix)
                    => answer'.type = mimetypes[k].type
    <2>1. answer'.name = FullPath /\ answer'.type = get_mimetype(FullPath)
      BY <1>1, <1>4
    <2>2. FullPath = Location \o name /\ name \in Text
      <3> DEFINE u == IF path[Len(path)] = "/" THEN DefaultFile ELSE <<>>
      <3>1. path \in Seq(Char) /\ Location \in Seq(Char) /\ u \in Seq(Char)
        BY LocationAssumption DEF PathInvariant, PathTypes, Text
      <3>2. FullPath = (Location \o path) \o u
        <4>1. Name = path /\ (IsDirectory <=> path[Len(path)] = "/")
          BY <1>1, <1>4, PlainName DEF FileInvariant
        <4> QED
          BY <4>1 DEF FullPath
      <3>3. name = path \o u
        BY <1>4
      <3> HIDE DEF u
      <3>4. (Location \o path) \o u = Location \o (path \o u) /\ path \o u \in Seq(Char)
        BY <3>1, ConcatAssociative
      <3> QED
        BY <3>2, <3>3, <3>4 DEF Text
    <2>3. ASSUME NEW k \in 1 .. Len(mimetypes), Postfix(name) = mimetypes[k].postfix,
                 \A j \in 1 .. k - 1 : ~Fits(mimetypes[j], mimetypes[k].postfix)
          PROVE  get_mimetype(FullPath) = mimetypes[k].type
      <3>1. mimetypes[k] \in Mimetype
        BY ElementOfSeq DEF MimetypesSound
      <3>2. Postfix(name) # None
        BY <2>3, <3>1, ConfAssumption DEF Mimetype
      <3>3. Postfix(FullPath) = mimetypes[k].postfix
        BY <2>2, <2>3, <3>2, LocationAssumption, PostfixBehind
      <3> QED
        BY <1>2, <2>3, <3>3, MimetypeFound
    <2> QED
      BY <2>1, <2>2, <2>3
  <1>5. FileServed'
    <2> SUFFICES ASSUME answer' # None, path # <<>>, path[Len(path)] # ".",
                        \A n \in 1 .. Len(path) - 1 : ~DotsAt(path, n),
                        NEW name, name = path \o IF path[Len(path)] = "/" THEN DefaultFile ELSE <<>>
                 PROVE  /\ answer'.name = Location \o name
                        /\ \A k \in 1 .. Len(mimetypes) :
                             /\ Postfix(name) = mimetypes[k].postfix
                             /\ \A j \in 1 .. k - 1 : ~Fits(mimetypes[j], mimetypes[k].postfix)
                             => answer'.type = mimetypes[k].type
      BY <1>1 DEF FileServed, pathVars, confVars, DotsAt, Fits
    <2>1. PlainPath
      BY DEF PlainPath
    <2> QED
      BY <1>4, <2>1
  <1> QED
    BY <1>3, <1>5 DEF FileInvariant

(* A step of another kind leaves no answer, or leaves it alone. *)
LEMMA AnswerElsewhere ==
  ASSUME FileInvariant, pc' # "path", pc' # "sent", pc # "sent", UNCHANGED answer
  PROVE  FileInvariant'
  BY DEF FileInvariant, PlainKept, AnswerSound, FileServed

LEMMA FileKept ==
  PathInvariant /\ MimetypesSound /\ FileInvariant /\ [Next]_vars => FileInvariant'
  <1> SUFFICES ASSUME PathInvariant, MimetypesSound, FileInvariant, [Next]_vars
               PROVE  FileInvariant'
    OBVIOUS
  <1>1. CASE httpd_conf_load /\ UNCHANGED <<pathVars, lua, running, answer>>
    BY <1>1, LoadingSteps, AnswerElsewhere
  <1>2. CASE ScriptStarts
    BY <1>2, AnswerElsewhere DEF ScriptStarts
  <1>3. CASE ScriptEnds
    <2>1. answer' = None
      BY <1>3 DEF ScriptEnds, FileInvariant, AnswerSound
    <2> QED
      BY <1>3, <2>1 DEF ScriptEnds, FileInvariant, PlainKept, AnswerSound, FileServed
  <1>4. CASE FileStarts
    <2>1. answer' = None
      BY <1>4 DEF FileStarts, FileInvariant, AnswerSound
    <2> QED
      BY <1>4, <2>1, PlainBegins DEF FileInvariant, AnswerSound, FileServed
  <1>5. CASE FileSent
    BY <1>5, FileAnswers
  <1>6. CASE RequestEnds
    BY <1>6 DEF RequestEnds, FileInvariant, PlainKept, AnswerSound, FileServed
  <1>7. CASE get_full_path /\ UNCHANGED <<pc, confVars, lua, running, answer>>
    <2>1. pc = "path" /\ pc' = pc /\ answer' = answer
      BY <1>7 DEF get_full_path, DotsReplaced, CharacterKept, InPath
    <2>2. answer' = None
      BY <2>1 DEF FileInvariant, AnswerSound
    <2> QED
      BY <1>7, <2>2, PlainWalked DEF FileInvariant, AnswerSound, FileServed
  <1>8. CASE UNCHANGED vars
    <2>1. UNCHANGED <<pc, path, newfile, answer, mimetypes>>
      BY <1>8 DEF vars, confVars, pathVars
    <2> QED
      BY <2>1 DEF FileInvariant, PlainKept, PlainPath, AnswerSound, FileServed, DotsAt, Fits
  <1> QED
    BY <1>1, <1>2, <1>3, <1>4, <1>5, <1>6, <1>7, <1>8 DEF Next

(* All that is known of a state of eva. *)
EvaState ==
  /\ ServingInvariant /\ PathInvariant
  /\ MimetypesSound /\ SlotsSound /\ WalkSound /\ FileInvariant

LEMMA EvaStarts == Init => EvaState
  <1> SUFFICES ASSUME Init PROVE EvaState
    OBVIOUS
  <1>1. MimetypesSound
    <2>1. /\ pc = "mimetypes" /\ mimeTable \in MimetypeTables
          /\ mimetypes = IF mimeTable = None THEN default_mimetypes ELSE <<>>
      BY DEF Init, ConfInit
    <2>2. CASE mimeTable = None
      BY <2>1, <2>2, ConfAssumption DEF MimetypesSound, Phase
    <2>3. CASE mimeTable # None
      BY <2>1, <2>3 DEF MimetypesSound, Phase
    <2> QED
      BY <2>2, <2>3
  <1>2. SlotsSound
    <2>1. /\ heap = {} /\ lua = None /\ states = [k \in 0 .. rawlen |-> Uninitialised]
      BY DEF Init, ConfInit
    <2>2. Uninitialised.top = -1 /\ Uninitialised.filename # None
      BY ConfAssumption DEF Uninitialised, Junk
    <2> QED
      BY <2>1, <2>2 DEF SlotsSound
  <1>3. WalkSound
    BY DEF Init, PathInit, WalkSound
  <1>4. FileInvariant
    BY DEF Init, ConfInit, FileInvariant, PlainKept, AnswerSound, FileServed
  <1> QED
    BY <1>1, <1>2, <1>3, <1>4, ServingInitially, PathInitially DEF EvaState

LEMMA EvaStep == EvaState /\ [Next]_vars => EvaState'
  <1> SUFFICES ASSUME EvaState, [Next]_vars PROVE EvaState'
    OBVIOUS
  <1>1. ArrayTypeOK
    BY DEF EvaState, ServingInvariant, ConfInvariant, TableInvariant
  <1> QED
    BY <1>1, ServingKept, PathKept, MimetypesRead, SlotsKept, WalkKept, FileKept DEF EvaState

LEMMA TypesHold == EvaState => TypeOK
  <1> SUFFICES ASSUME EvaState PROVE TypeOK
    OBVIOUS
  <1>1. ArrayTypeOK /\ PoolsRight
    BY DEF EvaState, ServingInvariant, ConfInvariant, TableInvariant
  <1>2. rawlen \in Nat
    BY <1>1, ConfAssumption DEF ArrayTypeOK
  <1>3. states \in [0 .. rawlen -> Slot]
    <2>1. ASSUME NEW k \in 0 .. rawlen PROVE states[k] \in Slot
      <3>1. states[k] \in SlotShape /\ states[k].top \in {-1, 0} /\ states[k].filename # None
        BY <1>1 DEF ArrayTypeOK, EvaState, SlotsSound
      <3>2. states[k].top \in -1 .. StackSize + 1
        BY <3>1, ConfAssumption
      <3> QED
        BY <3>1, <3>2 DEF SlotShape, Slot, Pointer, Pool
    <2> QED
      BY <1>1, <2>1 DEF ArrayTypeOK
  <1>4. running \in 1 .. luaStates \cup {None}
    BY <1>1 DEF PoolsRight
  <1>5. pos \in 0 .. Len(path) + 1 /\ depth \in 0 .. Len(path) /\ path \in Text /\ newfile \in Text
    BY DEF EvaState, PathInvariant, PathTypes, WalkSound, Text
  <1>6. lua \in DOMAIN states \cup {None}
    BY <1>3 DEF EvaState, SlotsSound
  <1>7. answer = None \/ answer \in [name : Text, type : TypeName]
    BY DEF EvaState, FileInvariant, AnswerSound, Answer
  <1> QED
    BY <1>1, <1>3, <1>4, <1>5, <1>6, <1>7
       DEF TypeOK, EvaState, MimetypesSound, SlotsSound, ArrayTypeOK, Phase

LEMMA AlwaysEvaState == Spec => []EvaState
  BY EvaStarts, EvaStep, PTL DEF Spec

(* The types of all variables, for every configuration and all paths: no    *)
(* pool's index comes near the end of its table and the walk along a path   *)
(* leaves it by at most one character.                                      *)
THEOREM ServingTypes == Spec => []TypeOK
  BY AlwaysEvaState, TypesHold, PTL

(* For every configuration and path: a path without ".." that does not end  *)
(* in a dot is answered with its own file, and with the mimetype registered *)
(* for its postfix unless an earlier entry begins it.                       *)
THEOREM OwnFileServed == Spec => []FileServed
  <1>1. EvaState => FileServed
    BY DEF EvaState, FileInvariant
  <1> QED
    BY <1>1, AlwaysEvaState, PTL
=============================================================================
