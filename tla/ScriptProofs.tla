----------------------------- MODULE ScriptProofs -----------------------------
(***************************************************************************)
(* Proofs about Serving: the table of scripts and the pools of Lua states,  *)
(* for all configurations and all request paths.                            *)
(***************************************************************************)
EXTENDS Serving, WellFoundedInduction, TLAPS

-----------------------------------------------------------------------------
(* The slots up to i are those of the accepted scripts among the entries    *)
(* read so far, in order; after loading, all entries have been read and a   *)
(* terminator follows.                                                      *)

Pointer == Nat \cup {Junk, None}

Pool == [0 .. StackSize - 1 -> Nat \cup {Junk}]

SlotShape == [pattern : Pointer, mimetype : Pointer, filename : Pointer,
              top : Int, idle : Pool]

ArrayTypeOK ==
  /\ scripts \in ScriptTables /\ rawlen \in 0 .. Len(scripts)
  /\ i \in 0 .. rawlen + 1 /\ luaStates \in Nat
  /\ states \in [0 .. rawlen -> SlotShape]
  /\ pc = "mimetypes" => i = 0 /\ heap = {}
  /\ entry \in Nat

(* Entries of the scripts that have been read. *)
Upto == IF pc = "mimetypes" THEN 0 ELSE entry

SlotsAccepted ==
  \A k \in 0 .. i - 1 :
    /\ states[k].pattern \in Accepted /\ states[k].pattern =< Upto
    /\ states[k].mimetype =
         IF scripts[states[k].pattern].mimetype = "given" THEN states[k].pattern ELSE None

SlotsSorted ==
  \A j, k \in 0 .. i - 1 : j < k => states[j].pattern < states[k].pattern

AcceptedKept ==
  \A n \in Accepted : n =< Upto => \E k \in 0 .. i - 1 : states[k].pattern = n

SlotsInOrder ==
  /\ Upto =< Len(scripts) /\ i =< Upto
  /\ SlotsAccepted /\ SlotsSorted /\ AcceptedKept

(* The strings that are kept of the entries read. *)
Kept(n, f) ==
  /\ scripts[n].pattern # None
  /\ \/ f = "mimetype" /\ scripts[n].mimetype = "given" /\ scripts[n].script \in {"none", "loads"}
     \/ f \in {"pattern", "filename"} /\ scripts[n].script = "loads"

HeapLive ==
  /\ heap \subseteq (1 .. Len(scripts)) \X {"pattern", "mimetype", "filename"}
  /\ \A n \in 1 .. Len(scripts), f \in {"pattern", "mimetype", "filename"} :
       <<n, f>> \in heap <=> n =< Upto /\ Kept(n, f)

Ended ==
  /\ pc = "overflow" => i > rawlen
  /\ ~Loading => i =< rawlen /\ states[i].pattern = None /\ entry = Len(scripts)

TableInvariant ==
  /\ ArrayTypeOK
  /\ pc # "aborted" => SlotsInOrder /\ HeapLive /\ Ended

(* The updates of a slot. *)
LEMMA PatternSet ==
  ASSUME NEW x \in SlotShape, NEW a \in Pointer
  PROVE  [x EXCEPT !.pattern = a] \in SlotShape
  BY DEF SlotShape

LEMMA SlotMade ==
  ASSUME NEW a \in Pointer, NEW b \in Pointer, NEW c \in Pointer, NEW t \in Int, NEW l \in Pool
  PROVE  [pattern |-> a, mimetype |-> b, filename |-> c, top |-> t, idle |-> l] \in SlotShape
  BY DEF SlotShape

LEMMA SlotFields ==
  ASSUME NEW x \in SlotShape
  PROVE  /\ x.pattern \in Pointer /\ x.mimetype \in Pointer /\ x.filename \in Pointer
         /\ x.top \in Int /\ x.idle \in Pool
  BY DEF SlotShape

LEMMA SlotFilled ==
  ASSUME NEW x \in SlotShape, NEW a \in Pointer, NEW b \in Pointer, NEW c \in Pointer
  PROVE  [x EXCEPT !.pattern = a, !.filename = c, !.mimetype = b] =
           [pattern |-> a, mimetype |-> b, filename |-> c, top |-> x.top, idle |-> x.idle]
  <1>1. PICK y : y = [x EXCEPT !.pattern = a, !.filename = c, !.mimetype = b]
    OBVIOUS
  <1>2. y = [pattern |-> a, mimetype |-> b, filename |-> c, top |-> x.top, idle |-> x.idle]
    BY <1>1 DEF SlotShape
  <1> QED
    BY <1>1, <1>2

LEMMA StatePushed ==
  ASSUME NEW x \in SlotShape, NEW L \in Nat
  PROVE  LET y == [x EXCEPT !.top = 0, !.idle[0] = L]
         IN  /\ y \in SlotShape /\ y.pattern = x.pattern /\ y.mimetype = x.mimetype
             /\ y.top = 0 /\ y.idle[0] = L
  <1> DEFINE l == [x.idle EXCEPT ![0] = L]
  <1>1. PICK y : y = [x EXCEPT !.top = 0, !.idle[0] = L]
    OBVIOUS
  <1>2. y = [pattern |-> x.pattern, mimetype |-> x.mimetype, filename |-> x.filename,
             top |-> 0, idle |-> l]
    BY <1>1 DEF SlotShape
  <1>3. l \in Pool /\ l[0] = L
    BY SlotFields, ConfAssumption DEF Pool
  <1>4. y \in SlotShape
    <2> HIDE DEF l
    <2> QED
      BY ONLY <1>2, <1>3, SlotFields, SlotMade
  <1>5. /\ y \in SlotShape /\ y.pattern = x.pattern /\ y.mimetype = x.mimetype
        /\ y.top = 0 /\ y.idle[0] = L
    BY <1>2, <1>3, <1>4
  <1> QED
    BY <1>1, <1>5, Zenon

LEMMA StatePopped ==
  ASSUME NEW x \in SlotShape
  PROVE  LET y == [x EXCEPT !.top = -1]
         IN  /\ y \in SlotShape /\ y.pattern = x.pattern /\ y.mimetype = x.mimetype
             /\ y.top = -1 /\ y.idle = x.idle
  <1>1. PICK y : y = [x EXCEPT !.top = -1]
    OBVIOUS
  <1>2. /\ y \in SlotShape /\ y.pattern = x.pattern /\ y.mimetype = x.mimetype
        /\ y.top = -1 /\ y.idle = x.idle
    BY <1>1 DEF SlotShape
  <1> QED
    BY <1>1, <1>2, Zenon

LEMMA TableInitially == Init => TableInvariant
  <1> SUFFICES ASSUME Init PROVE TableInvariant
    OBVIOUS
  <1>1. /\ pc = "mimetypes" /\ scripts \in ScriptTables /\ rawlen \in 0 .. Len(scripts)
        /\ entry = 0 /\ i = 0 /\ heap = {} /\ luaStates = 0
        /\ states = [k \in 0 .. rawlen |-> Uninitialised]
    BY DEF Init, ConfInit
  <1>2. Len(scripts) \in Nat
    BY <1>1, ConfAssumption
  <1>3. Uninitialised \in SlotShape
    BY DEF Uninitialised, SlotShape, Pool, Pointer, Junk
  <1>4. ArrayTypeOK
    BY <1>1, <1>2, <1>3 DEF ArrayTypeOK
  <1>5. SlotsInOrder /\ HeapLive /\ Ended
    BY <1>1, <1>2 DEF SlotsInOrder, SlotsAccepted, SlotsSorted, AcceptedKept, HeapLive, Ended,
                      Upto, Accepted, Loading
  <1> QED
    BY <1>4, <1>5 DEF TableInvariant

(* What a step of load_scripts starts from. *)
LEMMA Reading ==
  ASSUME TableInvariant, Reads
  PROVE  /\ ArrayTypeOK /\ SlotsInOrder /\ HeapLive /\ Upto = entry
         /\ Len(scripts) \in Nat /\ At \in 1 .. Len(scripts) /\ i \in 0 .. rawlen
         /\ states[i] \in SlotShape
  <1>1. pc = "scripts" /\ entry < Len(scripts) /\ i =< rawlen
    BY DEF Reads
  <1>2. ArrayTypeOK /\ SlotsInOrder /\ HeapLive
    BY <1>1 DEF TableInvariant
  <1>3. Len(scripts) \in Nat
    BY <1>2, ConfAssumption DEF ArrayTypeOK
  <1> QED
    BY <1>1, <1>2, <1>3 DEF ArrayTypeOK, Upto, At

(* An entry is refused: only the slot at hand has changed.                  *)
LEMMA Refused ==
  ASSUME TableInvariant, Reads, pc' = pc, UNCHANGED tableVars, i' = i,
         At \notin Accepted, luaStates' \in Nat,
         NEW x \in SlotShape, states' = [states EXCEPT ![i] = x]
  PROVE  ArrayTypeOK' /\ SlotsInOrder' /\ Ended'
  <1>1. /\ ArrayTypeOK /\ SlotsInOrder /\ Upto = entry
        /\ Len(scripts) \in Nat /\ At \in 1 .. Len(scripts) /\ i \in 0 .. rawlen
    BY Reading
  <1>2. pc = "scripts" /\ entry' = At
    BY DEF Reads
  <1>3. Upto' = At /\ At = Upto + 1 /\ Accepted' = Accepted /\ Upto \in Nat
    BY <1>1, <1>2 DEF Upto, At, Accepted, tableVars, ArrayTypeOK
  <1>4. ArrayTypeOK'
    BY <1>1, <1>2 DEF ArrayTypeOK, tableVars
  <1>5. \A k \in 0 .. i - 1 : states'[k] = states[k]
    BY <1>1 DEF ArrayTypeOK
  <1>6. SlotsInOrder'
    <2>1. Upto' =< Len(scripts') /\ i' =< Upto'
      BY <1>1, <1>3 DEF SlotsInOrder, tableVars
    <2>2. SlotsAccepted'
      <3>1. ASSUME NEW k \in 0 .. i - 1
            PROVE  states[k].pattern \in Accepted /\ states[k].pattern =< At
        BY <1>1, <1>3 DEF SlotsInOrder, SlotsAccepted, Accepted
      <3> QED
        BY <1>1, <1>3, <1>5, <3>1 DEF SlotsInOrder, SlotsAccepted, tableVars
    <2>3. SlotsSorted'
      BY <1>1, <1>5 DEF SlotsInOrder, SlotsSorted
    <2>4. AcceptedKept'
      <3> SUFFICES ASSUME NEW n \in Accepted, n =< At
                   PROVE  \E k \in 0 .. i - 1 : states'[k].pattern = n
        BY <1>3 DEF AcceptedKept
      <3>1. n =< Upto
        BY <1>1, <1>3 DEF Accepted
      <3>2. PICK k \in 0 .. i - 1 : states[k].pattern = n
        BY <1>1, <3>1 DEF SlotsInOrder, AcceptedKept
      <3> QED
        BY <1>5, <3>2
    <2> QED
      BY <2>1, <2>2, <2>3, <2>4 DEF SlotsInOrder
  <1>7. Ended'
    BY <1>2 DEF Ended, Loading
  <1> QED
    BY <1>4, <1>6, <1>7

(* The strings of one more entry. *)
LEMMA HeapReads ==
  ASSUME TableInvariant, Reads, pc' = pc, UNCHANGED tableVars,
         NEW S \in SUBSET {"pattern", "mimetype", "filename"},
         heap' = heap \cup {<<At, f>> : f \in S},
         \A f \in {"pattern", "mimetype", "filename"} : f \in S <=> Kept(At, f)
  PROVE  HeapLive'
  <1>1. /\ HeapLive /\ Upto = entry
        /\ Len(scripts) \in Nat /\ At \in 1 .. Len(scripts) /\ At = entry + 1
    BY Reading DEF At
  <1>2. pc = "scripts" /\ entry' = At
    BY DEF Reads
  <1>3. Upto' = At /\ scripts' = scripts
    BY <1>2 DEF Upto, tableVars
  <1>4. heap' \subseteq (1 .. Len(scripts)) \X {"pattern", "mimetype", "filename"}
    BY <1>1 DEF HeapLive
  <1>5. ASSUME NEW n \in 1 .. Len(scripts),
               NEW f \in {"pattern", "mimetype", "filename"}
        PROVE  <<n, f>> \in heap' <=> n =< At /\ Kept(n, f)
    <2>1. <<n, f>> \in heap' <=> <<n, f>> \in heap \/ (n = At /\ f \in S)
      OBVIOUS
    <2>2. <<n, f>> \in heap <=> n =< entry /\ Kept(n, f)
      BY <1>1 DEF HeapLive
    <2>3. entry \in Nat
      BY Reading DEF ArrayTypeOK
    <2> HIDE DEF Kept
    <2> QED
      BY <1>1, <2>1, <2>2, <2>3
  <1> QED
    BY <1>3, <1>4, <1>5 DEF HeapLive, Kept

(* An entry is accepted: the slot at hand is filled and counted.            *)
LEMMA Taken ==
  ASSUME TableInvariant, Reads, pc' = pc, UNCHANGED tableVars, i' = i + 1,
         At \in Accepted, luaStates' \in Nat,
         NEW x \in SlotShape, states' = [states EXCEPT ![i] = x],
         x.pattern = At,
         x.mimetype = IF scripts[At].mimetype = "given" THEN At ELSE None
  PROVE  ArrayTypeOK' /\ SlotsInOrder' /\ Ended'
  <1>1. /\ ArrayTypeOK /\ SlotsInOrder /\ Upto = entry
        /\ Len(scripts) \in Nat /\ At \in 1 .. Len(scripts) /\ i \in 0 .. rawlen
    BY Reading
  <1>2. pc = "scripts" /\ entry' = At
    BY DEF Reads
  <1>3. Upto' = At /\ At = Upto + 1 /\ Accepted' = Accepted /\ Upto \in Nat
    BY <1>1, <1>2 DEF Upto, At, Accepted, tableVars, ArrayTypeOK
  <1>4. ArrayTypeOK'
    BY <1>1, <1>2 DEF ArrayTypeOK, tableVars
  <1>5. \A k \in 0 .. i : states'[k] = IF k = i THEN x ELSE states[k]
    BY <1>1 DEF ArrayTypeOK
  <1>6. SlotsInOrder'
    <2>1. Upto' =< Len(scripts') /\ i' =< Upto'
      BY <1>1, <1>3 DEF SlotsInOrder, tableVars
    <2>2. \A k \in 0 .. i - 1 :
            /\ states'[k] = states[k] /\ states[k].pattern \in Accepted
            /\ states[k].pattern \in Nat /\ states[k].pattern < At
      <3>1. ASSUME NEW k \in 0 .. i - 1
            PROVE  states[k].pattern \in Accepted /\ states[k].pattern =< Upto
        BY <1>1 DEF SlotsInOrder, SlotsAccepted
      <3> QED
        BY <1>1, <1>3, <1>5, <3>1 DEF Accepted
    <2>3. 0 .. i' - 1 = 0 .. i /\ states'[i] = x /\ scripts' = scripts
      BY <1>1, <1>5 DEF tableVars
    <2>4. SlotsAccepted'
      <3>1. ASSUME NEW k \in 0 .. i
            PROVE  /\ states'[k].pattern \in Accepted /\ states'[k].pattern =< At
                   /\ states'[k].mimetype =
                        IF scripts[states'[k].pattern].mimetype = "given"
                        THEN states'[k].pattern ELSE None
        <4>1. CASE k = i
          BY <1>1, <2>3, <4>1
        <4>2. CASE k \in 0 .. i - 1
          BY <1>1, <2>2, <4>2 DEF SlotsInOrder, SlotsAccepted
        <4> QED
          BY <1>1, <4>1, <4>2
      <3>2. ASSUME NEW k \in (0 .. i - 1)'
            PROVE  /\ states'[k].pattern \in Accepted' /\ states'[k].pattern =< Upto'
                   /\ states'[k].mimetype =
                        IF scripts'[states'[k].pattern].mimetype = "given"
                        THEN states'[k].pattern ELSE None
        <4>1. k \in 0 .. i
          BY <2>3
        <4>2. states'[k].pattern \in Accepted'
          BY <1>3, <3>1, <4>1
        <4>3. states'[k].pattern =< Upto'
          BY <1>3, <3>1, <4>1
        <4>4. states'[k].mimetype =
                        IF scripts'[states'[k].pattern].mimetype = "given"
                        THEN states'[k].pattern ELSE None
          BY <2>3, <3>1, <4>1
        <4> QED
          BY <4>2, <4>3, <4>4
      <3> QED
        BY <3>2 DEF SlotsAccepted
    <2>5. SlotsSorted'
      <3> SUFFICES ASSUME NEW j \in 0 .. i, NEW k \in 0 .. i, j < k
                   PROVE  states'[j].pattern < states'[k].pattern
        BY <2>3 DEF SlotsSorted
      <3>1. j \in 0 .. i - 1
        BY <1>1
      <3>2. CASE k = i
        BY <2>2, <2>3, <3>1, <3>2
      <3>3. CASE k \in 0 .. i - 1
        BY <1>1, <2>2, <3>1, <3>3 DEF SlotsInOrder, SlotsSorted
      <3> QED
        BY <1>1, <3>2, <3>3
    <2>6. AcceptedKept'
      <3> SUFFICES ASSUME NEW n \in Accepted, n =< At
                   PROVE  \E k \in 0 .. i : states'[k].pattern = n
        BY <1>3, <2>3 DEF AcceptedKept
      <3>1. CASE n = At
        BY <1>1, <2>3, <3>1
      <3>2. CASE n # At
        <4>1. n =< Upto
          BY <1>1, <1>3, <3>2 DEF Accepted
        <4>2. PICK k \in 0 .. i - 1 : states[k].pattern = n
          BY <1>1, <4>1 DEF SlotsInOrder, AcceptedKept
        <4>3. k \in 0 .. i /\ states'[k] = states[k]
          BY <1>1, <1>5
        <4> QED
          BY <4>2, <4>3
      <3> QED
        BY <3>1, <3>2
    <2> QED
      BY <2>1, <2>4, <2>5, <2>6 DEF SlotsInOrder
  <1>7. Ended'
    BY <1>2 DEF Ended, Loading
  <1> QED
    BY <1>4, <1>6, <1>7

-----------------------------------------------------------------------------
(* A Lua state is in the pool it was made for, or it runs.  There is one    *)
(* for each script, so that the pools are never empty when a request comes  *)
(* and get_lua_state never makes another: the server has one thread.        *)

PoolsRight ==
  /\ \A k \in 0 .. i - 1 :
       /\ states[k].idle[0] \in 1 .. luaStates
       /\ states[k].top = IF pc = "script" /\ lua = k THEN -1 ELSE 0
  /\ \A j, k \in 0 .. i - 1 : j # k => states[j].idle[0] # states[k].idle[0]
  /\ pc = "script" => lua \in 0 .. i - 1 /\ running = states[lua].idle[0]
  /\ pc # "script" => running = None

ConfInvariant == TableInvariant /\ PoolsRight

(* What Filled makes of a slot. *)
LEMMA FilledSlot ==
  ASSUME ArrayTypeOK, i \in 0 .. rawlen, At \in Nat, NEW c \in Pointer
  PROVE  /\ Filled(c) \in SlotShape /\ Filled(c).pattern = At
         /\ Filled(c).mimetype = IF Entry.mimetype = "given" THEN At ELSE None
         /\ Filled(c).top = states[i].top /\ Filled(c).idle = states[i].idle
  <1> DEFINE b == IF Entry.mimetype = "given" THEN At ELSE None
  <1>1. states[i] \in SlotShape
    BY DEF ArrayTypeOK
  <1>2. At \in Pointer /\ b \in Pointer
    BY DEF Pointer
  <1>3. Filled(c) = [states[i] EXCEPT !.pattern = At, !.filename = c, !.mimetype = b]
    BY DEF Filled
  <1> HIDE DEF b
  <1>4. Filled(c) = [pattern |-> At, mimetype |-> b, filename |-> c,
                     top |-> states[i].top, idle |-> states[i].idle]
    BY <1>1, <1>2, <1>3, SlotFilled, Zenon
  <1>5. Filled(c) \in SlotShape
    BY <1>1, <1>2, <1>4, SlotFields, SlotMade
  <1>6. /\ Filled(c).pattern = At /\ Filled(c).mimetype = b
        /\ Filled(c).top = states[i].top /\ Filled(c).idle = states[i].idle
    BY <1>4
  <1> QED
    BY <1>5, <1>6 DEF b

(* A refused entry leaves the pools alone. *)
LEMMA PoolsRefused ==
  ASSUME ConfInvariant, Reads, pc' = pc, i' = i, luaStates' >= luaStates, luaStates' \in Nat,
         UNCHANGED <<lua, running>>, NEW x, states' = [states EXCEPT ![i] = x]
  PROVE  PoolsRight'
  <1>1. ArrayTypeOK /\ i \in 0 .. rawlen /\ pc = "scripts"
    BY Reading DEF ConfInvariant, Reads
  <1>2. \A k \in 0 .. i - 1 : states'[k] = states[k]
    BY <1>1 DEF ArrayTypeOK
  <1> QED
    BY <1>1, <1>2 DEF ConfInvariant, PoolsRight, ArrayTypeOK

LEMMA NoPatternKeeps ==
  ASSUME ConfInvariant, NoPattern, UNCHANGED <<pathVars, lua, running, answer>>
  PROVE  ConfInvariant'
  <1>1. /\ Reads /\ Entry.pattern = None /\ pc' = pc /\ UNCHANGED tableVars /\ i' = i
        /\ heap' = heap /\ luaStates' = luaStates
        /\ states' = [states EXCEPT ![i].pattern = None]
    BY DEF NoPattern
  <1>2. TableInvariant /\ PoolsRight /\ ArrayTypeOK /\ states[i] \in SlotShape
    BY <1>1, Reading DEF ConfInvariant
  <1>3. At \notin Accepted
    BY <1>1 DEF Accepted, Entry
  <1>4. PICK x : x = [states[i] EXCEPT !.pattern = None]
    OBVIOUS
  <1>5. x \in SlotShape /\ states' = [states EXCEPT ![i] = x]
    BY <1>1, <1>2, <1>4, PatternSet DEF Pointer
  <1>6. luaStates \in Nat
    BY <1>2 DEF ArrayTypeOK
  <1>7. ArrayTypeOK' /\ SlotsInOrder' /\ Ended'
    BY <1>1, <1>2, <1>3, <1>5, <1>6, Refused
  <1>8. HeapLive'
    <2>1. \A f : ~Kept(At, f)
      BY <1>1 DEF Kept, Entry
    <2>2. heap' = heap \cup {<<At, f>> : f \in {}}
      BY <1>1
    <2> QED
      BY <1>1, <1>2, <2>1, <2>2, HeapReads
  <1>9. PoolsRight'
    <2>1. luaStates' >= luaStates /\ luaStates' \in Nat
      BY <1>1, <1>6
    <2>2. UNCHANGED <<lua, running>>
      OBVIOUS
    <2> QED
      BY <1>1, <1>5, <2>1, <2>2, PoolsRefused, Zenon
  <1> QED
    BY <1>7, <1>8, <1>9 DEF ConfInvariant, TableInvariant

LEMMA NoScriptKeeps ==
  ASSUME ConfInvariant, NoScript, UNCHANGED <<pathVars, lua, running, answer>>
  PROVE  ConfInvariant'
  <1>1. /\ Reads /\ Entry.pattern # None /\ Entry.script = "none"
        /\ pc' = pc /\ UNCHANGED tableVars /\ i' = i /\ luaStates' = luaStates
        /\ heap' = heap \cup Strings({"mimetype"})
        /\ states' = [states EXCEPT ![i] = Filled(states[i].filename)]
    BY DEF NoScript
  <1>2. /\ TableInvariant /\ PoolsRight /\ ArrayTypeOK /\ states[i] \in SlotShape
        /\ i \in 0 .. rawlen /\ At \in Nat
    BY <1>1, Reading DEF ConfInvariant
  <1>3. At \notin Accepted
    BY <1>1 DEF Accepted, Entry
  <1>4. Filled(states[i].filename) \in SlotShape
    BY <1>2, SlotFields, FilledSlot
  <1>5. luaStates \in Nat
    BY <1>2 DEF ArrayTypeOK
  <1>6. ArrayTypeOK' /\ SlotsInOrder' /\ Ended'
    BY <1>1, <1>2, <1>3, <1>4, <1>5, Refused
  <1>7. HeapLive'
    <2> DEFINE S == {f \in {"mimetype"} : f = "mimetype" => Entry.mimetype = "given"}
    <2>1. heap' = heap \cup {<<At, f>> : f \in S}
      BY <1>1 DEF Strings
    <2>2. \A f \in {"pattern", "mimetype", "filename"} : f \in S <=> Kept(At, f)
      BY <1>1 DEF Kept, Entry
    <2>3. S \in SUBSET {"pattern", "mimetype", "filename"}
      OBVIOUS
    <2> HIDE DEF S
    <2> QED
      BY <1>1, <1>2, <2>1, <2>2, <2>3, HeapReads
  <1>8. PoolsRight'
    <2>1. luaStates' >= luaStates /\ luaStates' \in Nat
      BY <1>1, <1>5
    <2>2. UNCHANGED <<lua, running>>
      OBVIOUS
    <2> QED
      BY <1>1, <2>1, <2>2, PoolsRefused, Zenon
  <1> QED
    BY <1>6, <1>7, <1>8 DEF ConfInvariant, TableInvariant

LEMMA ScriptFailsKeeps ==
  ASSUME ConfInvariant, ScriptFails, UNCHANGED <<pathVars, lua, running, answer>>
  PROVE  ConfInvariant'
  <1>1. /\ Reads /\ Entry.pattern # None /\ Entry.script = "fails"
        /\ pc' = pc /\ UNCHANGED tableVars /\ i' = i /\ luaStates' = luaStates + 1
        /\ heap' = heap /\ states' = [states EXCEPT ![i] = Filled(At)]
    BY DEF ScriptFails
  <1>2. /\ TableInvariant /\ PoolsRight /\ ArrayTypeOK
        /\ i \in 0 .. rawlen /\ At \in Nat
    BY <1>1, Reading DEF ConfInvariant
  <1>3. At \notin Accepted
    BY <1>1 DEF Accepted, Entry
  <1>4. Filled(At) \in SlotShape
    BY <1>2, FilledSlot DEF Pointer
  <1>5. luaStates' >= luaStates /\ luaStates' \in Nat
    BY <1>1, <1>2 DEF ArrayTypeOK
  <1>6. ArrayTypeOK' /\ SlotsInOrder' /\ Ended'
    BY <1>1, <1>2, <1>3, <1>4, <1>5, Refused
  <1>7. HeapLive'
    <2>1. \A f : ~Kept(At, f)
      BY <1>1 DEF Kept, Entry
    <2>2. heap' = heap \cup {<<At, f>> : f \in {}}
      BY <1>1
    <2> QED
      BY <1>1, <1>2, <2>1, <2>2, HeapReads
  <1>8. PoolsRight'
    <2>1. UNCHANGED <<lua, running>>
      OBVIOUS
    <2> QED
      BY <1>1, <1>5, <2>1, PoolsRefused, Zenon
  <1> QED
    BY <1>6, <1>7, <1>8 DEF ConfInvariant, TableInvariant

LEMMA ScriptLoadsKeeps ==
  ASSUME ConfInvariant, ScriptLoads, UNCHANGED <<pathVars, lua, running, answer>>
  PROVE  ConfInvariant'
  <1>1. /\ Reads /\ Entry.pattern # None /\ Entry.script = "loads"
        /\ pc' = pc /\ UNCHANGED tableVars /\ i' = i + 1 /\ luaStates' = luaStates + 1
        /\ heap' = heap \cup Strings({"pattern", "mimetype", "filename"})
        /\ states' = [states EXCEPT ![i] = [Filled(At) EXCEPT !.top = 0,
                                                             !.idle[0] = luaStates + 1]]
    BY DEF ScriptLoads
  <1>2. /\ TableInvariant /\ PoolsRight /\ ArrayTypeOK
        /\ i \in 0 .. rawlen /\ At \in 1 .. Len(scripts) /\ Len(scripts) \in Nat
    BY <1>1, Reading DEF ConfInvariant
  <1>3. At \in Accepted
    BY <1>1, <1>2 DEF Accepted, Entry
  <1>4. luaStates \in Nat /\ luaStates' \in Nat
    BY <1>1, <1>2 DEF ArrayTypeOK
  <1>5. PICK y : y = Filled(At)
    OBVIOUS
  <1>6. /\ y \in SlotShape /\ y.pattern = At
        /\ y.mimetype = IF Entry.mimetype = "given" THEN At ELSE None
    BY <1>2, <1>5, FilledSlot DEF Pointer
  <1>7. PICK x : x = [y EXCEPT !.top = 0, !.idle[0] = luaStates + 1]
    OBVIOUS
  <1>8. /\ x \in SlotShape /\ x.pattern = y.pattern /\ x.mimetype = y.mimetype
        /\ x.top = 0 /\ x.idle[0] = luaStates + 1
    <2>1. PICK L \in Nat : L = luaStates + 1
      BY <1>4
    <2>2. x = [y EXCEPT !.top = 0, !.idle[0] = L]
      BY <1>7, <2>1
    <2>3. /\ x \in SlotShape /\ x.pattern = y.pattern /\ x.mimetype = y.mimetype
          /\ x.top = 0 /\ x.idle[0] = L
      BY <1>6, <2>2, StatePushed, Zenon
    <2> QED
      BY <2>1, <2>3
  <1>9. states' = [states EXCEPT ![i] = x]
    BY <1>1, <1>5, <1>7
  <1>10. x.mimetype = IF scripts[At].mimetype = "given" THEN At ELSE None
    BY <1>6, <1>8 DEF Entry
  <1>11. ArrayTypeOK' /\ SlotsInOrder' /\ Ended'
    BY <1>1, <1>2, <1>3, <1>4, <1>6, <1>8, <1>9, <1>10, Taken
  <1>12. HeapLive'
    <2> DEFINE S == {f \in {"pattern", "mimetype", "filename"} :
                       f = "mimetype" => Entry.mimetype = "given"}
    <2>1. heap' = heap \cup {<<At, f>> : f \in S}
      BY <1>1 DEF Strings
    <2>2. \A f \in {"pattern", "mimetype", "filename"} : f \in S <=> Kept(At, f)
      BY <1>1 DEF Kept, Entry
    <2>3. S \in SUBSET {"pattern", "mimetype", "filename"}
      OBVIOUS
    <2> HIDE DEF S
    <2> QED
      BY <1>1, <1>2, <2>1, <2>2, <2>3, HeapReads
  <1>13. PoolsRight'
    <2>1. pc = "scripts" /\ pc' = "scripts" /\ running' = running
      BY <1>1 DEF Reads
    <2>2. \A k \in 0 .. i : states'[k] = IF k = i THEN x ELSE states[k]
      BY <1>2, <1>9 DEF ArrayTypeOK
    <2>3. \A k \in 0 .. i - 1 :
            states[k].idle[0] \in 1 .. luaStates /\ states[k].top = 0
      BY <1>2, <2>1 DEF PoolsRight
    <2>4. 0 .. i' - 1 = 0 .. i
      BY <1>1, <1>2
    <2>5. \A k \in 0 .. i :
            states'[k].idle[0] \in 1 .. luaStates + 1 /\ states'[k].top = 0
      <3> TAKE k \in 0 .. i
      <3>1. CASE k = i
        BY <1>2, <1>4, <1>8, <2>2, <3>1
      <3>2. CASE k \in 0 .. i - 1
        <4>1. states'[k] = states[k]
          BY <1>2, <2>2, <3>2
        <4>2. states[k].idle[0] \in 1 .. luaStates /\ states[k].top = 0
          BY <2>3, <3>2
        <4> QED
          BY <1>4, <4>1, <4>2
      <3> QED
        BY <1>2, <3>1, <3>2
    <2>6. \A j, k \in 0 .. i : j # k => states'[j].idle[0] # states'[k].idle[0]
      <3>1. ASSUME NEW j \in 0 .. i - 1
            PROVE  states'[j] = states[j] /\ states[j].idle[0] # luaStates + 1
        <4>1. states'[j] = states[j]
          BY <1>2, <2>2
        <4>2. states[j].idle[0] \in 1 .. luaStates
          BY <2>3
        <4> QED
          BY <1>4, <4>1, <4>2
      <3>2. states'[i].idle[0] = luaStates + 1
        BY <1>2, <1>8, <2>2
      <3>3. \A j, k \in 0 .. i - 1 : j # k => states[j].idle[0] # states[k].idle[0]
        BY <1>2 DEF PoolsRight
      <3>4. \A j \in 0 .. i : j = i \/ j \in 0 .. i - 1
        BY <1>2
      <3> QED
        BY <3>1, <3>2, <3>3, <3>4
    <2> QED
      BY <1>1, <1>2, <2>1, <2>4, <2>5, <2>6 DEF PoolsRight
  <1> QED
    BY <1>11, <1>12, <1>13 DEF ConfInvariant, TableInvariant

(* Steps that leave the patterns below i alone. *)
LEMMA TableSame ==
  ASSUME TableInvariant, pc # "aborted", UNCHANGED <<tableVars, i, heap>>,
         Upto' = Upto, entry' \in Nat, luaStates' \in Nat,
         pc' = "mimetypes" => pc = "mimetypes",
         states' \in [0 .. rawlen -> SlotShape],
         \A k \in 0 .. i - 1 : /\ states'[k].pattern = states[k].pattern
                               /\ states'[k].mimetype = states[k].mimetype,
         Ended'
  PROVE  TableInvariant'
  <1>1. ArrayTypeOK /\ SlotsInOrder /\ HeapLive
    BY DEF TableInvariant
  <1>2. scripts' = scripts /\ rawlen' = rawlen /\ i' = i /\ heap' = heap /\ Accepted' = Accepted
    BY DEF tableVars, Accepted
  <1>3. ArrayTypeOK'
    BY <1>1, <1>2 DEF ArrayTypeOK
  <1>4. SlotsAccepted' /\ SlotsSorted' /\ AcceptedKept'
    <2>1. SlotsAccepted'
      BY <1>1, <1>2 DEF SlotsInOrder, SlotsAccepted
    <2>2. SlotsSorted'
      BY <1>1, <1>2 DEF SlotsInOrder, SlotsSorted
    <2>3. AcceptedKept'
      BY <1>1, <1>2 DEF SlotsInOrder, AcceptedKept
    <2> QED
      BY <2>1, <2>2, <2>3
  <1>5. SlotsInOrder'
    BY <1>1, <1>2, <1>4 DEF SlotsInOrder
  <1>6. HeapLive'
    BY <1>1, <1>2 DEF HeapLive, Kept
  <1> QED
    BY <1>3, <1>5, <1>6 DEF TableInvariant

LEMMA LoadingKeeps ==
  ASSUME ConfInvariant, httpd_conf_load, UNCHANGED <<pathVars, lua, running, answer>>
  PROVE  ConfInvariant'
  <1>1. TableInvariant /\ PoolsRight /\ ArrayTypeOK
    BY DEF ConfInvariant, TableInvariant
  <1>2. lua' = lua /\ running' = running
    OBVIOUS
  <1>3. CASE ReadMimetype
    <2>1. /\ pc = "mimetypes" /\ pc' = pc /\ entry' = entry + 1
          /\ UNCHANGED <<tableVars, i, states, heap, luaStates>>
      BY <1>3 DEF ReadMimetype
    <2>2. TableInvariant'
      BY <1>1, <2>1, TableSame DEF Upto, Ended, Loading, ArrayTypeOK
    <2>3. PoolsRight'
      BY <1>1, <1>2, <2>1 DEF PoolsRight
    <2> QED
      BY <2>2, <2>3 DEF ConfInvariant
  <1>4. CASE MimetypeIsEmpty \/ EntryIsWrong
    <2>1. /\ pc # "script" /\ pc' = "aborted" /\ entry' \in Nat
          /\ UNCHANGED <<tableVars, i, states, heap, luaStates>>
      BY <1>1, <1>4 DEF MimetypeIsEmpty, EntryIsWrong, Reads, confVars, ArrayTypeOK, At
    <2>2. TableInvariant'
      BY <1>1, <2>1 DEF TableInvariant, ArrayTypeOK, tableVars
    <2>3. PoolsRight'
      BY <1>1, <1>2, <2>1 DEF PoolsRight
    <2> QED
      BY <2>2, <2>3 DEF ConfInvariant
  <1>5. CASE MimetypesEnd
    <2>1. /\ pc = "mimetypes" /\ pc' = "scripts" /\ entry' = 0
          /\ UNCHANGED <<tableVars, i, states, heap, luaStates>>
      BY <1>5 DEF MimetypesEnd
    <2>2. TableInvariant'
      BY <1>1, <2>1, TableSame DEF Upto, Ended, Loading, ArrayTypeOK
    <2>3. PoolsRight'
      BY <1>1, <1>2, <2>1 DEF PoolsRight
    <2> QED
      BY <2>2, <2>3 DEF ConfInvariant
  <1>6. CASE StatesOverflow
    <2>1. /\ pc = "scripts" /\ i > rawlen /\ pc' = "overflow"
          /\ UNCHANGED <<tableVars, entry, i, states, heap, luaStates>>
      BY <1>6 DEF StatesOverflow, confVars
    <2>2. Ended'
      BY <2>1 DEF Ended, Loading, tableVars
    <2>3. TableInvariant'
      BY <1>1, <2>1, <2>2, TableSame DEF Upto, ArrayTypeOK
    <2>4. PoolsRight'
      BY <1>1, <1>2, <2>1 DEF PoolsRight
    <2> QED
      BY <2>3, <2>4 DEF ConfInvariant
  <1>7. CASE ScriptsEnd
    <2>1. /\ pc = "scripts" /\ i =< rawlen /\ entry = Len(scripts) /\ pc' = "serve"
          /\ states' = [states EXCEPT ![i].pattern = None]
          /\ UNCHANGED <<tableVars, entry, i, heap, luaStates>>
      BY <1>7 DEF ScriptsEnd
    <2>2. i \in 0 .. rawlen /\ rawlen \in Nat
      BY <1>1, <2>1, ConfAssumption DEF ArrayTypeOK
    <2>3. PICK x : x = [states[i] EXCEPT !.pattern = None]
      OBVIOUS
    <2>4. x \in SlotShape /\ x.pattern = None
      BY <1>1, <2>2, <2>3, PatternSet DEF ArrayTypeOK, Pointer, SlotShape
    <2>5. states' = [states EXCEPT ![i] = x]
      BY <2>1, <2>3
    <2>6. /\ states' \in [0 .. rawlen -> SlotShape] /\ states'[i] = x
          /\ \A k \in 0 .. i - 1 : states'[k] = states[k]
      BY <1>1, <2>2, <2>4, <2>5 DEF ArrayTypeOK
    <2>7. Ended'
      BY <2>1, <2>4, <2>6 DEF Ended, Loading, tableVars
    <2>8. TableInvariant'
      BY <1>1, <2>1, <2>6, <2>7, TableSame DEF Upto, ArrayTypeOK
    <2>9. PoolsRight'
      BY <1>1, <1>2, <2>1, <2>2, <2>6 DEF PoolsRight
    <2> QED
      BY <2>8, <2>9 DEF ConfInvariant
  <1> QED
    BY <1>3, <1>4, <1>5, <1>6, <1>7, NoPatternKeeps, NoScriptKeeps, ScriptFailsKeeps,
       ScriptLoadsKeeps DEF httpd_conf_load, load_scripts

-----------------------------------------------------------------------------
(* The search for a script. *)

LEMMA LeastNatural ==
  ASSUME NEW T \in SUBSET Nat, T # {}
  PROVE  \E x \in T : \A y \in T : x =< y
  <1>1. PICK x \in T : \A y \in T : ~(<<y, x>> \in OpToRel(<, Nat))
    BY WFMin, NatLessThanWellFounded, Zenon
  <1>2. \A y \in T : ~(y < x)
    BY <1>1, Zenon DEF OpToRel
  <1> QED
    BY <1>2

(* Of all scripts, the first that fits is found. *)
LEMMA ScriptFound ==
  ASSUME TableInvariant, ~Loading, NEW s
  PROVE  /\ get_script(s) = None => \A n \in Accepted : ~Serves(n, s)
         /\ get_script(s) # None =>
              /\ get_script(s) \in 0 .. i - 1
              /\ Serves(states[get_script(s)].pattern, s)
              /\ \A m \in Accepted : m < states[get_script(s)].pattern => ~Serves(m, s)
  <1>1. /\ ArrayTypeOK /\ SlotsAccepted /\ SlotsSorted /\ AcceptedKept
        /\ i =< rawlen /\ states[i].pattern = None /\ entry = Len(scripts) /\ Upto = entry
    BY DEF TableInvariant, SlotsInOrder, Loading, Ended, Upto
  <1>2. /\ DOMAIN states = 0 .. rawlen /\ rawlen \in Nat /\ i \in 0 .. rawlen
        /\ Len(scripts) \in Nat
    BY <1>1, ConfAssumption DEF ArrayTypeOK
  <1>3. \A k \in 0 .. i - 1 : states[k].pattern \in Accepted /\ states[k].pattern # None
    BY <1>1, <1>2, ConfAssumption DEF SlotsAccepted, Accepted
  <1> DEFINE First(k) == EndsAt(k, s) /\ \A j \in 0 .. k - 1 : ~EndsAt(j, s)
             f == CHOOSE k \in DOMAIN states : First(k)
  <1>4. \E k \in DOMAIN states : First(k)
    <2> DEFINE T == {k \in 0 .. rawlen : EndsAt(k, s)}
    <2>1. i \in T
      BY <1>1, <1>2 DEF EndsAt
    <2>2. PICK k \in T : \A j \in T : k =< j
      <3>1. T \in SUBSET Nat
        BY <1>2
      <3> HIDE DEF T
      <3> QED
        BY <2>1, <3>1, LeastNatural
    <2>3. \A j \in 0 .. k - 1 : ~EndsAt(j, s)
      BY <1>2, <2>2
    <2> QED
      BY <1>2, <2>2, <2>3
  <1>5. f \in 0 .. rawlen /\ First(f)
    BY <1>2, <1>4
  <1>6. get_script(s) = IF states[f].pattern = None THEN None ELSE f
    BY DEF get_script
  <1> HIDE DEF f
  <1>7. f =< i
    BY <1>1, <1>2, <1>5 DEF EndsAt
  <1>8. \A n \in Accepted : n \in 1 .. Len(scripts) /\ \E k \in 0 .. i - 1 : states[k].pattern = n
    BY <1>1, <1>2 DEF AcceptedKept, Accepted
  <1>9. CASE states[f].pattern = None
    <2>1. f = i
      BY <1>2, <1>3, <1>5, <1>7, <1>9
    <2>2. \A k \in 0 .. i - 1 : ~Serves(states[k].pattern, s)
      BY <1>5, <2>1 DEF EndsAt
    <2>3. get_script(s) = None
      BY <1>6, <1>9
    <2> QED
      BY <1>8, <2>2, <2>3
  <1>10. CASE states[f].pattern # None
    <2>1. f \in 0 .. i - 1
      BY <1>1, <1>2, <1>5, <1>7, <1>10
    <2>2. get_script(s) = f /\ f # None
      BY <1>2, <1>6, <1>10, <2>1, ConfAssumption
    <2>3. Serves(states[f].pattern, s)
      BY <1>5, <1>10 DEF EndsAt
    <2>4. ASSUME NEW m \in Accepted, m < states[f].pattern
          PROVE  ~Serves(m, s)
      <3>1. PICK k \in 0 .. i - 1 : states[k].pattern = m
        BY <1>8
      <3>2. states[f].pattern \in Nat /\ m \in Nat
        BY <1>2, <1>3, <2>1 DEF Accepted
      <3>3. k < f
        BY <1>1, <1>2, <2>1, <2>4, <3>1, <3>2 DEF SlotsSorted
      <3> QED
        BY <1>5, <2>1, <3>1, <3>3 DEF EndsAt
    <2> QED
      BY <2>1, <2>2, <2>3, <2>4
  <1> QED
    BY <1>9, <1>10

-----------------------------------------------------------------------------
(* Requests. *)

ServingInvariant == ConfInvariant /\ ScriptServes

(* What ConfInvariant says while eva serves.                                *)
LEMMA WhileServing ==
  ASSUME ConfInvariant, ~Loading
  PROVE  /\ TableInvariant /\ PoolsRight /\ ArrayTypeOK /\ SlotsAccepted /\ SlotsSorted
         /\ Ended /\ Upto = entry /\ pc # "aborted" /\ pc # "mimetypes"
         /\ i \in Nat /\ rawlen \in Nat /\ i =< rawlen /\ luaStates \in Nat /\ entry \in Nat
         /\ states \in [0 .. rawlen -> SlotShape]
  <1>1. pc # "aborted" /\ pc # "mimetypes"
    BY DEF Loading
  <1>2. TableInvariant /\ PoolsRight /\ ArrayTypeOK /\ SlotsInOrder /\ Ended
    BY <1>1 DEF ConfInvariant, TableInvariant
  <1>3. rawlen \in Nat
    BY <1>2, ConfAssumption DEF ArrayTypeOK
  <1> QED
    BY <1>1, <1>2, <1>3 DEF SlotsInOrder, ArrayTypeOK, Ended, Upto

(* A state is taken from a pool or given back: no pattern changes.          *)
LEMMA PoolTouched ==
  ASSUME ConfInvariant, ~Loading, ~Loading', NEW k \in 0 .. i - 1,
         NEW x \in SlotShape, states' = [states EXCEPT ![k] = x],
         x.pattern = states[k].pattern, x.mimetype = states[k].mimetype,
         UNCHANGED <<tableVars, entry, i, heap, luaStates>>
  PROVE  /\ TableInvariant'
         /\ \A j \in 0 .. i - 1 : states'[j] = IF j = k THEN x ELSE states[j]
         /\ \A j \in 0 .. i - 1 : states'[j].pattern = states[j].pattern
  <1>1. /\ TableInvariant /\ ArrayTypeOK /\ Ended /\ Upto = entry /\ pc # "aborted"
        /\ i \in Nat /\ rawlen \in Nat /\ i =< rawlen /\ luaStates \in Nat /\ entry \in Nat
        /\ states \in [0 .. rawlen -> SlotShape]
    BY WhileServing
  <1>2. \A j \in 0 .. i : states'[j] = IF j = k THEN x ELSE states[j]
    BY <1>1
  <1>3. states' \in [0 .. rawlen -> SlotShape]
    BY <1>1
  <1>4. pc' # "mimetypes" /\ pc' # "overflow"
    BY DEF Loading
  <1>5. Ended'
    <2>1. states[i].pattern = None /\ entry = Len(scripts)
      BY <1>1 DEF Ended
    <2>2. states'[i] = states[i]
      BY <1>1, <1>2
    <2> QED
      BY <1>1, <1>4, <2>1, <2>2 DEF Ended, tableVars
  <1>6. Upto' = Upto /\ entry' \in Nat /\ luaStates' \in Nat
    BY <1>1, <1>4 DEF Upto
  <1>7. TableInvariant'
    BY <1>1, <1>2, <1>3, <1>4, <1>5, <1>6, TableSame
  <1> QED
    BY <1>1, <1>2, <1>7

LEMMA ScriptStartsKeeps ==
  ASSUME ServingInvariant, ScriptStarts PROVE ServingInvariant'
  <1>1. pc = "serve" /\ pc' = "script" /\ ~Loading /\ ~Loading'
    BY DEF ScriptStarts, Loading
  <1>2. PICK s \in RequestPaths :
          get_script(s) # None /\ path' = s /\ lua' = get_script(s)
    BY DEF ScriptStarts
  <1>3. /\ get_lua_state(lua')
        /\ UNCHANGED <<tableVars, mimetypes, entry, i, heap, newfile, pos, depth, answer>>
    BY DEF ScriptStarts
  <1>4. ConfInvariant /\ TableInvariant /\ PoolsRight /\ i \in Nat
        /\ states \in [0 .. rawlen -> SlotShape] /\ SlotsAccepted /\ rawlen \in Nat /\ i =< rawlen
    BY <1>1, WhileServing DEF ServingInvariant
  <1>5. PICK k \in 0 .. i - 1 :
          /\ k = lua' /\ Serves(states[k].pattern, s)
          /\ \A m \in Accepted : m < states[k].pattern => ~Serves(m, s)
    BY <1>1, <1>2, <1>4, ScriptFound
  <1>6. states[k].top = 0 /\ states[k] \in SlotShape
    BY <1>1, <1>4 DEF PoolsRight
  <1>7. /\ running' = states[k].idle[0] /\ luaStates' = luaStates
        /\ states' = [states EXCEPT ![k] = [states[k] EXCEPT !.top = -1]]
    BY <1>3, <1>5, <1>6 DEF get_lua_state
  <1>8. PICK x : x = [states[k] EXCEPT !.top = -1]
    OBVIOUS
  <1>9. /\ x \in SlotShape /\ x.pattern = states[k].pattern /\ x.mimetype = states[k].mimetype
        /\ x.top = -1 /\ x.idle = states[k].idle
    BY <1>6, <1>8, StatePopped, Zenon
  <1>10. states' = [states EXCEPT ![k] = x]
    BY <1>7, <1>8
  <1>11. /\ TableInvariant'
         /\ \A j \in 0 .. i - 1 : states'[j] = IF j = k THEN x ELSE states[j]
         /\ \A j \in 0 .. i - 1 : states'[j].pattern = states[j].pattern
    <2>1. UNCHANGED <<tableVars, entry, i, heap, luaStates>>
      BY <1>3, <1>7
    <2> QED
      BY <1>1, <1>4, <1>9, <1>10, <2>1, PoolTouched
  <1>12. i' = i /\ scripts' = scripts /\ Accepted' = Accepted
    BY <1>3 DEF tableVars, Accepted
  <1>13. \A j \in 0 .. i - 1 : states'[j].idle = states[j].idle
                             /\ states'[j].top = IF j = k THEN -1 ELSE 0
    BY <1>1, <1>4, <1>9, <1>11 DEF PoolsRight
  <1>14. PoolsRight'
    BY <1>1, <1>4, <1>5, <1>7, <1>12, <1>13 DEF PoolsRight
  <1>15. ScriptServes'
    <2>1. states'[k].pattern = states[k].pattern /\ states[k].pattern \in Accepted
      BY <1>4, <1>11 DEF SlotsAccepted
    <2> QED
      BY <1>1, <1>2, <1>5, <1>12, <2>1 DEF ScriptServes, Serves
  <1> QED
    BY <1>11, <1>14, <1>15 DEF ServingInvariant, ConfInvariant

LEMMA ScriptEndsKeeps ==
  ASSUME ServingInvariant, ScriptEnds PROVE ServingInvariant'
  <1>1. /\ pc = "script" /\ pc' = "sent" /\ ~Loading /\ ~Loading' /\ running' = None
        /\ return_lua_state(lua, running)
        /\ UNCHANGED <<tableVars, entry, i, heap, luaStates, pathVars, lua>>
    BY DEF ScriptEnds, Loading
  <1>2. /\ ConfInvariant /\ PoolsRight /\ i \in Nat /\ i =< rawlen /\ rawlen \in Nat
        /\ states \in [0 .. rawlen -> SlotShape] /\ luaStates \in Nat
    BY <1>1, WhileServing DEF ServingInvariant
  <1>3. PICK k \in 0 .. i - 1 : k = lua /\ running = states[k].idle[0]
    BY <1>1, <1>2 DEF PoolsRight
  <1>4. states[k].top = -1 /\ states[k] \in SlotShape /\ running \in Nat
    BY <1>1, <1>2, <1>3 DEF PoolsRight
  <1>5. PICK x : x = [states[k] EXCEPT !.top = 0, !.idle[0] = running]
    OBVIOUS
  <1>6. /\ x \in SlotShape /\ x.pattern = states[k].pattern /\ x.mimetype = states[k].mimetype
        /\ x.top = 0 /\ x.idle[0] = running
    BY <1>4, <1>5, StatePushed, Zenon
  <1>7. states' = [states EXCEPT ![k] = x]
    <2>1. -1 - 1 < StackSize /\ -1 + 1 = 0
      BY ConfAssumption
    <2>2. states' = [states EXCEPT ![k].top = @ + 1, ![k].idle[0] = running]
      BY <1>1, <1>3, <1>4, <2>1 DEF return_lua_state
    <2> QED
      BY <1>2, <1>4, <1>5, <2>1, <2>2
  <1>8. /\ TableInvariant'
        /\ \A j \in 0 .. i - 1 : states'[j] = IF j = k THEN x ELSE states[j]
    <2>1. UNCHANGED <<tableVars, entry, i, heap, luaStates>>
      BY <1>1
    <2>2. ConfInvariant /\ ~Loading /\ ~Loading'
      BY <1>1, <1>2
    <2> QED
      BY <1>6, <1>7, <2>1, <2>2, PoolTouched
  <1>9. \A j \in 0 .. i - 1 : states'[j].idle[0] = states[j].idle[0] /\ states'[j].top = 0
    BY <1>1, <1>2, <1>3, <1>6, <1>8 DEF PoolsRight
  <1>10. PoolsRight'
    <2>1. /\ \A j \in 0 .. i - 1 : states[j].idle[0] \in 1 .. luaStates
          /\ \A j, l \in 0 .. i - 1 : j # l => states[j].idle[0] # states[l].idle[0]
      BY <1>2 DEF PoolsRight
    <2>2. pc' # "script" /\ running' = None /\ i' = i /\ luaStates' = luaStates
      BY <1>1
    <2>3. /\ \A j \in 0 .. i - 1 : states'[j].idle[0] \in 1 .. luaStates /\ states'[j].top = 0
          /\ \A j, l \in 0 .. i - 1 : j # l => states'[j].idle[0] # states'[l].idle[0]
      BY <1>9, <2>1
    <2> QED
      BY <2>2, <2>3 DEF PoolsRight
  <1>11. ScriptServes'
    BY <1>1 DEF ScriptServes
  <1> QED
    BY <1>8, <1>10, <1>11 DEF ServingInvariant, ConfInvariant

(* The other steps of a request touch no table. *)
LEMMA ConfUntouched ==
  ASSUME ConfInvariant, ~Loading, ~Loading', pc # "script", pc' # "script",
         UNCHANGED <<confVars, running>>
  PROVE  ConfInvariant'
  <1>1. /\ TableInvariant /\ PoolsRight /\ Ended /\ Upto = entry /\ pc # "aborted"
        /\ luaStates \in Nat /\ entry \in Nat /\ states \in [0 .. rawlen -> SlotShape]
    BY WhileServing
  <1>2. UNCHANGED <<tableVars, entry, i, heap, luaStates, states>>
    BY DEF confVars
  <1>3. pc' # "mimetypes" /\ pc' # "overflow"
    BY DEF Loading
  <1>4. Ended' /\ Upto' = Upto
    BY <1>1, <1>2, <1>3 DEF Ended, Upto, tableVars
  <1>5. TableInvariant'
    BY <1>1, <1>2, <1>3, <1>4, TableSame
  <1>6. PoolsRight'
    BY <1>1, <1>2 DEF PoolsRight
  <1> QED
    BY <1>5, <1>6 DEF ConfInvariant

LEMMA FileStartsKeeps ==
  ASSUME ServingInvariant, FileStarts PROVE ServingInvariant'
  <1>1. /\ pc = "serve" /\ pc' = "path" /\ ~Loading /\ ~Loading'
        /\ UNCHANGED <<confVars, lua, running, answer>>
    BY DEF FileStarts, Loading
  <1>2. PICK s \in RequestPaths :
          /\ s = <<>> => states[0].pattern = None
          /\ s # <<>> => get_script(s) = None
          /\ path' = s
    BY DEF FileStarts, PathStarts
  <1>3. ConfInvariant /\ TableInvariant /\ SlotsInOrder /\ SlotsAccepted /\ i \in Nat
    BY <1>1, WhileServing DEF ServingInvariant, TableInvariant
  <1>4. ConfInvariant'
    BY <1>1, <1>3, ConfUntouched
  <1>5. \A n \in Accepted : ~Serves(n, s)
    <2>1. CASE s = <<>>
      <3>1. i = 0
        <4> SUFFICES ASSUME i # 0 PROVE FALSE
          OBVIOUS
        <4>1. states[0].pattern \in Accepted
          BY <1>3 DEF SlotsAccepted
        <4> QED
          BY <1>2, <2>1, <4>1, ConfAssumption DEF Accepted
      <3>2. \A n \in Accepted : n =< Upto
        BY <1>1, <1>3, WhileServing DEF Accepted, Ended
      <3> QED
        BY <1>3, <3>1, <3>2 DEF SlotsInOrder, AcceptedKept
    <2>2. CASE s # <<>>
      BY <1>1, <1>2, <1>3, <2>2, ScriptFound
    <2> QED
      BY <2>1, <2>2
  <1>6. scripts' = scripts /\ Accepted' = Accepted
    BY <1>1 DEF confVars, tableVars, Accepted
  <1>7. ScriptServes'
    BY <1>1, <1>2, <1>5, <1>6 DEF ScriptServes, Serves
  <1> QED
    BY <1>4, <1>7 DEF ServingInvariant

LEMMA ServingKept == ServingInvariant /\ [Next]_vars => ServingInvariant'
  <1> SUFFICES ASSUME ServingInvariant, [Next]_vars PROVE ServingInvariant'
    OBVIOUS
  <1>1. CASE httpd_conf_load /\ UNCHANGED <<pathVars, lua, running, answer>>
    <2>1. ConfInvariant'
      BY <1>1, LoadingKeeps DEF ServingInvariant
    <2>2. pc' # "script" /\ pc' # "path"
      BY <1>1 DEF httpd_conf_load, load_scripts, ReadMimetype, MimetypeIsEmpty,
                  MimetypesEnd, NoPattern, EntryIsWrong, NoScript, ScriptFails,
                  ScriptLoads, StatesOverflow, ScriptsEnd, Reads
    <2> QED
      BY <2>1, <2>2 DEF ServingInvariant, ScriptServes
  <1>2. CASE FileSent
    <2>1. /\ pc = "path" /\ pc' = "sent" /\ ~Loading /\ ~Loading'
          /\ UNCHANGED <<confVars, running>>
      BY <1>2 DEF FileSent, PathDone, Loading
    <2> QED
      BY <2>1, ConfUntouched DEF ServingInvariant, ScriptServes
  <1>3. CASE RequestEnds
    <2>1. /\ pc = "sent" /\ pc' = "serve" /\ ~Loading /\ ~Loading'
          /\ UNCHANGED <<confVars, running>>
      BY <1>3 DEF RequestEnds, Loading
    <2> QED
      BY <2>1, ConfUntouched DEF ServingInvariant, ScriptServes
  <1>4. CASE get_full_path /\ UNCHANGED <<pc, confVars, lua, running, answer>>
    <2>1. /\ pc = "path" /\ pc' = "path" /\ ~Loading /\ ~Loading' /\ path' = path
          /\ UNCHANGED <<confVars, running>>
      BY <1>4 DEF get_full_path, DotsReplaced, CharacterKept, InPath, Loading
    <2>2. scripts' = scripts /\ Accepted' = Accepted
      BY <2>1 DEF confVars, tableVars, Accepted
    <2> QED
      BY <2>1, <2>2, ConfUntouched DEF ServingInvariant, ScriptServes, Serves
  <1>5. CASE UNCHANGED vars
    BY <1>5 DEF vars, confVars, tableVars, ServingInvariant, ConfInvariant, TableInvariant,
                ArrayTypeOK, SlotsInOrder, SlotsAccepted, SlotsSorted, AcceptedKept, Accepted,
                HeapLive, Kept, Ended, Loading, Upto, PoolsRight, ScriptServes, Serves, pathVars
  <1> QED
    BY <1>1, <1>2, <1>3, <1>4, <1>5, ScriptStartsKeeps, ScriptEndsKeeps, FileStartsKeeps
       DEF Next

LEMMA ServingInitially == Init => ServingInvariant
  <1> SUFFICES ASSUME Init PROVE ServingInvariant
    OBVIOUS
  <1>1. pc = "mimetypes" /\ i = 0 /\ running = None
    BY DEF Init, ConfInit
  <1>2. PoolsRight /\ ScriptServes
    BY <1>1 DEF PoolsRight, ScriptServes
  <1> QED
    BY <1>2, TableInitially DEF ServingInvariant, ConfInvariant

LEMMA TableIsSound == ConfInvariant => TableSound
  <1> SUFFICES ASSUME ConfInvariant PROVE TableSound
    OBVIOUS
  <1>1. ASSUME pc = "overflow" PROVE rawlen < Len(scripts)
    <2>1. ArrayTypeOK /\ SlotsInOrder /\ i > rawlen /\ Upto \in Nat
      BY <1>1 DEF ConfInvariant, TableInvariant, Ended, Upto, ArrayTypeOK
    <2>2. Len(scripts) \in Nat
      BY <2>1, ConfAssumption DEF ArrayTypeOK
    <2> QED
      BY <2>1, <2>2 DEF SlotsInOrder, ArrayTypeOK
  <1> DEFINE kept == {states[k].pattern : k \in 0 .. i - 1}
             left == {n \in 1 .. Len(scripts) : scripts[n].pattern # None
                                               /\ scripts[n].script = "none"}
             given == {n \in 1 .. Len(scripts) : scripts[n].mimetype = "given"}
             strings == kept \X {"pattern", "filename"}
                          \cup ((kept \cup left) \cap given) \X {"mimetype"}
  <1>2. ASSUME ~Loading
        PROVE  /\ i =< rawlen /\ states[i].pattern = None
               /\ \A k \in 0 .. i - 1 : \A j \in 0 .. k - 1 :
                    states[j].pattern < states[k].pattern
               /\ \A k \in 0 .. i - 1 : states[k].mimetype \in given \cup {None}
               /\ heap = strings
    <2>1. /\ TableInvariant /\ SlotsAccepted /\ SlotsSorted /\ HeapLive /\ AcceptedKept
          /\ i \in Nat /\ i =< rawlen /\ states[i].pattern = None /\ Upto = Len(scripts)
          /\ Len(scripts) \in Nat
      BY <1>2, WhileServing DEF TableInvariant, SlotsInOrder, Ended
    <2>2. \A k \in 0 .. i - 1 : \A j \in 0 .. k - 1 : states[j].pattern < states[k].pattern
      BY <2>1 DEF SlotsSorted
    <2>3. \A k \in 0 .. i - 1 : states[k].mimetype \in given \cup {None}
      BY <2>1 DEF SlotsAccepted, Accepted
    <2>4. kept = Accepted
      BY <2>1 DEF SlotsAccepted, AcceptedKept, Accepted
    <2>5. heap = strings
      <3> DEFINE field == {"pattern", "mimetype", "filename"}
      <3>1. strings \subseteq (1 .. Len(scripts)) \X field
        BY <2>4 DEF Accepted
      <3>2. ASSUME NEW n \in 1 .. Len(scripts), NEW f \in field
            PROVE  <<n, f>> \in heap <=> <<n, f>> \in strings
        <4>1. <<n, f>> \in heap <=> Kept(n, f)
          <5>1. n =< Upto /\ f \in {"pattern", "mimetype", "filename"}
            BY <2>1
          <5>2. <<n, f>> \in heap <=> n =< Upto /\ Kept(n, f)
            BY <2>1, <5>1, Zenon DEF HeapLive
          <5> QED
            BY <5>1, <5>2
        <4>2. <<n, f>> \in strings <=> \/ n \in kept /\ f \in {"pattern", "filename"}
                                       \/ n \in (kept \cup left) \cap given /\ f = "mimetype"
          <5> HIDE DEF kept, left, given
          <5> QED
            OBVIOUS
        <4> QED
          BY <2>4, <4>1, <4>2 DEF Kept, Accepted
      <3> HIDE DEF strings
      <3>3. heap \subseteq (1 .. Len(scripts)) \X field
        BY <2>1 DEF HeapLive
      <3> HIDE DEF field
      <3> QED
        BY <3>1, <3>2, <3>3
    <2> QED
      BY <2>1, <2>2, <2>3, <2>5
  <1> QED
    BY <1>1, <1>2 DEF TableSound

LEMMA StatesAreKept == ConfInvariant => StatesKept
  <1> SUFFICES ASSUME PoolsRight, NEW k \in 0 .. i - 1
               PROVE  /\ states[k].top < StackSize
                      /\ \A m \in 0 .. states[k].top :
                           LET L == states[k].idle[m]
                           IN  /\ L # Junk /\ L # running
                               /\ \A j \in 0 .. i - 1 : \A o \in 0 .. states[j].top :
                                    states[j].idle[o] = L => j = k /\ o = m
    BY DEF ConfInvariant, StatesKept
  <1>1. \A j \in 0 .. i - 1 : states[j].top \in {-1, 0}
    BY DEF PoolsRight
  <1>2. \A j \in 0 .. i - 1 : \A o \in 0 .. states[j].top : o = 0
    BY <1>1
  <1>3. states[k].top < StackSize
    BY <1>1, ConfAssumption
  <1>4. ASSUME NEW m \in 0 .. states[k].top
        PROVE  states[k].idle[m] # Junk /\ states[k].idle[m] # running
    <2>1. m = 0 /\ states[k].top = 0
      BY <1>1, <1>4
    <2>2. states[k].idle[0] \in Int /\ states[k].idle[0] >= 1
      BY DEF PoolsRight
    <2>3. CASE pc = "script"
      <3>1. lua \in 0 .. i - 1 /\ running = states[lua].idle[0] /\ states[lua].top = -1
        BY <2>3 DEF PoolsRight
      <3> QED
        BY <2>1, <2>2, <3>1 DEF PoolsRight, Junk
    <2>4. CASE pc # "script"
      BY <2>1, <2>2, <2>4, ConfAssumption DEF PoolsRight, Junk
    <2> QED
      BY <2>3, <2>4
  <1>5. ASSUME NEW m \in 0 .. states[k].top, NEW j \in 0 .. i - 1, NEW o \in 0 .. states[j].top,
               states[j].idle[o] = states[k].idle[m]
        PROVE  j = k /\ o = m
    BY <1>2, <1>5 DEF PoolsRight
  <1> QED
    BY <1>3, <1>4, <1>5

(* For every configuration and every path: the script that answers is the   *)
(* first accepted one whose pattern the path begins with, and a file        *)
(* answers only if there is none.                                           *)
THEOREM FirstScriptAnswers == Spec => []ScriptServes
  <1>1. Spec => []ServingInvariant
    BY ServingInitially, ServingKept, PTL DEF Spec
  <1>2. ServingInvariant => ScriptServes
    BY DEF ServingInvariant
  <1> QED
    BY <1>1, <1>2, PTL

(* For every configuration: whatever entries are refused, the array holds   *)
(* the accepted ones in order, its strings are those still allocated, and   *)
(* it overflows only by entries that rawlen does not count.                 *)
THEOREM TableIsAlwaysSound == Spec => []TableSound
  <1>1. Spec => []ServingInvariant
    BY ServingInitially, ServingKept, PTL DEF Spec
  <1>2. ServingInvariant => TableSound
    BY TableIsSound DEF ServingInvariant
  <1> QED
    BY <1>1, <1>2, PTL

(* For every configuration: a Lua state is in one pool or runs one request, *)
(* and no pool's index leaves its table.                                    *)
THEOREM StatesAreAlwaysKept == Spec => []StatesKept
  <1>1. Spec => []ServingInvariant
    BY ServingInitially, ServingKept, PTL DEF Spec
  <1>2. ServingInvariant => StatesKept
    BY StatesAreKept DEF ServingInvariant
  <1> QED
    BY <1>1, <1>2, PTL
=============================================================================
