-------------------------- MODULE LuaMessageProofs --------------------------
(***************************************************************************)
(* Proofs about LuaMessage, for all sizes of the structures, all limits and *)
(* all messages.  The inductive invariant describes the layout of the       *)
(* block: cells follow one another without gap, and both loops are at the   *)
(* end of the last cell they have done.                                     *)
(***************************************************************************)
EXTENDS LuaMessage, TLAPS

LuaValue == Values \union {Received(v) : v \in Values}

MessageType == {"T_BOOLEAN", "T_STRING", "T_FLOATING", "T_FUNCTION", "T_TABLE",
                "T_USERDATA", "T_NIL"}

CellType == [at : Nat, type : MessageType, length : Nat, value : Values]

Types ==
  /\ pc \in {"copy", "refused", "popped", "push", "pushed"}
  /\ args \in Seq(Values)
  /\ i \in Nat /\ heapSize \in Nat /\ heapPos \in Nat
  /\ cells \in Seq(CellType)
  /\ out \in Seq(LuaValue)

(* The first offset after a cell. *)
End(k) == cells[k].at + ValueSize + cells[k].length

(* How far the running loop, and lua_message_pop's, have come. *)
Progress ==
  /\ i =< Len(cells) /\ Len(cells) =< Len(args)
  /\ pc \in {"copy", "refused"} => Len(cells) = i
  /\ pc \in {"popped", "push", "pushed"} => Len(cells) = Len(args)
  /\ heapPos = IF i = 0 THEN ValuesSize ELSE End(i)

(* Cells hold the arguments in order, one after the other, in the block. *)
Layout ==
  /\ ValuesSize =< heapSize
  /\ \A k \in 1 .. Len(cells) : /\ cells[k] = Cell(args[k], cells[k].at)
                                /\ cells[k].at = IF k = 1 THEN ValuesSize ELSE End(k - 1)
                                /\ End(k) =< heapSize
  /\ \A j, k \in 1 .. Len(cells) : j < k => End(j) =< cells[k].at

(* What lua_message_push has pushed so far. *)
Output ==
  /\ pc \in {"copy", "refused", "popped"} => out = <<>>
  /\ pc \in {"push", "pushed"} => Len(out) = i
  /\ pc = "pushed" => i = Len(args)
  /\ \A k \in 1 .. Len(out) : out[k] = Received(args[k])

Inv == Types /\ Progress /\ Layout /\ Output

-----------------------------------------------------------------------------
(* Every value takes a number of bytes, whatever its type. *)
LEMMA LengthIsNat == \A v \in Values : Length(v) \in Nat
  BY SizeAssumption, ValuesAssumption DEF Length

(* What is pushed for a cell is what is to be received for its value. *)
LEMMA PushedIsReceived ==
  \A v \in Values, n \in Nat : Pushed(Cell(v, n)) = Received(v)
<1> SUFFICES ASSUME NEW v \in Values, NEW n \in Nat
             PROVE  Pushed(Cell(v, n)) = Received(v)
    OBVIOUS
<1>1. v.type \in LuaType
    BY ValuesAssumption
<1> QED
    BY <1>1 DEF Pushed, Cell, MsgType, Received, LuaType

(* A cell has its type. *)
LEMMA CellHasType == \A v \in Values, n \in Nat : Cell(v, n) \in CellType
<1> SUFFICES ASSUME NEW v \in Values, NEW n \in Nat
             PROVE  Cell(v, n) \in CellType
    OBVIOUS
<1>1. v.type \in LuaType
    BY ValuesAssumption
<1>2. MsgType(v) \in MessageType
    BY <1>1 DEF MsgType, LuaType, MessageType
<1> QED
    BY <1>2, LengthIsNat DEF Cell, CellType

(* The block allocated first has the layout. *)
LEMMA InvInit == Init => Inv
<1> SUFFICES ASSUME Init PROVE Inv
    OBVIOUS
<1>1. PICK n \in 0 .. MaxArgs : \E s \in [1 .. n -> Values] : PopStarts(s)
    BY DEF Init
<1>2. PICK s \in [1 .. n -> Values] : PopStarts(s)
    BY <1>1
<1>3. s \in Seq(Values) /\ Len(s) = n /\ n \in Nat
    BY <1>2, SizeAssumption
<1>4. ValueSize * Len(s) \in Nat
    BY <1>3, SizeAssumption
<1> QED
    BY <1>2, <1>3, <1>4, SizeAssumption
    DEF PopStarts, Inv, Types, Progress, Layout, Output, End

(* Room is made for a value before it is stored. *)
LEMMA GrownFits ==
  ASSUME Types, heapPos =< heapSize, NEW need \in Nat
  PROVE  Grown(need) \in Nat /\ heapPos + need =< Grown(need) /\ heapSize =< Grown(need)
<1>1. heapPos \in Nat /\ heapSize \in Nat /\ MSG_INC_SIZE \in Nat
    BY SizeAssumption DEF Types
<1> QED
    BY <1>1 DEF Grown

(* A turn of lua_message_pop's loop adds a cell at the end. *)
LEMMA CopyStep == Inv /\ CopyValue => Inv'
<1> SUFFICES ASSUME Inv, CopyValue PROVE Inv'
    OBVIOUS
<1> DEFINE v == args[i + 1]
           need == Length(v) + ValueSize
           c == Cell(v, heapPos)
<1>1. /\ Len(cells) = i /\ i < Len(args) /\ pc = "copy"
      /\ i' = i + 1 /\ pc' = pc /\ args' = args /\ out' = out /\ out = <<>>
      /\ heapSize' = Grown(need)
      /\ cells' = Append(cells, c)
      /\ heapPos' = heapPos + need
    BY DEF Inv, Progress, Output, CopyValue
<1>2. v \in Values /\ Length(v) \in Nat
    BY <1>1, LengthIsNat DEF Inv, Types
<1>3. need \in Nat
    BY <1>2, SizeAssumption
<1>p. heapPos =< heapSize
    BY <1>1 DEF Inv, Types, Progress, Layout
<1>4. heapSize' \in Nat /\ heapPos' =< heapSize' /\ heapSize =< heapSize'
    BY <1>1, <1>3, <1>p, GrownFits DEF Inv
<1>5. c \in CellType /\ c.at = heapPos /\ c.length = Length(v)
    BY <1>2, CellHasType DEF Inv, Types, Cell
<1> HIDE DEF v, need, c
<1>6. /\ cells' \in Seq(CellType) /\ Len(cells') = i + 1
      /\ cells'[i + 1] = c
      /\ \A k \in 1 .. i : cells'[k] = cells[k] /\ cells[k] \in CellType
    BY <1>1, <1>5 DEF Inv, Types
<1>7. Types'
    BY <1>1, <1>3, <1>4, <1>6 DEF Inv, Types
<1>n. PICK n \in Nat : n = i + 1
    BY DEF Inv, Types
<1>8. End(n)' = heapPos' /\ \A k \in 1 .. i : End(k)' = End(k) /\ End(k) \in Nat
  <2>1. cells'[n].at + ValueSize + cells'[n].length = heapPos'
      BY <1>1, <1>2, <1>5, <1>6, <1>n, SizeAssumption DEF need, Inv, Types
  <2> QED
      BY <2>1, <1>6, SizeAssumption DEF End, CellType
<1>9. Progress'
  <2>1. i' = n /\ i' # 0
      BY <1>1, <1>n
  <2>2. (heapPos = IF i = 0 THEN ValuesSize ELSE End(i))'
      BY <2>1, <1>8 DEF End
  <2> QED
      BY <2>2, <1>1, <1>6 DEF Inv, Types, Progress
<1>10. \A k \in 1 .. i : End(k) =< heapPos
  <2> SUFFICES ASSUME NEW k \in 1 .. i PROVE End(k) =< heapPos
      OBVIOUS
  <2>1. i # 0 /\ heapPos = End(i)
      BY DEF Inv, Types, Progress
  <2>2. CASE k = i
      BY <2>1, <2>2, <1>8
  <2>3. CASE k < i
    <3>1. i \in 1 .. Len(cells) /\ k \in 1 .. Len(cells)
        BY <2>1, <1>1 DEF Inv, Types
    <3>2. End(k) =< cells[i].at
        BY <2>3, <3>1 DEF Inv, Layout
    <3>3. cells[i] \in CellType
        BY <2>1, <1>6 DEF Inv, Types
    <3> QED
        BY <2>1, <3>2, <3>3, <1>8, SizeAssumption DEF End, CellType
  <2> QED
      BY <2>2, <2>3 DEF Inv, Types
<1>11. Layout'
  <2>1. (ValuesSize =< heapSize)'
      BY <1>4, SizeAssumption DEF Inv, Types, Layout
  <2>2. ASSUME NEW k \in 1 .. i + 1
        PROVE  /\ cells'[k] = Cell(args'[k], cells'[k].at)
               /\ cells'[k].at = IF k = 1 THEN ValuesSize ELSE End(k - 1)'
               /\ End(k)' =< heapSize'
    <3>1. CASE k \in 1 .. i
      <4>1. /\ cells[k] = Cell(args[k], cells[k].at)
            /\ cells[k].at = IF k = 1 THEN ValuesSize ELSE End(k - 1)
            /\ End(k) =< heapSize
          BY <3>1, <1>1 DEF Inv, Layout
      <4>2. k # 1 => k - 1 \in 1 .. i
          BY <3>1 DEF Inv, Types
      <4> QED
          BY <3>1, <4>1, <4>2, <1>1, <1>4, <1>6, <1>8 DEF Inv, Types
    <3>2. CASE k = i + 1
      <4>1. c = Cell(v, heapPos)
          BY DEF c
      <4>2. heapPos = IF i = 0 THEN ValuesSize ELSE End(i)
          BY DEF Inv, Progress
      <4>3. i # 0 => i \in 1 .. i
          BY DEF Inv, Types
      <4>4. cells'[k] = Cell(args'[k], cells'[k].at)
          BY <3>2, <4>1, <1>1, <1>5, <1>6 DEF v
      <4>5. cells'[k].at = IF k = 1 THEN ValuesSize ELSE End(k - 1)'
          BY <3>2, <4>2, <4>3, <1>5, <1>6, <1>8 DEF Inv, Types
      <4> QED
          BY <3>2, <4>4, <4>5, <1>4, <1>8, <1>n
    <3> QED
        BY <3>1, <3>2 DEF Inv, Types
  <2>3. ASSUME NEW j \in 1 .. i + 1, NEW k \in 1 .. i + 1, j < k
        PROVE  End(j)' =< cells'[k].at
    <3>1. j \in 1 .. i
        BY <2>3 DEF Inv, Types
    <3>2. CASE k \in 1 .. i
        BY <2>3, <3>1, <3>2, <1>1, <1>6, <1>8 DEF Inv, Layout
    <3>3. CASE k = i + 1
        BY <3>1, <3>3, <1>5, <1>6, <1>8, <1>10
    <3> QED
        BY <3>2, <3>3 DEF Inv, Types
  <2> QED
      BY <2>1, <2>2, <2>3, <1>6 DEF Layout
<1>12. Output'
    BY <1>1 DEF Inv, Output
<1> QED
    BY <1>7, <1>9, <1>11, <1>12 DEF Inv

(* At the walk's position there is the next cell, and no other. *)
LEMMA NextCell ==
  ASSUME Inv, pc = "push", i < Len(args)
  PROVE  /\ i + 1 \in 1 .. Len(cells)
         /\ cells[i + 1].at = heapPos
         /\ \A k \in 1 .. Len(cells) : cells[k].at = heapPos => k = i + 1
<1>1. i + 1 \in 1 .. Len(cells) /\ Len(cells) \in Nat /\ i \in Nat
    BY DEF Inv, Types, Progress
<1>2. cells[i + 1].at = heapPos
    BY <1>1 DEF Inv, Progress, Layout
<1>3. ASSUME NEW k \in 1 .. Len(cells), cells[k].at = heapPos
      PROVE  k = i + 1
  <2>1. /\ cells[k] \in CellType /\ cells[i + 1] \in CellType
      BY <1>1 DEF Inv, Types
  <2>2. k < i + 1 => End(k) =< cells[i + 1].at
      BY <1>1 DEF Inv, Layout
  <2>3. i + 1 < k => End(i + 1) =< cells[k].at
      BY <1>1 DEF Inv, Layout
  <2> QED
      BY <1>1, <1>2, <1>3, <2>1, <2>2, <2>3, SizeAssumption DEF End, CellType
<1> QED
    BY <1>1, <1>2, <1>3

(* A turn of lua_message_push's loop pushes the next value. *)
LEMMA PushStep == Inv /\ PushValue => Inv'
<1> SUFFICES ASSUME Inv, PushValue PROVE Inv'
    OBVIOUS
<1>1. PICK k \in 1 .. Len(cells) : /\ cells[k].at = heapPos
                                   /\ out' = Append(out, Pushed(cells[k]))
                                   /\ heapPos' = heapPos + ValueSize + cells[k].length
    BY DEF PushValue
<1>2. /\ pc = "push" /\ i < Len(args) /\ i' = i + 1
      /\ pc' = pc /\ args' = args /\ heapSize' = heapSize /\ cells' = cells
    BY DEF PushValue
<1>3. k = i + 1
    BY <1>1, <1>2, NextCell
<1>4. /\ Len(cells) = Len(args) /\ Len(out) = i
      /\ cells[k] = Cell(args[k], heapPos) /\ args[k] \in Values
      /\ cells[k] \in CellType
    BY <1>1, <1>2 DEF Inv, Types, Progress, Layout, Output
<1>5. Pushed(cells[k]) = Received(args[k])
    BY <1>4, PushedIsReceived DEF Inv, Types
<1>6. Received(args[k]) \in LuaValue
    BY <1>4 DEF LuaValue
<1>7. heapPos' \in Nat
    BY <1>1, <1>4, SizeAssumption DEF CellType, Inv, Types
<1>8. Types'
    BY <1>1, <1>2, <1>5, <1>6, <1>7 DEF Inv, Types
<1>9. Progress'
    BY <1>1, <1>2, <1>3, <1>4 DEF Inv, Types, Progress, End
<1>10. Layout'
    BY <1>2 DEF Inv, Layout, End
<1>11. Output'
  <2>1. /\ Len(out') = i + 1 /\ out'[i + 1] = Received(args[k])
        /\ \A l \in 1 .. i : out'[l] = out[l]
      BY <1>1, <1>4, <1>5, <1>6 DEF Inv, Types
  <2> QED
      BY <2>1, <1>2, <1>3, <1>4 DEF Inv, Types, Output
<1> QED
    BY <1>8, <1>9, <1>10, <1>11 DEF Inv

(* The layout is kept by every step. *)
LEMMA InvStep == Inv /\ [Next]_vars => Inv'
<1> SUFFICES ASSUME Inv, [Next]_vars PROVE Inv'
    OBVIOUS
<1>1. CASE CopyValue
    BY <1>1, CopyStep
<1>2. CASE Refuse
    BY <1>2 DEF Refuse, Inv, Types, Progress, Layout, Output, End
<1>3. CASE PopReturns
    BY <1>3 DEF PopReturns, Inv, Types, Progress, Layout, Output, End
<1>4. CASE PushStarts
  <2>1. Types' /\ Progress' /\ Layout'
      BY <1>4, SizeAssumption DEF PushStarts, Inv, Types, Progress, Layout, End
  <2>2. Output'
      BY <1>4 DEF PushStarts, Inv, Types, Output
  <2> QED
      BY <2>1, <2>2 DEF Inv
<1>5. CASE PushValue
    BY <1>5, PushStep
<1>6. CASE PushReturns
    BY <1>6 DEF PushReturns, Inv, Types, Progress, Layout, Output, End
<1>7. CASE UNCHANGED vars
    BY <1>7 DEF vars, Inv, Types, Progress, Layout, Output, End
<1> QED
    BY <1>1, <1>2, <1>3, <1>4, <1>5, <1>6, <1>7 DEF Next

(* The layout is an invariant. *)
LEMMA Invariance == Spec => []Inv
  BY InvInit, InvStep, PTL DEF Spec

(* lua_message_pop stores nothing outside the block it has allocated,       *)
(* whatever the sizes of the values and the increment are.                  *)
THEOREM HeapIsRespected == Spec => []StaysInHeap
<1>1. Inv => StaysInHeap
  <2> SUFFICES ASSUME Inv PROVE StaysInHeap
      OBVIOUS
  <2>1. \A k \in 1 .. Len(cells) : End(k) =< heapSize
      BY DEF Inv, Layout
  <2>2. heapPos =< heapSize
      BY <2>1 DEF Inv, Types, Progress, Layout
  <2> QED
      BY <2>1, <2>2 DEF StaysInHeap, End
<1> QED
    BY <1>1, Invariance, PTL

(* lua_message_push, which is not told where cells start, finds each one.   *)
THEOREM WalkIsRight == Spec => []WalkFindsCells
<1>1. Inv => WalkFindsCells
    BY NextCell DEF WalkFindsCells
<1> QED
    BY <1>1, Invariance, PTL

(* A message that is not refused arrives complete and in order.             *)
THEOREM MessageArrives == Spec => []ArrivesInOrder
<1>1. Inv => ArrivesInOrder
  <2> SUFFICES ASSUME Inv, pc = "pushed"
               PROVE  out = [k \in 1 .. Len(args) |-> Received(args[k])]
      BY DEF ArrivesInOrder
  <2>1. Len(out) = Len(args) /\ out \in Seq(LuaValue)
      BY DEF Inv, Types, Output
  <2>2. \A k \in 1 .. Len(args) : out[k] = Received(args[k])
      BY <2>1 DEF Inv, Output
  <2> QED
      BY <2>1, <2>2
<1> QED
    BY <1>1, Invariance, PTL
=============================================================================
