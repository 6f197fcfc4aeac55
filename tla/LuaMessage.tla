----------------------------- MODULE LuaMessage -----------------------------
(***************************************************************************)
(* How values cross from one Lua state to another:                          *)
(* src/blocks/lua_message.c.                                                *)
(*                                                                         *)
(* lua_message_pop lays the values on a Lua stack out in one block of       *)
(* memory, a header and then a descriptor and the bytes of each value, and  *)
(* lets the block grow as it goes.  lua_message_push walks such a block,    *)
(* from descriptor to descriptor, and pushes what it finds on another       *)
(* stack.  Neither is told the size of the block.                           *)
(*                                                                         *)
(* A Lua value is a record: its type, its raw length, and what it is.       *)
(***************************************************************************)
EXTENDS Integers, Sequences

CONSTANTS
  Values,        \* the Lua values that a program passes
  MaxArgs,       \* bound: how many of them in one call
  ValuesSize,    \* sizeof(struct values)
  ValueSize,     \* sizeof(struct value)
  NumberSize,    \* sizeof(lua_Number)
  PointerSize,   \* sizeof(void*)
  MSG_INC_SIZE,
  MSG_MAX_SIZE

LuaType == {"boolean", "string", "number", "function", "nil", "table",
            "lightuserdata", "userdata", "thread"}

ASSUME SizeAssumption ==
  /\ ValuesSize \in Nat \ {0} /\ ValueSize \in Nat \ {0}
  /\ NumberSize \in Nat /\ PointerSize \in Nat
  /\ MSG_INC_SIZE \in Nat \ {0} /\ MSG_MAX_SIZE \in Nat /\ MaxArgs \in Nat

ASSUME ValuesAssumption ==
  \A v \in Values : v.type \in LuaType /\ v.len \in Nat

VARIABLES
  pc,        \* "copy" in lua_message_pop's loop, "refused" after its lua_error,
             \* "popped" after its return, "push" in lua_message_push's loop,
             \* "pushed" after its return
  args,      \* the values on the stack of the sender
  i,         \* how many of them the running loop has done
  heapSize,  \* heap_size
  heapPos,   \* heap_position, of whichever function runs
  cells,     \* what is stored in the block and where, in the order of storing
  out        \* the values on the stack of the receiver

vars == <<pc, args, i, heapSize, heapPos, cells, out>>

-----------------------------------------------------------------------------
(* Mutation: booleans are forgotten. *)
MsgType_no_boolean(v) ==
  CASE v.type = "string"   -> "T_STRING"
    [] v.type = "number"   -> "T_FLOATING"
    [] v.type = "function" -> "T_FUNCTION"
    [] v.type = "table"    -> "T_TABLE"
    [] v.type \in {"lightuserdata", "userdata"} -> "T_USERDATA"
    [] OTHER -> "T_NIL"

(* The message type of a Lua value, and the number of bytes set aside. *)
MsgType(v) ==
  CASE v.type = "boolean"  -> "T_BOOLEAN"
    [] v.type = "string"   -> "T_STRING"
    [] v.type = "number"   -> "T_FLOATING"
    [] v.type = "function" -> "T_FUNCTION"
    [] v.type = "table"    -> "T_TABLE"
    [] v.type \in {"lightuserdata", "userdata"} -> "T_USERDATA"
    [] OTHER -> "T_NIL"

Length(v) ==
  CASE v.type = "boolean" -> 1
    [] v.type = "number"  -> NumberSize
    [] v.type \in {"lightuserdata", "userdata"} -> PointerSize
    [] OTHER -> v.len

Nil == [type |-> "nil", len |-> 0, is |-> "nil"]

(* What lua_message_push makes of a cell: booleans, numbers and strings     *)
(* are copied, functions and tables become nil, and for a userdata it is    *)
(* the address of the cell that is pushed, not the pointer stored there.    *)
Pushed(c) ==
  CASE c.type \in {"T_BOOLEAN", "T_FLOATING", "T_STRING"} -> c.value
    [] c.type = "T_USERDATA" -> [type |-> "lightuserdata", len |-> 0, is |-> "cell"]
    [] OTHER -> Nil

-----------------------------------------------------------------------------
(* lua_message_pop has looked at the stack s and allocated the block. *)
PopStarts(s) ==
  /\ args = s /\ i = 0
  /\ cells = <<>> /\ out = <<>>
  /\ heapSize = ValuesSize + ValueSize * Len(s) + MSG_INC_SIZE
  /\ heapPos = ValuesSize
  /\ pc = "copy"

Init == \E n \in 0 .. MaxArgs : \E s \in [1 .. n -> Values] : PopStarts(s)

(* Mutation: the block grows by a fixed amount. *)
Grown_fixed(need) ==
  IF heapPos + need >= heapSize THEN heapSize + MSG_INC_SIZE ELSE heapSize

(* The size of the block once there is room for need more bytes. *)
Grown(need) ==
  IF heapPos + need >= heapSize THEN heapSize + MSG_INC_SIZE + need ELSE heapSize

(* The limit is looked at only when the block grows. *)
TooLarge(need) == Grown(need) # heapSize /\ Grown(need) > MSG_MAX_SIZE

(* The descriptor and the bytes of a value, stored at an offset. *)
Cell(v, offset) ==
  [at |-> offset, type |-> MsgType(v), length |-> Length(v), value |-> v]

(* Mutation: the descriptor's length is set after lua_tolstring, which      *)
(* reports 0 for what is not a string or a number.                          *)
CopyValue_length_last ==
  /\ pc = "copy" /\ i < Len(args)
  /\ LET v    == args[i + 1]
         need == Length(v) + ValueSize
         n    == IF MsgType(v) \in {"T_TABLE", "T_FUNCTION", "T_NIL"} THEN 0
                 ELSE Length(v)
     IN  /\ ~TooLarge(need)
         /\ heapSize' = Grown(need)
         /\ cells' = Append(cells, [Cell(v, heapPos) EXCEPT !.length = n])
         /\ heapPos' = heapPos + need
  /\ i' = i + 1
  /\ UNCHANGED <<pc, args, out>>

(* One turn of lua_message_pop's loop. *)
CopyValue ==
  /\ pc = "copy" /\ i < Len(args)
  /\ LET v    == args[i + 1]
         need == Length(v) + ValueSize
     IN  /\ ~TooLarge(need)
         /\ heapSize' = Grown(need)
         /\ cells' = Append(cells, Cell(v, heapPos))
         /\ heapPos' = heapPos + need
  /\ i' = i + 1
  /\ UNCHANGED <<pc, args, out>>

(* lua_error leaves the function; the block is not freed. *)
Refuse ==
  /\ pc = "copy" /\ i < Len(args)
  /\ TooLarge(Length(args[i + 1]) + ValueSize)
  /\ pc' = "refused"
  /\ UNCHANGED <<args, i, heapSize, heapPos, cells, out>>

PopReturns ==
  /\ pc = "copy" /\ i = Len(args)
  /\ pc' = "popped"
  /\ UNCHANGED <<args, i, heapSize, heapPos, cells, out>>

(* lua_message_push, in the receiver.  Without arguments there is no block. *)
PushStarts ==
  /\ pc = "popped"
  /\ pc' = IF args = <<>> THEN "pushed" ELSE "push"
  /\ i' = 0 /\ heapPos' = ValuesSize
  /\ UNCHANGED <<args, heapSize, cells, out>>

(* Its loop reads the descriptor at heap_position, and then the bytes. *)
PushValue ==
  /\ pc = "push" /\ i < Len(args)
  /\ \E k \in 1 .. Len(cells) :
        /\ cells[k].at = heapPos
        /\ out' = Append(out, Pushed(cells[k]))
        /\ heapPos' = heapPos + ValueSize + cells[k].length
  /\ i' = i + 1
  /\ UNCHANGED <<pc, args, heapSize, cells>>

PushReturns ==
  /\ pc = "push" /\ i = Len(args)
  /\ pc' = "pushed"
  /\ UNCHANGED <<args, i, heapSize, heapPos, cells, out>>

Next == CopyValue \/ Refuse \/ PopReturns \/ PushStarts \/ PushValue \/ PushReturns

Spec == Init /\ [][Next]_vars

-----------------------------------------------------------------------------
(* Properties. *)

(* Nothing is stored outside the block, however the values' sizes and the   *)
(* growth of the block fall together.                                       *)
StaysInHeap ==
  /\ heapPos =< heapSize
  /\ \A k \in 1 .. Len(cells) : cells[k].at + ValueSize + cells[k].length =< heapSize

(* lua_message_push, which goes by the lengths it finds, is always at a     *)
(* descriptor that lua_message_pop wrote, and at only one.                  *)
WalkFindsCells ==
  pc = "push" /\ i < Len(args) =>
    \E k \in 1 .. Len(cells) :
      /\ cells[k].at = heapPos
      /\ \A j \in 1 .. Len(cells) : cells[j].at = heapPos => j = k

(* What arrives for a value: the value itself if it is a boolean, a number  *)
(* or a string; nil for a function, a table or a thread; some light         *)
(* userdata for a userdata.                                                 *)
Received(v) ==
  IF v.type \in {"boolean", "number", "string"} THEN v
  ELSE IF v.type \in {"lightuserdata", "userdata"}
       THEN [type |-> "lightuserdata", len |-> 0, is |-> "cell"]
       ELSE Nil

(* A message that is not refused arrives with its values in order.          *)
ArrivesInOrder ==
  pc = "pushed" => out = [k \in 1 .. Len(args) |-> Received(args[k])]

(* Violated.  No message that is let through is larger than MSG_MAX_SIZE.   *)
SizeLimited == pc = "popped" => heapPos =< MSG_MAX_SIZE
=============================================================================
