---------------------------- MODULE MCLuaMessage ----------------------------
(* Instances of LuaMessage for model checking. *)
EXTENDS LuaMessage

V(t, n, x) == [type |-> t, len |-> n, is |-> x]

(* One value of each type, and strings around the sizes that matter. *)
MCValues ==
  {V("boolean", 0, "true"), V("number", 0, "42"), V("string", 0, "empty"),
   V("string", 220, "short"), V("string", 1256, "long"), V("string", 2030, "huge"),
   V("table", 7, "array"), V("function", 0, "f"), V("userdata", 24, "file"),
   V("thread", 0, "co"), Nil}

(* Many small values. *)
MCNils == {Nil}
=============================================================================
