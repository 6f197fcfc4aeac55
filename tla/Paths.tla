-------------------------------- MODULE Paths --------------------------------
(***************************************************************************)
(* From the path of a request to the name of a file: get_full_path of       *)
(* src/http/file_util.c.                                                    *)
(*                                                                         *)
(* The path is copied behind the location of the files and searched for     *)
(* "..", which is replaced by "//", but only when a "/" has been seen       *)
(* before it.  If the path then ends in "/" the name of the default file is *)
(* appended.  The loop compares every character with the one after it: the  *)
(* last one with a character of the buffer that nobody has written.         *)
(***************************************************************************)
EXTENDS HttpdConf

CONSTANTS RequestPaths   \* the paths that requests have

(* The parser's on_path gives nothing but paths that begin with "/" or "*"; *)
(* it is empty if there was none.                                           *)
ASSUME PathAssumption == /\ RequestPaths \subseteq Text
                         /\ \A s \in RequestPaths : s # <<>> => s[1] # "."

VARIABLES
  path,     \* conn_info->path
  newfile,  \* the path in the buffer, and the character after it
  pos,      \* the loop's counter: characters done
  depth

pathVars == <<path, newfile, pos, depth>>

PathInit == path = <<>> /\ newfile = <<>> /\ pos = 0 /\ depth = 0

(* get_full_path is called: the buffer's next character may be any.         *)
PathStarts(s) ==
  /\ path' = s
  /\ \E c \in Char : newfile' = Append(s, c)
  /\ pos' = 0 /\ depth' = 0

(* Characters number n and n + 1 are dots. *)
DotsAt(name, n) == name[n] = "." /\ name[n + 1] = "."

InPath == pc = "path" /\ pos < Len(path)

(* Mutation: going up takes away from the depth. *)
DotsReplaced_goes_up ==
  /\ InPath /\ DotsAt(newfile, pos + 1) /\ depth > 0
  /\ newfile' = [newfile EXCEPT ![pos + 1] = "/", ![pos + 2] = "/"]
  /\ pos' = pos + 2 /\ depth' = depth - 1
  /\ UNCHANGED path

DotsReplaced ==
  /\ InPath /\ DotsAt(newfile, pos + 1) /\ depth > 0
  /\ newfile' = [newfile EXCEPT ![pos + 1] = "/", ![pos + 2] = "/"]
  /\ pos' = pos + 2
  /\ UNCHANGED <<path, depth>>

CharacterKept ==
  /\ InPath /\ ~(DotsAt(newfile, pos + 1) /\ depth > 0)
  /\ depth' = IF newfile[pos + 1] = "/" THEN depth + 1 ELSE depth
  /\ pos' = pos + 1
  /\ UNCHANGED <<path, newfile>>

get_full_path == DotsReplaced \/ CharacterKept

PathDone == pc = "path" /\ pos >= Len(path)

(* What the loop has made of the path. *)
Name == SubSeq(newfile, 1, Len(path))

IsDirectory == path # <<>> /\ newfile[Len(path)] = "/"

-----------------------------------------------------------------------------
(* Properties. *)

(* The components of a name are what lies between its "/"; this one is "..". *)
ParentAt(name, n) ==
  /\ n < Len(name) /\ DotsAt(name, n)
  /\ n = 1 \/ name[n - 1] = "/"
  /\ n + 1 = Len(name) \/ name[n + 2] = "/"

(* The name that is opened has no component "..", whatever the path: files  *)
(* are served from below the location only.                                 *)
BelowLocation == PathDone => \A n \in 1 .. Len(Name) : ~ParentAt(Name, n)
=============================================================================
