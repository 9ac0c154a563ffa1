------------------------------- MODULE MC_Enum -------------------------------
(* Two enum types with distinct short names, three Strings, a Display    *)
(* that is also a String, and Integers 0, 1, 2, 4 over a 3-bit uint32:    *)
(* 4 is the top bit, so the last iteration of BitsSplit's loop matters.   *)
EXTENDS Enum

\* a Display that is no String
CONSTANT d1

MCName == [t \in Types |-> IF t = CHOOSE u \in Types : TRUE THEN "Kind" ELSE "Flag"]

MCDisplays == {Empty} \cup {CHOOSE s \in Strs : TRUE} \cup {d1}
=============================================================================
