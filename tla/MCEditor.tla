------------------------------ MODULE MCEditor ------------------------------
(***************************************************************************)
(* A letter and the byte order mark, texts of up to three, a history of    *)
(* two edits.  The mark enters by what is pasted, and one of the files     *)
(* begins with it; typing it is inserting nothing.                         *)
(***************************************************************************)
EXTENDS Editor

CONSTANT a

MCChar   == {a, Bom}
MCPasted == {<<a, Bom>>}
MCFiles  == {<<Bom, a>>, <<a, Bom>>}
=============================================================================
