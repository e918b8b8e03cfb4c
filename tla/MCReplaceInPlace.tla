-------------------------- MODULE MCReplaceInPlace --------------------------
(* Instances of ReplaceInPlace for TLC. *)
EXTENDS ReplaceInPlace

CONSTANTS id, note, total

OrderColumns == {id, note, total}
OrderGenerated == {total}
=============================================================================
