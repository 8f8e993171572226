---------------------------- MODULE MCTaskStream ----------------------------
(* A task of one or two subtasks (the second may not exist).                *)
EXTENDS TaskStream

MCSlot == 1..2
=============================================================================
