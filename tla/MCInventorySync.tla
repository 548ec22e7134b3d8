-------------------------- MODULE MCInventorySync ---------------------------
(***************************************************************************)
(* Small instances of InventorySync for TLC.                               *)
(***************************************************************************)
EXTENDS InventorySync

CONSTANTS o1, o2

MCObj == {o1, o2}
MCOneObj == {o1}
MCInitialObjects == {o1}
=============================================================================
