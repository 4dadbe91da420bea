-------------------------- MODULE MCMemoryManager --------------------------
(* An instance of MemoryManager for TLC: a region of a few units. *)
EXTENDS MemoryManager

CONSTANTS o1, o2

=============================================================================
