----------------------------- MODULE MCAssembler ------------------------------
(* Blocks that put a short jump just inside and just outside its reach, before   *)
(* and behind its label, and one that carries the code across bit 15.            *)
(* JustOutside alone puts a je back to its label one byte out of reach.           *)
EXTENDS Assembler

CONSTANTS a, b

TwoNames    == {a, b}
JustOutside == {127}
BothEdges   == {0, 126, 127, 128, 32766}
OneNumber   == {-5}
===============================================================================
