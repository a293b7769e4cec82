---------------------------- MODULE MCCodegenArena ----------------------------
(* Four Labels allocated, three cells used: slots 1 and 2 are the map's own.    *)
EXTENDS CodegenArena

CONSTANTS n1, n2, n3, n4

FourNames == {n1, n2, n3, n4}
===============================================================================
