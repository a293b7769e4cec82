-------------------------------- MODULE MCArena --------------------------------
(* A first block with room for one small request: the large one makes it grow,    *)
(* and the largest makes it grow twice.                                           *)
EXTENDS Arena

CONSTANTS own, copy

TwoHandles == {own, copy}
Context    == <<own, copy>>
small == [size |-> 11, align |-> 4]
large == [size |-> 40, align |-> 8]
huge  == [size |-> 120, align |-> 8]
ThreeRequests == {small, large, huge}
===============================================================================
