------------------------------ MODULE MCLabelMap ------------------------------
(* Three names of four collide, so chains reach length three and pop unlinks   *)
(* from the head, the middle and the end of a chain.                           *)
EXTENDS LabelMap

CONSTANTS n1, n2, n3, n4

FourNames  == {n1, n2, n3, n4}
TwoBuckets == {0, 1}
LastApart(names, last) == [n \in names |-> IF n = last THEN 1 ELSE 0]
FourHashed  == LastApart(FourNames, n4)
===============================================================================
