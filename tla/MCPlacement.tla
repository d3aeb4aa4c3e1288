---------------------------- MODULE MCPlacement ----------------------------
(***************************************************************************)
(* A small instance of Placement for TLC: two buyers at one branch, one of *)
(* whom also orders for a second branch and has a cap of their own.        *)
(***************************************************************************)
EXTENDS Placement, TLC

CONSTANTS r1, r2, r3, ann, ben, north, south, b1, b2, b3, b4

MCOwner == [b \in Baskets |-> IF b = b2 THEN ben ELSE ann]
MCBranch == [b \in Baskets |-> IF b \in {b1, b2} THEN north ELSE south]
MCSiteCap == [s \in Sites |-> IF s = north THEN 2 ELSE Null]
MCBuyerCap == [u \in Buyers |-> IF u = ann THEN 2 ELSE Null]

\* Ann has a basket at each branch, Ben one at the north branch.
MCInitialUnits == [b \in Baskets |-> IF b = b4 THEN Null ELSE IF b = b1 THEN 2 ELSE 1]

\* Nobody has a basket at the south branch yet.
MCNoSouthBasket == [MCInitialUnits EXCEPT ![b3] = Null]

Symmetry == Permutations(Requests)
=============================================================================
