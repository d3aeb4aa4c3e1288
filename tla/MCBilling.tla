----------------------------- MODULE MCBilling -----------------------------
(***************************************************************************)
(* A small instance of Billing for TLC: two months, one of them with two   *)
(* orders.                                                                 *)
(***************************************************************************)
EXTENDS Billing, TLC

CONSTANTS may, june, a, b, c, i1, i2, i3, h1, h2

MCScopeOf == [o \in Orders |-> IF o = c THEN june ELSE may]

\* Requests about one month that meet excuse most of the properties there, so they
\* are explored in the month of one order only.
MayIsApart == may \notin overlapped

Symmetry == Permutations(Invoices) \cup Permutations(Handlers)
=============================================================================
