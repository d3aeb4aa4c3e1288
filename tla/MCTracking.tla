----------------------------- MODULE MCTracking -----------------------------
(***************************************************************************)
(* A small instance of Tracking for TLC.                                   *)
(***************************************************************************)
EXTENDS Tracking

CONSTANTS o1, s1, s2, p1, p2, p3, w1, w2, h1

\* One order out on two labels, one of them with two parcels.
MCOrderOf == [s \in Shipments |-> o1]
MCShipmentOf == [p \in Parcels |-> IF p = p3 THEN s2 ELSE s1]
MCFirstTracked == SetToSeq(Shipments)
=============================================================================
