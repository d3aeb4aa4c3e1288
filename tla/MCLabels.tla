------------------------------ MODULE MCLabels ------------------------------
(***************************************************************************)
(* A small instance of Labels for TLC.                                     *)
(***************************************************************************)
EXTENDS Labels, TLC

CONSTANTS o1, s1, s2, h1, h2, j1, j2

Symmetry == Permutations(Shipments) \cup Permutations(Handlers) \cup Permutations(Jobs)

\* Behaviours are followed until a shipment has had two jobs at work at once and
\* its order two writers as well: after that most properties say nothing.
NotBothAtOnce == doubled = {} \/ overlapped = {}

\* What a second shipment adds is the first one's jobs and replays beside it; that
\* is followed with one request at a time, each job at its first attempt.
FewerBeside ==
    (\A s \in Shipments : status[s] # "NONE") =>
        /\ doubled = {} /\ overlapped = {} /\ orphaned = {}
        /\ \A s \in Shipments : lost[s] = 0
        /\ Cardinality({h \in Handlers : ~ IsIdle(h)}) <= 1
        /\ \A j \in Jobs : job[j].attempt <= 1
=============================================================================
