--------------------------- MODULE MCHnsWorkflows ---------------------------
(***************************************************************************)
(* HnsWorkflows for TLC: pairs of workflows that contend for a coin or for *)
(* a name, and single workflows driven by two threads.                     *)
(***************************************************************************)
EXTENDS HnsWorkflows

CONSTANTS s1, s2, x1, f1, u1, p1, k1, t1, t2

Setup(flows, workers, bound) == [cast |-> flows, threads |-> workers, upsets |-> bound]
AllSetups ==
    {Setup(pair, {t1}, 0) : pair \in {{s1, s2}, {p1, s1}}}
    \cup {Setup(pair, {t1}, 1) : pair \in {{x1, s1}, {x1, u1}, {k1, s1}}}
    \cup {Setup({w}, {t1, t2}, 1) : w \in {s1, p1, k1}}
    \cup {Setup({x1}, {t1, t2}, 2), Setup({p1}, {t1}, 2), Setup({f1}, {t1}, 1)}
=============================================================================
