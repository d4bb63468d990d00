---------------------------- MODULE BlockMap_MC -----------------------------
EXTENDS BlockMap

CONSTANTS p1, p2, i1, i2

\* Two processes on one file and an empty disk; on two files and a full one.
MCStarts ==
  {[ip |-> (p1 :> i1 @@ p2 :> i1), val |-> (p1 :> 1 @@ p2 :> 1), size |-> (p1 :> 11 @@ p2 :> 7), taken |-> {}],
   [ip |-> (p1 :> i1 @@ p2 :> i2), val |-> (p1 :> 1 @@ p2 :> 2), size |-> (p1 :> 5 @@ p2 :> 5), taken |-> {1, 3, 4, 7, 9, 10}]}
=============================================================================
