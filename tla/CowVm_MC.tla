------------------------------ MODULE CowVm_MC ------------------------------
(* Instances of CowVm for TLC. *)
EXTENDS CowVm, TLC

\* Frames and page contents are interchangeable, and so are the slots of the
\* process table but the first.
Symmetry ==
  Permutations(Frames) \cup Permutations(Vals) \cup Permutations(Procs \ {initproc})

\* Two processes with two pages, the first of a program being text; three that
\* share one page.
MCLoads ==
  {[slots |-> 2, pages |-> 2, image |-> 2, text |-> {0}],
   [slots |-> 3, pages |-> 1, image |-> 1, text |-> {}]}
=============================================================================
