------------------------------- MODULE Log_MC -------------------------------
EXTENDS Log

CONSTANTS p1, p2, p3, a, b, c, d

\* Two calls of two blocks, whose contents matter; three calls that fill the log.
MCLoads ==
  {[procs |-> {p1, p2}, blocks |-> {a, b}, ops |-> 2, vals |-> {0, 1}, recycles |-> TRUE],
   [procs |-> {p1, p2, p3}, blocks |-> {a, b, c, d}, ops |-> 1, vals |-> {0}, recycles |-> FALSE]}
=============================================================================
