----------------------------- MODULE Console_MC -----------------------------
EXTENDS Console

\* A write that does not fit into the output ring of the instance at once.
MCPayloads == {<<"x", "y">>}
=============================================================================
