---------------------------- MODULE FileTable_MC ----------------------------
EXTENDS FileTable

\* A write that is longer than the pipe of the instance.
MCPayloads == {<<"a", "b", "b">>}
=============================================================================
