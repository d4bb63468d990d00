--------------------------- MODULE FileSystem_MC ----------------------------
EXTENDS FileSystem

A == [abs |-> TRUE, elems |-> <<"a">>]
B == [abs |-> TRUE, elems |-> <<"b">>]
AA == [abs |-> TRUE, elems |-> <<"a", "a">>]
Here == [abs |-> FALSE, elems |-> <<"a">>]

Program(calls, paths, modes) == [calls |-> calls, paths |-> paths, modes |-> modes]

\* Directories; names of files; symbolic links and devices.
MCPrograms ==
  {Program({"mkdir", "unlink", "chdir"}, {A, Here}, {}),
   Program({"mkdir", "unlink"}, {A, AA}, {}),
   Program({"mkdir", "open"}, {A, AA}, {"read", "write"}),
   Program({"creat", "link", "unlink"}, {A, B}, {}),
   Program({"mkdir", "link"}, {A, B}, {}),
   Program({"creat", "close", "unlink"}, {A}, {}),
   Program({"symlink", "mkdir", "open"}, {A, B}, {"write"}),
   Program({"symlink", "mknod", "open"}, {A}, {"nofollow"})}
=============================================================================
