----------------------------- MODULE Threads_MC -----------------------------
EXTENDS Threads

Every ==
  {"fork", "threadfork", "clone", "threadclone", "clonefails", "exit", "wait",
   "join", "threadjoin", "badjoin", "kill", "sbrk", "sbrkfails", "exec",
   "threadexec", "execfails", "fs"}

\* Everything but other file-system calls; without exec(); exec() by main threads
\* only; a process killed from outside its group; slots and addresses of
\* trapframes reused.
MCLoads ==
  {[calls |-> Every \ {"fs"}, slots |-> 3, pids |-> 4, size |-> 1],
   [calls |-> Every \ {"exec", "threadexec"}, slots |-> 3, pids |-> 4, size |-> 2],
   [calls |-> {"fork", "clone", "exit", "wait", "join", "exec", "execfails"}, slots |-> 3, pids |-> 5, size |-> 1],
   [calls |-> {"fork", "clone", "join", "kill", "fs"}, slots |-> 4, pids |-> 4, size |-> 1],
   [calls |-> Peaceful, slots |-> 4, pids |-> 5, size |-> 2]}
=============================================================================
