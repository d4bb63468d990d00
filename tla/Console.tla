------------------------------ MODULE Console -------------------------------
(***************************************************************************)
(* The console: console.c over uart.c, with the serial line as the device. *)
(* Input goes from the device through uartintr() and consoleintr() into a  *)
(* ring with a line being edited; output from write() through a ring of    *)
(* its own, while the echo goes to the transmit register directly.         *)
(*                                                                         *)
(* The interrupt handler runs with interrupts off on the one CPU: no       *)
(* process moves while it runs (intr), but the device does, and the echo   *)
(* waits for it.  A process's step holds cons.lock or uart_tx_lock.        *)
(* Indices count modulo UINT, the rings are indexed modulo their size.     *)
(***************************************************************************)
EXTENDS Integers, Sequences, FiniteSets, FiniteSetsExt, SequencesExt

CONSTANTS
  Readers, Writers, \* processes whose programs read from and write to the console
  SIZE, UINT,    \* INPUT_BUF_SIZE (128); the indices wrap at UINT (2^32)
  TXSIZE, TXUINT, \* UART_TX_BUF_SIZE (32); its indices wrap at TXUINT (2^64)
  FIFO,          \* characters the receiver keeps
  ReadSizes, Payloads, \* what programs ask for and write
  None

ASSUME ConsoleAssumption ==
  /\ SIZE \in Nat \ {0} /\ UINT \in Nat /\ UINT % SIZE = 0 /\ SIZE < UINT
  /\ TXSIZE \in Nat \ {0} /\ TXUINT \in Nat /\ TXUINT % TXSIZE = 0 /\ TXSIZE < TXUINT

VARIABLES
  buf, r, w, e,  \* cons
  txbuf, txr, txw,
  rx,            \* device: received, not yet read from RHR
  thr,           \* device: what is in THR; None when LSR_TX_IDLE
  txint,         \* device: THR has become empty, and no one has looked
  intr,          \* uartintr(): "no", "rx" in its first loop, "tx" after it
  echo,          \* characters consoleintr() still has to echo
  op, killed     \* processes

Procs == Readers \cup Writers

cons == <<buf, r, w, e>>
tx == <<txbuf, txr, txw>>
vars == <<cons, tx, rx, thr, txint, intr, echo, op, killed>>

\* Keys: a letter, Return, Control-D, Backspace, Control-U.
Keys == {"a", "cr", "D", "H", "U"}
Chars == {"a", "nl", "D"}
Out == UNION {ToSet(s) : s \in Payloads}
Echo == "echo"

\* A read or a write of nothing returns before it comes here.
ASSUME ProgramAssumption ==
  /\ ReadSizes \subseteq Nat \ {0} /\ FIFO \in Nat
  /\ \A s \in Payloads : s \in Seq(Out) /\ s # <<>>
  /\ None # Echo /\ None \notin Out /\ Echo \notin Out

Idle == [at |-> "user", n |-> 0, target |-> 0, rest |-> <<>>]

TypeOK ==
  /\ buf \in [0 .. SIZE - 1 -> Chars] /\ txbuf \in [0 .. TXSIZE - 1 -> Out]
  /\ {r, w, e} \subseteq 0 .. UINT - 1 /\ {txr, txw} \subseteq 0 .. TXUINT - 1
  /\ rx \in Seq(Keys) /\ Len(rx) <= FIFO
  /\ thr \in Out \cup {Echo, None} /\ txint \in BOOLEAN
  /\ intr \in {"no", "rx", "tx"} /\ echo \in 0 .. SIZE
  /\ killed \subseteq Readers
  /\ \A p \in Procs :
       /\ op[p].at \in {"user", "read", "rsleep", "write", "wsleep"}
       /\ op[p].n \in Nat /\ op[p].target \in Nat
       /\ op[p].rest \in Seq(Out)

\* consoleinit() and uartinit(); the rings are zeroed memory.
Init ==
  /\ buf = [i \in 0 .. SIZE - 1 |-> "a"] /\ r = 0 /\ w = 0 /\ e = 0
  /\ \E c \in Out : txbuf = [i \in 0 .. TXSIZE - 1 |-> c]
  /\ txr = 0 /\ txw = 0
  /\ rx = <<>> /\ thr = None /\ txint = FALSE
  /\ intr = "no" /\ echo = 0
  /\ op = [p \in Procs |-> Idle]
  /\ killed = {}

\* Entries from one index to another that wraps at max.
Distance(from, to, max) == (to - from) % max
Count(from, to) == Distance(from, to, UINT)
Char(i) == buf[i % SIZE]

Is(p, where) == intr = "no" /\ op[p].at = where
Goto(p, where) == [op EXCEPT ![p].at = where]

\* wakeup(&cons.r), wakeup(&uart_tx_r).
Woken(o, chan, to) == [q \in Procs |-> IF o[q].at = chan THEN [o[q] EXCEPT !.at = to] ELSE o[q]]

-----------------------------------------------------------------------------
(* The serial line.                                                        *)

DevReceive(c) ==
  /\ Len(rx) < FIFO
  /\ rx' = Append(rx, c)
  /\ UNCHANGED <<cons, tx, thr, txint, intr, echo, op, killed>>

DevSend ==
  /\ thr # None
  /\ thr' = None /\ txint' = TRUE
  /\ UNCHANGED <<cons, tx, rx, intr, echo, op, killed>>

-----------------------------------------------------------------------------
(* uartintr() and consoleintr().                                           *)

UartInterrupt ==
  /\ intr = "no" /\ (rx # <<>> \/ txint)
  /\ intr' = "rx"
  /\ UNCHANGED <<cons, tx, rx, thr, txint, echo, op, killed>>

\* Control-U: everything after w, and Backspace: one of it.  Each is echoed.
KillLine ==
  /\ e' = w /\ echo' = Count(w, e)
  /\ UNCHANGED <<buf, w, op>>

\* Fault: Backspace goes on into what readers may already have.
Backspace_PastW ==
  /\ IF e # r THEN e' = (e - 1) % UINT /\ echo' = 1 ELSE UNCHANGED <<e, echo>>
  /\ UNCHANGED <<buf, w, op>>

Backspace ==
  /\ IF e # w THEN e' = (e - 1) % UINT /\ echo' = 1 ELSE UNCHANGED <<e, echo>>
  /\ UNCHANGED <<buf, w, op>>

\* Fault: only a line end publishes what was typed.
Ends_NotFull(c) == c \in {"nl", "D"}

\* What makes the typed characters readable: the end of a line or of the input,
\* or a full buffer.
Ends(c) == c \in {"nl", "D"} \/ Count(r, e) + 1 = SIZE

\* Any other key: echoed, stored, and published at the end of a line.
Store(c) ==
  IF Count(r, e) < SIZE
  THEN /\ buf' = [buf EXCEPT ![e % SIZE] = c]
       /\ e' = (e + 1) % UINT
       /\ echo' = 1
       /\ IF Ends(c) THEN w' = e' /\ op' = Woken(op, "rsleep", "read") ELSE UNCHANGED <<w, op>>
  ELSE UNCHANGED <<buf, e, echo, w, op>>

consoleintr ==
  /\ intr = "rx" /\ echo = 0 /\ rx # <<>>
  /\ rx' = Tail(rx)
  /\ CASE Head(rx) = "U"  -> KillLine
       [] Head(rx) = "H"  -> Backspace
       [] Head(rx) = "cr" -> Store("nl")
       [] OTHER           -> Store(Head(rx))
  /\ UNCHANGED <<r, tx, thr, txint, intr, killed>>

\* uartputc_sync() spins until THR is free.
uartputc_sync ==
  /\ echo > 0 /\ thr = None
  /\ thr' = Echo /\ txint' = FALSE
  /\ echo' = echo - 1
  /\ UNCHANGED <<cons, tx, rx, intr, op, killed>>

\* uartgetc() finds nothing more.
uartintrRest ==
  /\ intr = "rx" /\ echo = 0 /\ rx = <<>>
  /\ intr' = "tx"
  /\ UNCHANGED <<cons, tx, rx, thr, txint, echo, op, killed>>

\* uartstart() with the ring tb from tr to tw and processes o: the next byte goes
\* to a free THR and writers that wait for room are woken; an empty ring reads
\* ISR.  Either ends the transmit interrupt.
uartstart(tb, tr, tw, o) ==
  IF tw # tr /\ thr = None
  THEN /\ thr' = tb[tr % TXSIZE] /\ txr' = (tr + 1) % TXUINT
       /\ txint' = FALSE
       /\ op' = Woken(o, "wsleep", "write")
  ELSE /\ txint' = (txint /\ tw # tr)
       /\ op' = o
       /\ UNCHANGED <<thr, txr>>

\* Fault: the handler leaves without starting the next byte.
uartintrEnd_NoStart ==
  /\ intr = "tx"
  /\ intr' = "no" /\ txint' = FALSE
  /\ UNCHANGED <<cons, tx, thr, op, rx, echo, killed>>

uartintrEnd ==
  /\ intr = "tx"
  /\ uartstart(txbuf, txr, txw, op)
  /\ intr' = "no"
  /\ UNCHANGED <<cons, txbuf, txw, rx, echo, killed>>

-----------------------------------------------------------------------------
(* Programs.                                                               *)

sys_read(p) ==
  \E n \in ReadSizes :
    /\ Is(p, "user")
    /\ op' = [op EXCEPT ![p] = [Idle EXCEPT !.at = "read", !.n = n, !.target = n]]
    /\ UNCHANGED <<cons, tx, rx, thr, txint, intr, echo, killed>>

\* The characters a read of n takes now: up to the end of the line, or of what
\* is there.  A Control-D in front of them is another matter.
Wanted(n) ==
  LET there == Min({n, Count(r, w)})
      ends  == {i \in 1 .. there : Char(r + i - 1) \in {"nl", "D"}}
  IN  IF ends = {} THEN there
      ELSE IF Char(r + Min(ends) - 1) = "D" THEN Min(ends) - 1 ELSE Min(ends)

\* The Control-D that a read meets stays for the next one, unless it is the first
\* thing this one meets.
AtEof(n) == Wanted(n) < n /\ Wanted(n) < Count(r, w) /\ Char(r + Wanted(n)) = "D"

\* Fault: Control-D is always consumed, so the next read does not see it.
EofTaken_Always(p, k) == 1

EofTaken(p, k) == IF op[p].n - k < op[p].target THEN 0 ELSE 1

Returns(p) == op' = [op EXCEPT ![p] = Idle] /\ killed' = killed \ {p}

\* consoleread(): wait for something to read, then take up to n characters, the
\* end of the line or Control-D; either_copyout() may fail for a character
\* that is taken then.
consoleread(p) ==
  LET n == op[p].n  k == Wanted(n) IN
  /\ Is(p, "read")
  /\ \/ /\ r = w
        /\ IF p \in killed THEN Returns(p) ELSE op' = Goto(p, "rsleep") /\ UNCHANGED killed
        /\ UNCHANGED r
     \/ /\ r # w /\ AtEof(n)
        /\ r' = (r + k + EofTaken(p, k)) % UINT
        /\ Returns(p)
     \/ /\ r # w /\ ~AtEof(n)
        /\ r' = (r + k) % UINT
        /\ IF k = n \/ Char(r + k - 1) = "nl"
           THEN Returns(p)
           ELSE op' = [op EXCEPT ![p].n = n - k] /\ UNCHANGED killed
     \/ \E j \in 1 .. k :
          /\ r' = (r + j) % UINT
          /\ Returns(p)
  /\ UNCHANGED <<buf, w, e, tx, rx, thr, txint, intr, echo>>

sys_write(p) ==
  \E s \in Payloads :
    /\ Is(p, "user")
    /\ op' = [op EXCEPT ![p] = [Idle EXCEPT !.at = "write", !.rest = s]]
    /\ UNCHANGED <<cons, tx, rx, thr, txint, intr, echo, killed>>

\* Fault: a full ring is overwritten.
TxFull_Never == FALSE

TxFull == txw = (txr + TXSIZE) % TXUINT

\* consolewrite() passes one character to uartputc(), which waits for room; the
\* copy from the program may fail instead.
uartputc(p) ==
  LET tb   == [txbuf EXCEPT ![txw % TXSIZE] = Head(op[p].rest)]
      last == Len(op[p].rest) = 1
  IN
  /\ Is(p, "write")
  /\ IF TxFull
     THEN op' = Goto(p, "wsleep") /\ UNCHANGED <<tx, thr, txint>>
     ELSE /\ txbuf' = tb
          /\ txw' = (txw + 1) % TXUINT
          /\ uartstart(tb, txr, txw', [op EXCEPT ![p] = IF last THEN Idle ELSE [op[p] EXCEPT !.rest = Tail(@)]])
  /\ UNCHANGED <<cons, rx, intr, echo, killed>>

WriteFault(p) ==
  /\ Is(p, "write")
  /\ op' = [op EXCEPT ![p] = Idle]
  /\ UNCHANGED <<cons, tx, rx, thr, txint, intr, echo, killed>>

\* kill() wakes a process that is in the console; only consoleread() looks at the
\* mark.  Back in user mode the process ends, and another program takes its
\* place.
kill(p) ==
  /\ intr = "no" /\ op[p].at # "user" /\ p \notin killed
  /\ killed' = IF p \in Readers THEN killed \cup {p} ELSE killed
  /\ op' = [op EXCEPT ![p].at = CASE @ = "rsleep" -> "read" [] @ = "wsleep" -> "write" [] OTHER -> @]
  /\ UNCHANGED <<cons, tx, rx, thr, txint, intr, echo>>

-----------------------------------------------------------------------------
Interrupt == UartInterrupt \/ consoleintr \/ uartputc_sync \/ uartintrRest \/ uartintrEnd

Next ==
  \/ \E c \in Keys : DevReceive(c)
  \/ DevSend
  \/ Interrupt
  \/ \E p \in Readers : sys_read(p) \/ consoleread(p)
  \/ \E p \in Writers : sys_write(p) \/ uartputc(p) \/ WriteFault(p)
  \/ \E p \in Procs : kill(p)

Spec == Init /\ [][Next]_vars

-----------------------------------------------------------------------------
(* Properties.                                                             *)

\* Nobody and nothing is left behind: a reader sleeps only when nothing is ready,
\* a writer only when the ring is full, and characters in the output ring have a
\* busy transmitter or an interrupt to come, although the echo takes the
\* transmitter over at any time.
NothingStranded ==
  /\ \A p \in Procs :
       /\ op[p].at = "rsleep" => r = w /\ p \notin killed
       /\ op[p].at = "wsleep" => txw = (txr + TXSIZE) % TXUINT
  /\ intr = "no" /\ txr # txw => thr # None \/ txint

\* The rings of the console are in order and nobody waits on them in vain.
ConsoleInv == TypeOK /\ NothingStranded

\* A read gets at most one line, and a Control-D ends exactly one read without a
\* character: nothing is taken beyond the end of a line, the read that takes
\* the end returns, and the one that takes a Control-D has nothing else.
ReadsEndAtLine ==
  [][\A p \in Procs :
       LET got == [i \in 1 .. Count(r, r') |-> Char(r + i - 1)] IN
       op[p].at = "read" /\ op'[p] # op[p] =>
         /\ \A i \in DOMAIN got : got[i] \in {"nl", "D"} => i = Len(got) /\ op'[p].at = "user"
         /\ \A i \in DOMAIN got : got[i] = "D" => i = 1 /\ op[p].n = op[p].target]_vars

Between(b, size, max, from, to) == [i \in 1 .. Distance(from, to, max) |-> b[(from + i - 1) % size]]

Input == INSTANCE LineInput WITH
  Size <- SIZE, LineEnds <- {"nl", "D"},
  line <- Between(buf, SIZE, UINT, w, e), ready <- Between(buf, SIZE, UINT, r, w)

\* The three indices implement a line that can be edited until it ends, across
\* the wrap of the ring and of the indices: nothing that ended is changed by
\* Backspace or Control-U, and nothing is lost but what does not fit.
ImplementsLineInput == Input!Spec

Output == INSTANCE Streams WITH
  Pipes <- {"out"}, live <- {"out"}, Bytes <- Out, Size <- TXSIZE + 1,
  stream <- [o \in {"out"} |-> (IF thr \in Out THEN <<thr>> ELSE <<>>) \o Between(txbuf, TXSIZE, TXUINT, txr, txw)]

\* Characters that programs write leave in the order they were accepted, also
\* when the echo takes the transmitter in between.
ImplementsOutput == Output!Spec
=============================================================================
