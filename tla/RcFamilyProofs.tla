--------------------------- MODULE RcFamilyProofs ---------------------------
(***************************************************************************)
(* Proofs that the processes of rc find the children they wait for, for    *)
(* every session and every number of processes.  A process that waits for  *)
(* a command or for a backquote is always the parent of a process that     *)
(* nobody has collected.  The same holds of the left sides of pipelines,   *)
(* as long as the kernel gives no new process the number that some shell   *)
(* still has in $apid.  First, what all proofs about the interpreter of rc *)
(* rest on: the invariant of its processes and threads, and lemmas about   *)
(* sequences, records, code and the stack of threads.                      *)
(***************************************************************************)
EXTENDS RcFrames, TLAPS

\* Time for a leaf: in a module of this size tlapm itself is busy for seconds at a time.
USE SMTT(20), ZenonT(20)

-----------------------------------------------------------------------------
(***************************************************************************)
(* The invariant.  It speaks of one process at a time; P is the session    *)
(* and r the record of process p.                                          *)
(***************************************************************************)
ProcFields ==
    {"st", "par", "q", "base", "status", "ifnot", "mode", "wpid", "keep", "trap", "ntrap",
     "sig", "intr", "been", "fns", "apid", "to", "bq", "code", "leaf"}
ThreadFields == {"code", "pc", "argv", "redir", "local", "pid", "pst", "iflag", "next"}

IsSeq(s) == \E S : s \in Seq(S)
IsFcn(f, S) == f = [x \in S |-> f[x]]

CodeIn(P, c) == IF c = BOOT THEN bootstrap ELSE IF c = DOT THEN dotcmds ELSE P.code[c]

\* The shapes of rc's own code.
Held(i, j, k) == [argv |-> i, redir |-> j, local |-> k, child |-> FALSE]
bootHeld == <<Held(0, 0, 0)>>
dotHeld == <<Held(2, 1, 0), Held(3, 1, 0), Held(1, 1, 1), Held(2, 1, 1), Held(0, 1, 2),
             Held(0, 1, 2), Held(0, 1, 1), Held(0, 1, 0)>>
ShapeIn(P, c) == IF c = BOOT THEN bootHeld ELSE IF c = DOT THEN dotHeld ELSE Shape(P.code[c])

\* A thread is at a cell of its code and holds what the code says.
ThreadOK(P, t) ==
    LET x == ShapeIn(P, t.code)[t.pc]
    IN  /\ IsFcn(t, ThreadFields)
        /\ t.code \in {BOOT, DOT} \cup DOMAIN P.code /\ t.pc \in DOMAIN CodeIn(P, t.code)
        /\ t.argv \in Int /\ t.argv >= x.argv /\ t.redir \in Int /\ t.redir >= x.redir
        /\ t.local \in Int /\ t.local >= x.local
        /\ t.pid \in Int /\ t.iflag \in BOOLEAN /\ t.next \in Nat

\* A function begins where a thread with its arguments may.
FnOK(P, f) ==
    /\ f.code \in DOMAIN P.code /\ f.pc \in DOMAIN P.code[f.code]
    /\ LET x == Shape(P.code[f.code])[f.pc]
       IN  x.argv = 0 /\ x.redir = 0 /\ x.local <= 1 /\ ~x.child

\* Sessions in which no child can come to read the terminal: an error takes a shell
\* back to its command loop, and the child of a backquote has that of its parent.
Calm(P) ==
    P.iflag /\ P.errs > 0 => \A k \in DOMAIN P.code : \A a \in DOMAIN P.code[k] :
                                P.code[k][a].f # "Xbackq"

\* A child's first thread, the one above `base', is in code that ends in Xexit; that
\* thread and those above it run code of the session.
ChildOK(P, r) ==
    /\ r.mode # "parse" /\ Len(r.q) > r.base
    /\ ShapeIn(P, r.q[r.base + 1].code)[r.q[r.base + 1].pc].child
    /\ \A i \in r.base + 1 .. Len(r.q) : r.q[i].code \in DOMAIN P.code
    /\ P.errs > 0 => \A i \in 1 .. Len(r.q) : ~r.q[i].iflag

IsProc(r) ==
    /\ IsFcn(r, ProcFields) /\ IsFcn(r.fns, FnNames)
    /\ r.st \in {"free", "rc", "cmd", "zombie"}
    /\ r.mode \in {"run", "trap", "simple", "wait", "read", "parse"}
    /\ r.base \in Nat /\ IsSeq(r.q)

ShellOK(P, p, r) ==
    /\ r.q # <<>> /\ \A i \in 1 .. Len(r.q) : ThreadOK(P, r.q[i])
    /\ \A f \in FnNames : r.fns[f] # NoFn => FnOK(P, r.fns[f])
    /\ Calm(P) => /\ \A i \in 1 .. Len(r.q) : r.q[i].iflag => P.iflag
                  /\ p # Main => ChildOK(P, r)

ProcOK(P, p, r) == IsProc(r) /\ (r.st = "rc" => ShellOK(P, p, r))

FrameInv ==
    /\ prog \in Progs /\ errs \in Nat /\ errs <= prog.errs
    /\ IsFcn(proc, Pids) /\ \A p \in Pids : ProcOK(prog, p, proc[p])

-----------------------------------------------------------------------------
(***************************************************************************)
(* Sequences.                                                              *)
(***************************************************************************)
\* A sequence has the indices 1 to its length.
LEMMA SeqIs ==
    ASSUME NEW q, IsSeq(q)
    PROVE  Len(q) \in Nat /\ DOMAIN q = 1 .. Len(q) /\ (q = <<>> <=> Len(q) = 0)
  <1>1. PICK S : q \in Seq(S)
    BY Zenon DEF IsSeq
  <1> QED BY <1>1

\* Append adds one element at the end.
LEMMA AppendIs ==
    ASSUME NEW q, NEW t, IsSeq(q)
    PROVE  /\ IsSeq(Append(q, t)) /\ Append(q, t) # <<>> /\ Len(Append(q, t)) = Len(q) + 1
           /\ \A i \in 1 .. Len(q) : Append(q, t)[i] = q[i]
           /\ Append(q, t)[Len(q) + 1] = t
  <1>1. PICK S : q \in Seq(S)
    BY ZenonT(30) DEF IsSeq
  <1>2. q \in Seq(S \cup {t}) /\ t \in S \cup {t}
    BY <1>1
  <1>3. Append(q, t) \in Seq(S \cup {t})
    BY <1>2
  <1> QED BY <1>2, <1>3 DEF IsSeq

\* The first n elements.
LEMMA PrefixIs ==
    ASSUME NEW q, IsSeq(q), NEW n \in 0 .. Len(q)
    PROVE  /\ IsSeq(SubSeq(q, 1, n)) /\ Len(SubSeq(q, 1, n)) = n
           /\ \A i \in 1 .. n : SubSeq(q, 1, n)[i] = q[i]
  <1>1. PICK S : q \in Seq(S)
    BY Zenon DEF IsSeq
  <1>2. n \in Int /\ Len(q) \in Nat
    BY SeqIs
  <1>4. SubSeq(q, 1, n) \in Seq(S)
    BY <1>1, <1>2
  <1>5. Len(SubSeq(q, 1, n)) = n
    BY <1>1, <1>2
  <1>6. \A i \in 1 .. n : SubSeq(q, 1, n)[i] = q[i]
    BY <1>1, <1>2
  <1> QED BY <1>2, <1>4, <1>5, <1>6, Zenon DEF IsSeq

\* A sequence with one element replaced.
Replaced(q, n, t) == [q EXCEPT ![n] = t]

\* A sequence with one element replaced.
LEMMA ReplacedIs ==
    ASSUME NEW q, NEW n \in 1 .. Len(q), NEW t, IsSeq(q)
    PROVE  /\ IsSeq(Replaced(q, n, t)) /\ Len(Replaced(q, n, t)) = Len(q)
           /\ Replaced(q, n, t)[n] = t
           /\ \A i \in 1 .. Len(q) : i # n => Replaced(q, n, t)[i] = q[i]
  <1> DEFINE s == [q EXCEPT ![n] = t]
  <1>1. PICK S : q \in Seq(S)
    BY Zenon DEF IsSeq
  <1>2. q \in Seq(S \cup {t}) /\ t \in S \cup {t}
    BY <1>1
  <1>3. s \in Seq(S \cup {t})
    BY <1>2
  <1>4. Len(s) = Len(q)
    BY <1>2, <1>3
  <1>5. DOMAIN q = 1 .. Len(q)
    BY SeqIs, Zenon
  <1>6. s[n] = t
    BY <1>5, Zenon
  <1>7. \A i \in 1 .. Len(q) : i # n => s[i] = q[i]
    BY <1>5, Zenon
  <1> QED BY <1>3, <1>4, <1>6, <1>7, Zenon DEF IsSeq, Replaced

\* A set of natural numbers has a smallest element.  A hypothesis of what rests on it,
\* which is shown at the end, in module RcFrameProofs.
Ordered == \A T \in SUBSET Nat : T # {} => \E x \in T : \A y \in T : x <= y

\* A set of natural numbers that has a bound has a greatest element.
LEMMA MaxIs ==
    ASSUME Ordered, NEW n \in Nat, NEW T \in SUBSET (0 .. n), T # {}
    PROVE  Max(T) \in T /\ \A y \in T : y <= Max(T)
  <1> DEFINE U == {n - x : x \in T}
  <1>0. \A x \in T : n - x \in Nat
    OBVIOUS
  <1>1. U \subseteq Nat /\ U # {}
    BY <1>0, Zenon
  <1>2. PICK u \in U : \A v \in U : u <= v
    BY <1>1, Zenon DEF Ordered
  <1>3. \A v \in U : ~(v < u)
    BY <1>1, <1>2
  <1>4. n - u \in T /\ \A y \in T : n - u >= y
    BY <1>3
  <1>5. \E x \in T : \A y \in T : x >= y
    BY <1>4, Zenon
  <1>6. Max(T) \in T /\ \A y \in T : Max(T) >= y
    BY <1>5, Zenon DEF Max
  <1> QED BY <1>6, Zenon

\* Uncover() takes a sequence to a prefix whose last thread is that of a terminal.
LEMMA UncoverIs ==
    ASSUME Ordered, NEW q, IsSeq(q)
    PROVE  \E n \in 0 .. Len(q) : Uncover(q) = SubSeq(q, 1, n) /\ (n > 0 => q[n].iflag)
  <1> DEFINE T == {0} \cup {i \in DOMAIN q : q[i].iflag}
  <1>1. Len(q) \in Nat /\ DOMAIN q = 1 .. Len(q)
    BY SeqIs, Zenon
  <1>2. T \in SUBSET (0 .. Len(q)) /\ T # {}
    BY <1>1
  <1>3. Max(T) \in T
    BY <1>1, <1>2, MaxIs, Zenon
  <1>4. Max(T) \in 0 .. Len(q) /\ (Max(T) > 0 => q[Max(T)].iflag)
    BY <1>1, <1>3
  <1> QED BY <1>4, Zenon DEF Uncover

-----------------------------------------------------------------------------
(***************************************************************************)
(* Records.  Same(r, s): s differs from r in its threads, in what it is    *)
(* blocked in, or in what no property here looks at.                       *)
(***************************************************************************)
Same(r, s) ==
    /\ IsProc(s) /\ s.st = r.st /\ s.par = r.par /\ s.base = r.base /\ s.fns = r.fns
    /\ s.apid = r.apid

Running == {"run", "trap"}

\* Back in the interpreter's loop.
LEMMA LoopIs ==
    ASSUME NEW r, IsProc(r)
    PROVE  /\ Same(r, Loop(r)) /\ Loop(r).q = r.q /\ Loop(r).wpid = r.wpid
           /\ Loop(r).mode \in Running
  BY Zenon DEF Loop, Same, IsProc, IsFcn, ProcFields, Running

\* The thread on top is replaced.
LEMMA SetTopIs ==
    ASSUME NEW r, NEW t, IsProc(r), r.q # <<>>
    PROVE  /\ Same(r, SetTop(r, t)) /\ SetTop(r, t).q = [r.q EXCEPT ![Len(r.q)] = t]
           /\ SetTop(r, t).wpid = r.wpid /\ SetTop(r, t).mode = r.mode
  <1>0. IsSeq(r.q) /\ Len(r.q) \in 1 .. Len(r.q)
    BY SeqIs DEF IsProc
  <1>1. IsSeq([r.q EXCEPT ![Len(r.q)] = t])
    BY <1>0, ReplacedIs, Zenon DEF Replaced
  <1> QED BY <1>1, Zenon DEF SetTop, Same, IsProc, IsFcn, ProcFields

\* A thread is put on top.
LEMMA PushIs ==
    ASSUME NEW r, NEW t, IsProc(r)
    PROVE  /\ Same(r, Push(r, t)) /\ Push(r, t).q = Append(r.q, t)
           /\ Push(r, t).wpid = r.wpid /\ Push(r, t).mode = r.mode
  <1>1. IsSeq(Append(r.q, t))
    BY AppendIs, Zenon DEF IsProc
  <1> QED BY <1>1, Zenon DEF Push, Same, IsProc, IsFcn, ProcFields

\* The process begins to wait.
LEMMA WaitsIs ==
    ASSUME NEW r, NEW m \in {"simple", "wait", "read"}, NEW w, NEW s, IsProc(r)
    PROVE  /\ Same(r, Waits(r, m, w, s)) /\ Waits(r, m, w, s).q = r.q
           /\ Waits(r, m, w, s).wpid = w /\ Waits(r, m, w, s).mode = m
  BY Zenon DEF Waits, Same, IsProc, IsFcn, ProcFields

\* The process stops waiting.
LEMMA WaitedIs ==
    ASSUME NEW r, IsProc(r)
    PROVE  Same(r, Waited(r)) /\ Waited(r).q = r.q /\ Waited(r).mode \in Running
  <1> DEFINE s == [r EXCEPT !.status = concstatus(@, r.keep), !.keep = <<>>, !.wpid = 0]
  <1>1. Same(r, s) /\ s.q = r.q
    BY Zenon DEF Same, IsProc, IsFcn, ProcFields
  <1> HIDE DEF s
  <1>2. Same(s, Loop(s)) /\ Loop(s).q = s.q /\ Loop(s).mode \in Running
    BY <1>1, LoopIs, Zenon DEF Same
  <1>3. Waited(r) = Loop(s)
    BY Zenon DEF Waited, s
  <1> QED BY <1>1, <1>2, <1>3, Zenon DEF Same

\* The record of a number that is free.
LEMMA NoProcIs == IsProc(NoProc) /\ NoProc.st = "free"
  <1>1. IsSeq(<<>>)
    BY <<>> \in Seq({}), Zenon DEF IsSeq
  <1> QED BY <1>1, Zenon DEF NoProc, IsProc, IsFcn, ProcFields

-----------------------------------------------------------------------------
(***************************************************************************)
(* Code.                                                                   *)
(***************************************************************************)
CodeNames(P) == {BOOT, DOT} \cup DOMAIN P.code

\* A session's lines have numbers of their own.
LEMMA LinesAre ==
    ASSUME NEW P \in Progs, NEW c \in DOMAIN P.code
    PROVE  /\ c \in Nat \ {0} /\ c # BOOT /\ c # DOT /\ CodeIn(P, c) = P.code[c]
           /\ ShapeIn(P, c) = Shape(P.code[c]) /\ WellMade(P.code[c])
  <1>1. P.code \in Seq(Seq(Cells))
    BY ProgsAssumption, Zenon
  <1>2. c \in 1 .. Len(P.code) /\ Len(P.code) \in Nat
    BY <1>1
  <1> QED BY <1>2, CompilerAssumption DEF BOOT, DOT, CodeIn, ShapeIn

\* rc's own code: the operations of the command loop, and what lies under it.
LEMMA OwnCodeIs ==
    /\ DOMAIN bootstrap = {1} /\ bootstrap[1].f = "Xexit" /\ bootHeld[1] = Held(0, 0, 0)
    /\ DOMAIN dotcmds = 1 .. 8
    /\ dotcmds[1].f = "Xmark" /\ dotHeld[1] = Held(2, 1, 0)
    /\ dotcmds[2].f = "Xlocal" /\ dotHeld[2] = Held(3, 1, 0)
    /\ dotcmds[3].f = "Xmark" /\ dotHeld[3] = Held(1, 1, 1)
    /\ dotcmds[4].f = "Xlocal" /\ dotHeld[4] = Held(2, 1, 1)
    /\ dotcmds[5].f = "Xrdcmds" /\ dotHeld[5] = Held(0, 1, 2)
    /\ dotcmds[6].f = "Xunlocal" /\ dotHeld[6] = Held(0, 1, 2)
    /\ dotcmds[7].f = "Xunlocal" /\ dotHeld[7] = Held(0, 1, 1)
    /\ dotcmds[8].f = "Xreturn" /\ dotHeld[8] = Held(0, 1, 0)
  <1>1. DOMAIN bootstrap = {1}
    BY DEF bootstrap
  <1>2. bootstrap[1].f = "Xexit" /\ bootHeld[1] = Held(0, 0, 0)
    BY Zenon DEF bootstrap, bootHeld, cell
  <1>3. DOMAIN dotcmds = 1 .. 8
    BY DEF dotcmds
  <1>4. dotcmds[1].f = "Xmark" /\ dotHeld[1] = Held(2, 1, 0)
    BY Zenon DEF dotcmds, dotHeld, cell
  <1>5. dotcmds[2].f = "Xlocal" /\ dotHeld[2] = Held(3, 1, 0)
    BY Zenon DEF dotcmds, dotHeld, cell
  <1>6. dotcmds[3].f = "Xmark" /\ dotHeld[3] = Held(1, 1, 1)
    BY Zenon DEF dotcmds, dotHeld, cell
  <1>7. dotcmds[4].f = "Xlocal" /\ dotHeld[4] = Held(2, 1, 1)
    BY Zenon DEF dotcmds, dotHeld, cell
  <1>8. dotcmds[5].f = "Xrdcmds" /\ dotHeld[5] = Held(0, 1, 2)
    BY Zenon DEF dotcmds, dotHeld, cell
  <1>9. dotcmds[6].f = "Xunlocal" /\ dotHeld[6] = Held(0, 1, 2)
    BY Zenon DEF dotcmds, dotHeld, cell
  <1>10. dotcmds[7].f = "Xunlocal" /\ dotHeld[7] = Held(0, 1, 1)
    BY Zenon DEF dotcmds, dotHeld, cell
  <1>11. dotcmds[8].f = "Xreturn" /\ dotHeld[8] = Held(0, 1, 0)
    BY Zenon DEF dotcmds, dotHeld, cell
  <1> QED BY <1>1, <1>2, <1>3, <1>4, <1>5, <1>6, <1>7, <1>8, <1>9, <1>10, <1>11, Zenon

\* Every cell agrees with the cells it leads to, in the session's code and in rc's own.
LEMMA CodeIs ==
    ASSUME NEW P \in Progs, NEW c \in CodeNames(P), NEW a \in DOMAIN CodeIn(P, c)
    PROVE  /\ a \in Nat /\ ShapeIn(P, c)[a] \in Shapes
           /\ Agrees(CodeIn(P, c), ShapeIn(P, c), a)
           /\ CodeIn(P, c)[a].f = "Xrdcmds" => c = DOT
  <1>1. CASE c = BOOT
    <2>1. CodeIn(P, c) = bootstrap /\ ShapeIn(P, c) = bootHeld /\ a = 1
      BY <1>1, OwnCodeIs, Zenon DEF CodeIn, ShapeIn
    <2>2. Agrees(bootstrap, bootHeld, 1)
      BY OwnCodeIs DEF Held, Agrees, Needs
    <2> QED BY <2>1, <2>2, OwnCodeIs DEF Held, Shapes
  <1>2. CASE c = DOT
    <2>1. CodeIn(P, c) = dotcmds /\ ShapeIn(P, c) = dotHeld
      BY <1>2 DEF CodeIn, ShapeIn, BOOT, DOT
    <2>2. a \in 1 .. 8
      BY <2>1, OwnCodeIs, Zenon
    <2>3. Agrees(dotcmds, dotHeld, 1)
      <3>1. /\ 1 + 1 \in DOMAIN dotcmds
            /\ dotHeld[1] = Held(2, 1, 0) /\ dotHeld[1 + 1] = Held(3, 1, 0)
        BY OwnCodeIs
      <3>2. Leads(dotcmds, dotHeld, 1, 1 + 1, 1, 0, 0)
        BY <3>1 DEF Held, Leads
      <3> QED BY <3>1, <3>2, OwnCodeIs DEF Held, Agrees, Needs
    <2>4. Agrees(dotcmds, dotHeld, 2)
      <3>1. /\ 2 + 1 \in DOMAIN dotcmds
            /\ dotHeld[2] = Held(3, 1, 0) /\ dotHeld[2 + 1] = Held(1, 1, 1)
        BY OwnCodeIs
      <3>2. Leads(dotcmds, dotHeld, 2, 2 + 1, -2, 0, 1)
        BY <3>1 DEF Held, Leads
      <3> QED BY <3>1, <3>2, OwnCodeIs DEF Held, Agrees, Needs
    <2>5. Agrees(dotcmds, dotHeld, 3)
      <3>1. /\ 3 + 1 \in DOMAIN dotcmds
            /\ dotHeld[3] = Held(1, 1, 1) /\ dotHeld[3 + 1] = Held(2, 1, 1)
        BY OwnCodeIs
      <3>2. Leads(dotcmds, dotHeld, 3, 3 + 1, 1, 0, 0)
        BY <3>1 DEF Held, Leads
      <3> QED BY <3>1, <3>2, OwnCodeIs DEF Held, Agrees, Needs
    <2>6. Agrees(dotcmds, dotHeld, 4)
      <3>1. /\ 4 + 1 \in DOMAIN dotcmds
            /\ dotHeld[4] = Held(2, 1, 1) /\ dotHeld[4 + 1] = Held(0, 1, 2)
        BY OwnCodeIs
      <3>2. Leads(dotcmds, dotHeld, 4, 4 + 1, -2, 0, 1)
        BY <3>1 DEF Held, Leads
      <3> QED BY <3>1, <3>2, OwnCodeIs DEF Held, Agrees, Needs
    <2>7. Agrees(dotcmds, dotHeld, 5)
      BY OwnCodeIs DEF Held, Agrees, Needs
    <2>8. Agrees(dotcmds, dotHeld, 6)
      <3>1. /\ 6 + 1 \in DOMAIN dotcmds
            /\ dotHeld[6] = Held(0, 1, 2) /\ dotHeld[6 + 1] = Held(0, 1, 1)
        BY OwnCodeIs
      <3>2. Leads(dotcmds, dotHeld, 6, 6 + 1, 0, 0, -1)
        BY <3>1 DEF Held, Leads
      <3> QED BY <3>1, <3>2, OwnCodeIs DEF Held, Agrees, Needs
    <2>9. Agrees(dotcmds, dotHeld, 7)
      <3>1. /\ 7 + 1 \in DOMAIN dotcmds
            /\ dotHeld[7] = Held(0, 1, 1) /\ dotHeld[7 + 1] = Held(0, 1, 0)
        BY OwnCodeIs
      <3>2. Leads(dotcmds, dotHeld, 7, 7 + 1, 0, 0, -1)
        BY <3>1 DEF Held, Leads
      <3> QED BY <3>1, <3>2, OwnCodeIs DEF Held, Agrees, Needs
    <2>10. Agrees(dotcmds, dotHeld, 8)
      BY OwnCodeIs DEF Held, Agrees, Needs
    <2>11. dotHeld[a] \in Shapes
      <3>1. \A i, j, k \in Nat : Held(i, j, k) \in Shapes
        BY Zenon DEF Held, Shapes
      <3> QED BY <2>2, <3>1, OwnCodeIs
    <2> QED BY <1>2, <2>1, <2>2, <2>3, <2>4, <2>5, <2>6, <2>7, <2>8, <2>9, <2>10, <2>11
  <1>3. CASE c \in DOMAIN P.code
    <2>1. /\ CodeIn(P, c) = P.code[c] /\ ShapeIn(P, c) = Shape(P.code[c])
          /\ WellMade(P.code[c])
      BY <1>3, LinesAre, Zenon
    <2>2. a \in 1 .. Len(P.code[c]) /\ Len(P.code[c]) \in Nat
      BY <2>1 DEF WellMade
    <2> QED BY <2>1, <2>2 DEF WellMade
  <1> QED BY <1>1, <1>2, <1>3, Zenon DEF CodeNames

\* A function's name and its place are right.
LEMMA FnCellIs ==
    ASSUME NEW P \in Progs, NEW c \in CodeNames(P), NEW a \in DOMAIN CodeIn(P, c),
           CodeIn(P, c)[a].f \in {"Xfn", "Xdelfn"}
    PROVE  /\ CodeIn(P, c)[a].c \in FnNames
           /\ CodeIn(P, c)[a].f = "Xfn" => FnOK(P, [code |-> c, pc |-> a + 1])
  <1>1. Agrees(CodeIn(P, c), ShapeIn(P, c), a)
    BY CodeIs, Zenon
  <1>a. c # BOOT
    BY OwnCodeIs, Zenon DEF CodeIn
  <1>b. c # DOT
    BY OwnCodeIs DEF CodeIn, BOOT, DOT
  <1>2. c \in DOMAIN P.code
    BY <1>a, <1>b, Zenon DEF CodeNames
  <1>3. CodeIn(P, c) = P.code[c] /\ ShapeIn(P, c) = Shape(P.code[c])
    BY <1>2, LinesAre, Zenon
  <1>4. CodeIn(P, c)[a].f = "Xfn" => Starts(CodeIn(P, c), ShapeIn(P, c), a + 1, 0, 1, FALSE)
    BY <1>1, Zenon DEF Agrees
  <1>5. a + 1 \in DOMAIN CodeIn(P, c) => ShapeIn(P, c)[a + 1] \in Shapes
    BY CodeIs, Zenon
  <1>6. CodeIn(P, c)[a].f = "Xfn" => FnOK(P, [code |-> c, pc |-> a + 1])
    BY <1>2, <1>3, <1>4, <1>5 DEF FnOK, Starts, Shapes
  <1> QED BY <1>1, <1>6, Zenon DEF Agrees

-----------------------------------------------------------------------------
(***************************************************************************)
(* Threads.                                                                *)
(***************************************************************************)
\* The running thread goes on at cell b.
Moved(t, b, i, j, k) ==
    [t EXCEPT !.pc = b, !.argv = @ + i, !.redir = @ + j, !.local = @ + k]

\* A new thread begins where the code says.
Started(c, b, l, j) == [start(c, b, l) EXCEPT !.redir = j]

\* A command takes its list of words, and a thread jumps behind code that a child runs.
Popped(t, b) == [t EXCEPT !.pc = b, !.argv = @ - 1]
Jumped(t, b) == [t EXCEPT !.pc = b]
Piped(t, b, n) == [t EXCEPT !.pc = b, !.pid = n]
Opened(t, b) == [t EXCEPT !.pc = b, !.redir = @ + 1]

\* One thread of the stack changes its pid and the status it remembers.
Remembered(r, k, c) == [r EXCEPT !.q[k].pid = -1, !.q[k].pst = c]
Remembers(t, c) == [t EXCEPT !.pid = -1, !.pst = c]

Reading(t, n) == [t EXCEPT !.next = n]

\* A backquote's child keeps the threads under it.
Kept(r, u, p) ==
    [Push(r, u) EXCEPT !.to = p, !.bq = @ \cup {p}, !.base = Len(r.q)]

\* The running thread of a shell is at a cell that says what it holds.
LEMMA TopIs ==
    ASSUME FrameInv, NEW p \in Pids, proc[p].st = "rc"
    PROVE  /\ prog \in Progs /\ IsProc(proc[p]) /\ ShellOK(prog, p, proc[p])
           /\ Top(p) = proc[p].q[Len(proc[p].q)] /\ ThreadOK(prog, Top(p))
           /\ Top(p).code \in CodeNames(prog) /\ Code(Top(p).code) = CodeIn(prog, Top(p).code)
           /\ Top(p).pc \in DOMAIN CodeIn(prog, Top(p).code) /\ Top(p).pc \in Nat
           /\ Agrees(CodeIn(prog, Top(p).code), ShapeIn(prog, Top(p).code), Top(p).pc)
           /\ Here(p) = CodeIn(prog, Top(p).code)[Top(p).pc]
           /\ ShapeIn(prog, Top(p).code)[Top(p).pc] \in Shapes
           /\ IsSeq(proc[p].q) /\ Len(proc[p].q) \in 1 .. Len(proc[p].q) /\ Len(proc[p].q) \in Nat
  <1>1. prog \in Progs /\ IsProc(proc[p]) /\ ShellOK(prog, p, proc[p])
    BY Zenon DEF FrameInv, ProcOK
  <1>2. IsSeq(proc[p].q) /\ proc[p].q # <<>>
    BY <1>1, Zenon DEF IsProc, ShellOK
  <1>3. Len(proc[p].q) \in 1 .. Len(proc[p].q) /\ Len(proc[p].q) \in Nat
    BY <1>2, SeqIs
  <1>4. Top(p) = proc[p].q[Len(proc[p].q)]
    BY Zenon DEF Top
  <1>5. ThreadOK(prog, Top(p))
    BY <1>1, <1>3, <1>4, Zenon DEF ShellOK
  <1>6. Top(p).code \in CodeNames(prog) /\ Top(p).pc \in DOMAIN CodeIn(prog, Top(p).code)
    BY <1>5, Zenon DEF ThreadOK, CodeNames
  <1>7. Code(Top(p).code) = CodeIn(prog, Top(p).code)
    BY Zenon DEF Code, CodeIn
  <1>8. /\ Top(p).pc \in Nat /\ ShapeIn(prog, Top(p).code)[Top(p).pc] \in Shapes
        /\ Agrees(CodeIn(prog, Top(p).code), ShapeIn(prog, Top(p).code), Top(p).pc)
    BY <1>1, <1>6, CodeIs, Zenon
  <1>9. Here(p) = CodeIn(prog, Top(p).code)[Top(p).pc]
    BY <1>7, Zenon DEF Here
  <1> QED BY <1>1, <1>2, <1>3, <1>4, <1>5, <1>6, <1>7, <1>8, <1>9, Zenon

\* A record whose threads are replaced by the first ones of them.
LEMMA CutIs ==
    ASSUME NEW r, IsProc(r), NEW n \in 0 .. Len(r.q), NEW q, q = SubSeq(r.q, 1, n)
    PROVE  LET s == [r EXCEPT !.q = q]
           IN  Same(r, s) /\ s.q = q /\ s.mode = r.mode
  <1>1. IsSeq(q)
    BY PrefixIs, Zenon DEF IsProc
  <1> QED BY <1>1, Zenon DEF Same, IsProc, IsFcn, ProcFields

\* The threads up to that of a terminal's command loop.
LEMMA UncoveredIs ==
    ASSUME Ordered, NEW r, IsProc(r)
    PROVE  \E n \in 0 .. Len(r.q) :
              /\ n > 0 => r.q[n].iflag
              /\ Uncover(r.q) = <<>> <=> n = 0
              /\ Uncover(r.q) = SubSeq(r.q, 1, n)
              /\ Same(r, [r EXCEPT !.q = Uncover(@)])
              /\ [r EXCEPT !.q = Uncover(@)].q = SubSeq(r.q, 1, n)
              /\ [r EXCEPT !.q = Uncover(@)].mode = r.mode
  <1>1. IsSeq(r.q)
    BY Zenon DEF IsProc
  <1>2. PICK n \in 0 .. Len(r.q) : Uncover(r.q) = SubSeq(r.q, 1, n) /\ (n > 0 => r.q[n].iflag)
    BY <1>1, UncoverIs, Zenon
  <1> DEFINE q == Uncover(r.q)
  <1>3. IsSeq(q) /\ Len(q) = n
    BY <1>1, <1>2, PrefixIs, ZenonT(30)
  <1> HIDE DEF q
  <1>4. q = <<>> <=> n = 0
    BY <1>3, SeqIs, Zenon
  <1>5. /\ Same(r, [r EXCEPT !.q = q]) /\ [r EXCEPT !.q = q].q = q
        /\ [r EXCEPT !.q = q].mode = r.mode
    BY <1>3, Zenon DEF Same, IsProc, IsFcn, ProcFields
  <1> QED BY <1>2, <1>4, <1>5, Zenon DEF q

\* The process of a command.
LEMMA ExecIs ==
    ASSUME NEW r, NEW c
    PROVE  IsProc(Exec(r, c)) /\ Exec(r, c).st = "cmd" /\ Exec(r, c).par = r.par
  BY NoProcIs, ZenonT(30) DEF Exec, IsProc, IsFcn, ProcFields

\* Nothing else changes.
LEMMA RememberedIs ==
    ASSUME NEW r, IsProc(r), NEW k \in 1 .. Len(r.q), NEW c,
           \A i \in 1 .. Len(r.q) : IsFcn(r.q[i], ThreadFields)
    PROVE  LET s == Remembered(r, k, c)
           IN  /\ Same(r, s) /\ Len(s.q) = Len(r.q) /\ s.mode = r.mode /\ s.wpid = r.wpid
               /\ \A i \in 1 .. Len(r.q) : i # k => s.q[i] = r.q[i]
               /\ s.q[k] = Remembers(r.q[k], c)
  <1> DEFINE t == [r.q[k] EXCEPT !.pid = -1]
             u == [t EXCEPT !.pst = c]
             q1 == Replaced(r.q, k, t)
             q2 == Replaced(q1, k, u)
             m == [r EXCEPT !.q[k].pid = -1]
             s == [m EXCEPT !.q[k].pst = c]
  <1>1. IsSeq(r.q)
    BY Zenon DEF IsProc
  <1>2. IsSeq(q1) /\ Len(q1) = Len(r.q) /\ q1[k] = t /\ \A i \in 1 .. Len(r.q) : i # k => q1[i] = r.q[i]
    <2> HIDE DEF t
    <2> QED BY <1>1, ReplacedIs
  <1>3. m.q = q1 /\ IsFcn(m, ProcFields) /\ \A f \in ProcFields \ {"q"} : m[f] = r[f]
    BY Zenon DEF IsProc, IsFcn, ProcFields, Replaced
  <1> HIDE DEF q1, m
  <1>4. IsSeq(q2) /\ Len(q2) = Len(r.q) /\ q2[k] = u /\ \A i \in 1 .. Len(r.q) : i # k => q2[i] = r.q[i]
    <2> HIDE DEF u
    <2> QED BY <1>2, ReplacedIs
  <1>5. s.q = q2 /\ IsFcn(s, ProcFields) /\ \A f \in ProcFields \ {"q"} : s[f] = m[f]
    BY <1>2, <1>3, Zenon DEF IsFcn, ProcFields, Replaced
  <1> HIDE DEF q2, s, t, u
  <1>6. Same(r, s) /\ s.mode = r.mode /\ s.wpid = r.wpid
    BY <1>3, <1>4, <1>5, Zenon DEF Same, IsProc, ProcFields
  <1> QED BY <1>4, <1>5, <1>6, Zenon DEF s, m, u, t, Remembered, Remembers

\* fork() finds a number that is free.
LEMMA NewPidIs ==
    ASSUME Ordered, CanFork
    PROVE  NewPid \in Pids /\ proc[NewPid].st = "free"
  <1> DEFINE T == {x \in Pids : proc[x].st = "free"}
  <1>1. T # {} /\ T \subseteq Nat
    BY PidsAssumption, Zenon DEF CanFork
  <1>2. \E x \in T : \A y \in T : x <= y
    BY <1>1, Zenon DEF Ordered
  <1>3. Min(T) \in T
    BY <1>2, Zenon DEF Min
  <1> QED BY <1>3, Zenon DEF NewPid

\* The flag of the code a thread is in.
InChild(P, t) == ShapeIn(P, t.code)[t.pc].child

\* Two threads that only differ in what they hold and where they are in their code.
Alike(P, t, u) ==
    /\ u.code = t.code /\ u.iflag = t.iflag /\ InChild(P, u) = InChild(P, t)

\* A thread that goes where its cell leads.
LEMMA LeadsIs ==
    ASSUME NEW P \in Progs, NEW t, ThreadOK(P, t), NEW b, NEW i \in Int, NEW j \in Int, NEW k \in Int,
           Leads(CodeIn(P, t.code), ShapeIn(P, t.code), t.pc, b, i, j, k),
           NEW u, IsFcn(u, ThreadFields), u.code = t.code, u.pc = b, u.iflag = t.iflag,
           u.pid \in Int, u.next \in Nat, u.argv = t.argv + i, u.redir = t.redir + j,
           u.local = t.local + k
    PROVE  ThreadOK(P, u) /\ Alike(P, t, u)
  <1>1. t.code \in CodeNames(P) /\ t.pc \in DOMAIN CodeIn(P, t.code)
    BY Zenon DEF ThreadOK, CodeNames
  <1>2. b \in DOMAIN CodeIn(P, t.code)
    BY Zenon DEF Leads
  <1>3. ShapeIn(P, t.code)[t.pc] \in Shapes /\ ShapeIn(P, t.code)[b] \in Shapes
    BY <1>1, <1>2, CodeIs, Zenon
  <1>4. InChild(P, u) = InChild(P, t)
    BY Zenon DEF InChild, Leads
  <1>5. /\ u.argv \in Int /\ u.argv >= ShapeIn(P, u.code)[u.pc].argv
        /\ u.redir \in Int /\ u.redir >= ShapeIn(P, u.code)[u.pc].redir
        /\ u.local \in Int /\ u.local >= ShapeIn(P, u.code)[u.pc].local
    BY <1>3 DEF ThreadOK, Leads, Shapes
  <1>6. ThreadOK(P, u)
    BY <1>1, <1>2, <1>5, Zenon DEF ThreadOK, CodeNames
  <1> QED BY <1>4, <1>6, Zenon DEF Alike

\* A thread goes on where its code says that it may.
LEMMA MovedIs ==
    ASSUME NEW P \in Progs, NEW t, ThreadOK(P, t), NEW b, NEW i \in Int, NEW j \in Int, NEW k \in Int,
           Leads(CodeIn(P, t.code), ShapeIn(P, t.code), t.pc, b, i, j, k)
    PROVE  ThreadOK(P, Moved(t, b, i, j, k)) /\ Alike(P, t, Moved(t, b, i, j, k))
  <1> DEFINE u == Moved(t, b, i, j, k)
  <1>1. /\ IsFcn(u, ThreadFields) /\ u.code = t.code /\ u.pc = b /\ u.iflag = t.iflag
        /\ u.pid = t.pid /\ u.next = t.next /\ u.argv = t.argv + i /\ u.redir = t.redir + j
        /\ u.local = t.local + k
    BY Zenon DEF ThreadOK, IsFcn, ThreadFields, Moved
  <1>2. u.pid \in Int /\ u.next \in Nat
    BY <1>1, Zenon DEF ThreadOK
  <1> HIDE DEF u
  <1>3. ThreadOK(P, u) /\ Alike(P, t, u)
    BY <1>1, <1>2, LeadsIs, Zenon
  <1> QED BY <1>3, Zenon DEF u

\* It is a thread that may run there.
LEMMA StartIs ==
    ASSUME NEW P \in Progs, NEW c \in CodeNames(P), NEW b, NEW j \in Nat, NEW k \in Int, NEW l \in Int,
           NEW ch \in BOOLEAN, Starts(CodeIn(P, c), ShapeIn(P, c), b, j, k, ch), k <= l
    PROVE  /\ ThreadOK(P, Started(c, b, l, j)) /\ Started(c, b, l, j).code = c
           /\ ~Started(c, b, l, j).iflag /\ InChild(P, Started(c, b, l, j)) = ch
           /\ Started(c, b, l, j).pid = 0
  <1> DEFINE u == Started(c, b, l, j)
  <1>1. /\ u = [x \in ThreadFields |-> u[x]] /\ u.code = c /\ u.pc = b /\ u.iflag = FALSE
        /\ u.pid = 0 /\ u.next = 0 /\ u.argv = 0 /\ u.redir = j /\ u.local = l
    BY Zenon DEF start, ThreadFields, Started
  <1> HIDE DEF u
  <1>2. b \in DOMAIN CodeIn(P, c)
    BY Zenon DEF Starts
  <1>3. ShapeIn(P, c)[b] \in Shapes
    BY <1>2, CodeIs, Zenon
  <1>4. ThreadOK(P, u)
    <2>1. /\ u.argv \in Int /\ u.argv >= ShapeIn(P, c)[b].argv
          /\ u.redir \in Int /\ u.redir >= ShapeIn(P, c)[b].redir
          /\ u.local \in Int /\ u.local >= ShapeIn(P, c)[b].local
      BY <1>1, <1>3 DEF Starts, Shapes
    <2>2. u.pid \in Int /\ u.next \in Nat
      BY <1>1
    <2>3. u.iflag \in BOOLEAN
      BY <1>1, Zenon
    <2> QED BY <1>1, <1>2, <2>1, <2>2, <2>3, Zenon DEF ThreadOK, IsFcn, CodeNames
  <1> QED BY <1>1, <1>4, Zenon DEF u, InChild, Starts

\* A thread of a function, with its arguments as its only local or as one more.
LEMMA FnThreadIs ==
    ASSUME NEW P \in Progs, NEW f, FnOK(P, f), NEW l \in Int,
           l >= 1 \/ (l >= 0 /\ Shape(P.code[f.code])[f.pc].local = 0)
    PROVE  LET u == start(f.code, f.pc, l)
           IN  ThreadOK(P, u) /\ u.code \in DOMAIN P.code /\ ~u.iflag /\ u.pid = 0
  <1> DEFINE u == start(f.code, f.pc, l)
  <1>1. /\ u = [x \in ThreadFields |-> u[x]] /\ u.code = f.code /\ u.pc = f.pc /\ u.iflag = FALSE
        /\ u.pid = 0 /\ u.next = 0 /\ u.argv = 0 /\ u.redir = 0 /\ u.local = l
    BY Zenon DEF start, ThreadFields
  <1> HIDE DEF u
  <1>2. f.code \in DOMAIN P.code /\ f.pc \in DOMAIN P.code[f.code]
    BY Zenon DEF FnOK
  <1>3. CodeIn(P, f.code) = P.code[f.code] /\ ShapeIn(P, f.code) = Shape(P.code[f.code])
    BY <1>2, LinesAre, Zenon
  <1>4. ShapeIn(P, f.code)[f.pc] \in Shapes
    BY <1>2, <1>3, CodeIs, Zenon DEF CodeNames
  <1>5. ThreadOK(P, u)
    <2>1. /\ u.argv \in Int /\ u.argv >= ShapeIn(P, f.code)[f.pc].argv
          /\ u.redir \in Int /\ u.redir >= ShapeIn(P, f.code)[f.pc].redir
          /\ u.local \in Int /\ u.local >= ShapeIn(P, f.code)[f.pc].local
      BY <1>1, <1>3, <1>4 DEF FnOK, Shapes
    <2>2. u.pid \in Int /\ u.next \in Nat
      BY <1>1
    <2>3. u.iflag \in BOOLEAN
      BY <1>1, Zenon
    <2> QED BY <1>1, <1>2, <1>3, <2>1, <2>2, <2>3, ZenonT(30) DEF ThreadOK, IsFcn
  <1> QED BY <1>1, <1>2, <1>5, Zenon DEF u
-----------------------------------------------------------------------------
(***************************************************************************)
(* Stacks of threads.  Keeps(p, r, s): s is r with other threads.          *)
(***************************************************************************)
\* What a step of process p may make of its record, its threads apart.
Keeps(P, p, r, s) ==
    /\ IsProc(r) /\ r.st = "rc" /\ ShellOK(P, p, r)
    /\ IsProc(s) /\ s.base = r.base /\ (Calm(P) /\ p # Main => s.mode # "parse")
    /\ \A f \in FnNames : s.fns[f] # NoFn => FnOK(P, s.fns[f])

\* Every thread keeps its code and its flags.
LEMMA AlikeKeeps ==
    ASSUME NEW P \in Progs, NEW p, NEW r, NEW s, Keeps(P, p, r, s), Len(s.q) = Len(r.q),
           \A i \in 1 .. Len(r.q) : ThreadOK(P, s.q[i]) /\ Alike(P, r.q[i], s.q[i])
    PROVE  ShellOK(P, p, s)
  <1>1. s.q # <<>> /\ Len(r.q) \in Nat
    BY SeqIs, Zenon DEF Keeps, IsProc, ShellOK
  <1>2. \A i \in 1 .. Len(s.q) : /\ ThreadOK(P, s.q[i]) /\ s.q[i].code = r.q[i].code
                                 /\ s.q[i].iflag = r.q[i].iflag
                                 /\ InChild(P, s.q[i]) = InChild(P, r.q[i])
    BY Zenon DEF Alike
  <1>3. ASSUME Calm(P), p # Main  PROVE ChildOK(P, s)
    <2>1. /\ Len(r.q) > r.base /\ r.base \in Nat /\ InChild(P, r.q[r.base + 1])
          /\ \A i \in r.base + 1 .. Len(r.q) : r.q[i].code \in DOMAIN P.code
          /\ P.errs > 0 => \A i \in 1 .. Len(r.q) : ~r.q[i].iflag
      BY <1>3, Zenon DEF Keeps, ShellOK, ChildOK, IsProc, InChild
    <2>2. s.base = r.base /\ s.mode # "parse"
      BY <1>3, Zenon DEF Keeps
    <2>3. s.base + 1 \in 1 .. Len(s.q) /\ s.base + 1 .. Len(s.q) \subseteq 1 .. Len(s.q)
      BY <2>1, <2>2, <1>1
    <2>4. \A i \in s.base + 1 .. Len(s.q) : s.q[i].code \in DOMAIN P.code
      BY <2>1, <2>2, <2>3, <1>2, Zenon
    <2> QED BY <2>1, <2>2, <2>3, <2>4, <1>2, ZenonT(30) DEF ChildOK, InChild
  <1> QED BY <1>1, <1>2, <1>3, Zenon DEF ShellOK, Keeps

\* The top thread changes.
LEMMA TopKeeps ==
    ASSUME NEW P \in Progs, NEW p, NEW r, NEW s, NEW u, Keeps(P, p, r, s),
           s.q = [r.q EXCEPT ![Len(r.q)] = u], ThreadOK(P, u), Alike(P, r.q[Len(r.q)], u)
    PROVE  ShellOK(P, p, s)
  <1>1. IsSeq(r.q) /\ r.q # <<>> /\ Len(r.q) \in 1 .. Len(r.q)
    BY SeqIs DEF Keeps, IsProc, ShellOK
  <1>2. /\ Len(s.q) = Len(r.q) /\ s.q[Len(r.q)] = u /\ IsSeq(s.q)
        /\ \A i \in 1 .. Len(r.q) : i # Len(r.q) => s.q[i] = r.q[i]
    <2> DEFINE q == r.q
               n == Len(r.q)
    <2>1. IsSeq(q) /\ n \in 1 .. Len(q) /\ s.q = Replaced(q, n, u)
      BY <1>1, Zenon DEF Replaced
    <2> HIDE DEF q, n
    <2>2. /\ Len(s.q) = Len(q) /\ s.q[n] = u /\ IsSeq(s.q)
          /\ \A i \in 1 .. Len(q) : i # n => s.q[i] = q[i]
      BY <2>1, ReplacedIs
    <2> QED BY <2>2, Zenon DEF q, n
  <1>3. \A i \in 1 .. Len(r.q) : ThreadOK(P, s.q[i]) /\ Alike(P, r.q[i], s.q[i])
    BY <1>2, Zenon DEF Keeps, ShellOK, Alike
  <1> QED BY <1>2, <1>3, AlikeKeeps, Zenon

\* A thread of the session's code is put on top.
LEMMA PushKeeps ==
    ASSUME NEW P \in Progs, NEW p, NEW r, NEW s, NEW u, Keeps(P, p, r, s),
           s.q = Append(r.q, u), ThreadOK(P, u), ~u.iflag, u.code \in DOMAIN P.code
    PROVE  ShellOK(P, p, s)
  <1>1. IsSeq(r.q) /\ r.q # <<>> /\ Len(r.q) \in Nat
    BY SeqIs, Zenon DEF Keeps, IsProc, ShellOK
  <1>2. /\ Len(s.q) = Len(r.q) + 1 /\ s.q[Len(r.q) + 1] = u /\ s.q # <<>>
        /\ \A i \in 1 .. Len(r.q) : s.q[i] = r.q[i]
    <2> DEFINE q == r.q
    <2>1. IsSeq(q) /\ s.q = Append(q, u)
      BY <1>1, Zenon
    <2> HIDE DEF q
    <2>2. /\ Len(s.q) = Len(q) + 1 /\ s.q[Len(q) + 1] = u /\ s.q # <<>>
          /\ \A i \in 1 .. Len(q) : s.q[i] = q[i]
      BY <2>1, AppendIs
    <2> QED BY <2>2, Zenon DEF q
  <1>3. \A i \in 1 .. Len(s.q) : i \in 1 .. Len(r.q) \/ i = Len(r.q) + 1
    BY <1>1, <1>2
  <1>4. \A i \in 1 .. Len(s.q) : ThreadOK(P, s.q[i])
    BY <1>2, <1>3, Zenon DEF Keeps, ShellOK
  <1>5. ASSUME Calm(P), p # Main  PROVE ChildOK(P, s)
    <2>1. /\ Len(r.q) > r.base /\ r.base \in Nat /\ InChild(P, r.q[r.base + 1])
          /\ \A i \in r.base + 1 .. Len(r.q) : r.q[i].code \in DOMAIN P.code
          /\ P.errs > 0 => \A i \in 1 .. Len(r.q) : ~r.q[i].iflag
      BY <1>5, Zenon DEF Keeps, ShellOK, ChildOK, IsProc, InChild
    <2>2. s.base = r.base /\ s.mode # "parse"
      BY <1>5, Zenon DEF Keeps
    <2>3. s.base + 1 \in 1 .. Len(r.q) /\ Len(s.q) > s.base
      BY <2>1, <2>2, <1>1, <1>2
    <2>4. \A i \in s.base + 1 .. Len(s.q) : s.q[i].code \in DOMAIN P.code
      <3>1. \A i \in s.base + 1 .. Len(s.q) :
                (i \in r.base + 1 .. Len(r.q) /\ i \in 1 .. Len(r.q)) \/ i = Len(r.q) + 1
        BY <2>1, <2>2, <1>1, <1>2
      <3> QED BY <3>1, <2>1, <1>2, Zenon
    <2>5. P.errs > 0 => \A i \in 1 .. Len(s.q) : ~s.q[i].iflag
      BY <2>1, <1>2, <1>3, Zenon
    <2> QED BY <2>1, <2>2, <2>3, <2>4, <2>5, <1>2, Zenon DEF ChildOK, InChild
  <1>6. Calm(P) => \A i \in 1 .. Len(s.q) : s.q[i].iflag => P.iflag
    BY <1>2, <1>3, Zenon DEF Keeps, ShellOK
  <1> QED BY <1>2, <1>4, <1>5, <1>6, Zenon DEF ShellOK, Keeps

\* Threads are taken off, but not the first one of a child.
LEMMA PopKeeps ==
    ASSUME NEW P \in Progs, NEW p, NEW r, NEW s, Keeps(P, p, r, s), NEW n \in 1 .. Len(r.q),
           s.q = SubSeq(r.q, 1, n), Calm(P) /\ p # Main => n > r.base
    PROVE  ShellOK(P, p, s)
  <1>1. IsSeq(r.q) /\ Len(r.q) \in Nat /\ n \in 0 .. Len(r.q)
    BY SeqIs DEF Keeps, IsProc
  <1>2. IsSeq(s.q) /\ Len(s.q) = n /\ \A i \in 1 .. n : s.q[i] = r.q[i]
    BY <1>1, PrefixIs, Zenon
  <1>3. s.q # <<>> /\ 1 .. n \subseteq 1 .. Len(r.q)
    BY <1>1, <1>2, SeqIs
  <1>4. \A i \in 1 .. Len(s.q) : ThreadOK(P, s.q[i])
    BY <1>2, <1>3, Zenon DEF Keeps, ShellOK
  <1>5. ASSUME Calm(P), p # Main  PROVE ChildOK(P, s)
    <2>1. /\ n > r.base /\ r.base \in Nat /\ InChild(P, r.q[r.base + 1])
          /\ \A i \in r.base + 1 .. Len(r.q) : r.q[i].code \in DOMAIN P.code
          /\ P.errs > 0 => \A i \in 1 .. Len(r.q) : ~r.q[i].iflag
      BY <1>5, Zenon DEF Keeps, ShellOK, ChildOK, IsProc, InChild
    <2>2. s.base = r.base /\ s.mode # "parse"
      BY <1>5, Zenon DEF Keeps
    <2>3. /\ s.base + 1 \in 1 .. n
          /\ \A i \in s.base + 1 .. n : i \in 1 .. n /\ i \in r.base + 1 .. Len(r.q)
      BY <2>1, <2>2, <1>1
    <2>4. \A i \in s.base + 1 .. Len(s.q) : s.q[i].code \in DOMAIN P.code
      BY <2>1, <2>3, <1>2, Zenon
    <2> QED BY <2>1, <2>2, <2>3, <2>4, <1>2, <1>3, Zenon DEF ChildOK, InChild
  <1>6. Calm(P) => \A i \in 1 .. Len(s.q) : s.q[i].iflag => P.iflag
    BY <1>2, <1>3, Zenon DEF Keeps, ShellOK
  <1> QED BY <1>2, <1>3, <1>4, <1>5, <1>6, Zenon DEF ShellOK, Keeps

-----------------------------------------------------------------------------
(***************************************************************************)
(* The invariants.                                                         *)
(***************************************************************************)
Blocked == {"simple", "wait", "read"}

\* The threads of a process itself that have still to wait for a left side.
Awaiting(r) == {i \in r.base + 1 .. Len(r.q) : r.q[i].pid > 0}

\* In the processes Q, w is a child of p that was not collected.
Kin(Q, p, w) == w \in Pids /\ Q[w].par = p /\ Q[w].st # "free"

\* Such a thread is at the Xpipewait of its pipeline, and stays there.
Place(P, r) ==
    /\ r.st # "rc" => r.q = <<>> /\ r.mode = "run"
    /\ \A i \in Awaiting(r) : CodeIn(P, r.q[i].code)[r.q[i].pc].f = "Xpipewait"

\* Two of them wait for two processes, and nothing else waits for either.
PipesOK(r) ==
    /\ \A i, j \in Awaiting(r) : r.q[i].pid = r.q[j].pid => i = j
    /\ \A i \in Awaiting(r) : r.apid # r.q[i].pid
    /\ r.mode \in Blocked => \A i \in Awaiting(r) : i # Len(r.q) /\ r.wpid # r.q[i].pid

\* What is so of every process, and what is so if no number is used again too early.
Settled(P, Q, p) ==
    Place(P, Q[p]) /\ (Q[p].mode \in {"simple", "read"} => Kin(Q, p, Q[p].wpid))
Joined(Q, p) == PipesOK(Q[p]) /\ \A i \in Awaiting(Q[p]) : Kin(Q, p, Q[p].q[i].pid)

Family(P, Q) == \A p \in Pids : Settled(P, Q, p)
Pipelines(Q) == \A p \in Pids : Joined(Q, p)

\* A new process does not get the number that a shell has in $apid.
Fresh(Q, R) ==
    \A z \in Pids : Q[z].st = "free" /\ R[z].st # "free" =>
        \A x \in Pids : Q[x].st = "rc" => Q[x].apid # z

-----------------------------------------------------------------------------
(***************************************************************************)
(* Steps from the processes Q to the processes R.                          *)
(***************************************************************************)
Keep(P, Q, R) == Family(P, R) /\ (Pipelines(Q) /\ Fresh(Q, R) => Pipelines(R))

\* A record that differs from r at most in its parent.
Unmoved(r, s) ==
    /\ s.st = r.st /\ s.q = r.q /\ s.base = r.base /\ s.mode = r.mode /\ s.wpid = r.wpid
    /\ s.apid = r.apid

\* It is enough that the records that change fit and that children stay children.
Fits(P, Q, R, p) == Settled(P, R, p) /\ (Pipelines(Q) /\ Fresh(Q, R) => Joined(R, p))

\* The other processes keep what they have.
LEMMA KeepIf ==
    ASSUME NEW P, NEW Q, NEW R, Family(P, Q),
           \A p \in Pids : \/ Fits(P, Q, R, p)
                           \/ /\ Unmoved(Q[p], R[p])
                              /\ \A w \in Pids : Kin(Q, p, w) => Kin(R, p, w)
    PROVE  Keep(P, Q, R)
  <1>1. ASSUME NEW p \in Pids, Unmoved(Q[p], R[p]), \A w \in Pids : Kin(Q, p, w) => Kin(R, p, w)
        PROVE  Fits(P, Q, R, p)
    <2>1. Settled(P, Q, p) /\ (Pipelines(Q) => Joined(Q, p))
      BY Zenon DEF Family, Pipelines
    <2>2. Awaiting(R[p]) = Awaiting(Q[p])
      BY <1>1, Zenon DEF Awaiting, Unmoved
    <2>3. \A w : Kin(Q, p, w) => Kin(R, p, w)
      BY <1>1, Zenon DEF Kin
    <2>4. Settled(P, R, p)
      BY <1>1, <2>1, <2>2, <2>3, Zenon DEF Settled, Place, Unmoved
    <2>5. Joined(Q, p) => Joined(R, p)
      BY <1>1, <2>2, <2>3, Zenon DEF Joined, PipesOK, Unmoved
    <2> QED BY <2>1, <2>4, <2>5, Zenon DEF Fits
  <1>2. \A p \in Pids : Fits(P, Q, R, p)
    BY <1>1, Zenon
  <1> QED BY <1>2, Zenon DEF Fits, Keep, Family, Pipelines

\* One process changes, and keeps its parent.
Only(Q, R, p) ==
    /\ \A x \in Pids : x # p => R[x] = Q[x]
    /\ R[p].st # "free" /\ R[p].par = Q[p].par

\* Its children and its parent stay what they are.
LEMMA OnlyKin ==
    ASSUME NEW Q, NEW R, NEW p, Only(Q, R, p), NEW x, NEW w, Kin(Q, x, w)
    PROVE  Kin(R, x, w)
  BY Zenon DEF Kin, Only

\* So only that process has to fit.
LEMMA OnlyKeep ==
    ASSUME NEW P, NEW Q, NEW R, Family(P, Q), NEW p \in Pids, Only(Q, R, p), Fits(P, Q, R, p)
    PROVE  Keep(P, Q, R)
  <1>1. \A x, w : Kin(Q, x, w) => Kin(R, x, w)
    BY OnlyKin, Zenon
  <1>2. \A x \in Pids : x # p => Unmoved(Q[x], R[x])
    BY Zenon DEF Unmoved, Only
  <1> QED BY <1>1, <1>2, KeepIf, Zenon

\* No thread begins to wait for a left side.
Carried(r, s) ==
    /\ s.base = r.base
    /\ \A i \in Awaiting(s) : /\ i \in Awaiting(r) /\ s.q[i].pid = r.q[i].pid
                              /\ s.q[i].code = r.q[i].code /\ s.q[i].pc = r.q[i].pc

\* Then every thread that waits is still where it was,
LEMMA CarriedPlace ==
    ASSUME NEW P, NEW r, NEW s, Place(P, r), s.st = "rc", Carried(r, s)
    PROVE  Place(P, s)
  BY Zenon DEF Place, Carried

\* and still the only one to wait for its left side.
LEMMA CarriedJoined ==
    ASSUME NEW Q, NEW R, NEW p, Joined(Q, p), Carried(Q[p], R[p]), R[p].apid = Q[p].apid,
           \A w : Kin(Q, p, w) => Kin(R, p, w),
           R[p].mode \in Blocked => \A i \in Awaiting(R[p]) : i # Len(R[p].q) /\ R[p].wpid # R[p].q[i].pid
    PROVE  Joined(R, p)
  <1> DEFINE r == Q[p]
             s == R[p]
  <1>1. PipesOK(r) /\ \A i \in Awaiting(r) : Kin(Q, p, r.q[i].pid)
    BY Zenon DEF Joined
  <1>2. \A i \in Awaiting(s) : Kin(R, p, s.q[i].pid)
    BY <1>1, Zenon DEF Carried
  <1>3. PipesOK(s)
    BY <1>1, ZenonT(30) DEF PipesOK, Carried
  <1> QED BY <1>2, <1>3, Zenon DEF Joined

\* The process goes on.
Kindred(r, s) == s.st = r.st /\ s.par = r.par /\ s.apid = r.apid

\* Nothing it waited for is needed any more.
LEMMA GoKeep ==
    ASSUME NEW P, NEW Q, NEW R, Family(P, Q), NEW p \in Pids, Q[p].st = "rc", Only(Q, R, p),
           Kindred(Q[p], R[p]), Carried(Q[p], R[p]), R[p].mode \notin Blocked
    PROVE  Keep(P, Q, R)
  <1>1. R[p].st = "rc" /\ R[p].par = Q[p].par /\ R[p].apid = Q[p].apid
    BY Zenon DEF Kindred
  <1>3. \A w : Kin(Q, p, w) => Kin(R, p, w)
    BY <1>1, OnlyKin, Zenon
  <1>4. Settled(P, R, p)
    BY <1>1, CarriedPlace, Zenon DEF Settled, Family, Blocked
  <1>5. Joined(Q, p) => Joined(R, p)
    BY <1>1, <1>3, CarriedJoined, Zenon
  <1>6. Fits(P, Q, R, p)
    BY <1>4, <1>5, Zenon DEF Fits, Pipelines
  <1> QED BY <1>1, <1>6, OnlyKeep, Zenon

\* The process stays blocked.
LEMMA StayKeep ==
    ASSUME NEW P, NEW Q, NEW R, Family(P, Q), NEW p \in Pids, Q[p].st = "rc", Only(Q, R, p),
           Same(Q[p], R[p]), R[p].q = Q[p].q, R[p].wpid = Q[p].wpid,
           R[p].mode = Q[p].mode \/ (Q[p].mode = "read" /\ R[p].mode = "wait")
    PROVE  Keep(P, Q, R)
  <1>1. R[p].st = "rc" /\ R[p].par = Q[p].par /\ R[p].apid = Q[p].apid /\ R[p].base = Q[p].base
    BY Zenon DEF Same
  <1>3. \A w : Kin(Q, p, w) => Kin(R, p, w)
    BY <1>1, OnlyKin, Zenon
  <1>4. Awaiting(R[p]) = Awaiting(Q[p])
    BY <1>1, Zenon DEF Awaiting
  <1>a. Carried(Q[p], R[p])
    BY <1>1, <1>4, Zenon DEF Carried
  <1>5. Settled(P, R, p)
    <2>1. Settled(P, Q, p)
      BY Zenon DEF Family
    <2>2. Place(P, R[p])
      BY <1>1, <1>a, <2>1, CarriedPlace, Zenon DEF Settled
    <2> QED BY <1>3, <2>1, <2>2, Zenon DEF Settled
  <1>6. ASSUME Joined(Q, p) PROVE Joined(R, p)
    <2>1. R[p].mode \in Blocked => \A i \in Awaiting(R[p]) : i # Len(R[p].q) /\ R[p].wpid # R[p].q[i].pid
      BY <1>4, <1>6, Zenon DEF Joined, PipesOK, Blocked
    <2> QED BY <1>1, <1>3, <1>6, <1>a, <2>1, CarriedJoined, Zenon
  <1>7. Fits(P, Q, R, p)
    BY <1>5, <1>6, Zenon DEF Fits, Pipelines
  <1> QED BY <1>1, <1>7, OnlyKeep, Zenon

\* The process begins to wait for any child, for $apid or for the left side of its pipeline.
LEMMA BlockKeep ==
    ASSUME NEW P, NEW Q, NEW R, Family(P, Q), NEW p \in Pids, Q[p].st = "rc", Only(Q, R, p),
           Same(Q[p], R[p]), Carried(Q[p], R[p]), R[p].mode = "wait", Len(R[p].q) = Len(Q[p].q),
           Len(R[p].q) \notin Awaiting(R[p]), Len(Q[p].q) \in Nat, Q[p].base \in Nat,
           \/ R[p].wpid = -1 \/ R[p].wpid = Q[p].apid \/ R[p].wpid = Q[p].q[Len(Q[p].q)].pid
    PROVE  Keep(P, Q, R)
  <1> DEFINE r == Q[p]
             s == R[p]
             n == Len(r.q)
  <1>1. s.st = "rc" /\ s.par = r.par /\ s.apid = r.apid
    BY Zenon DEF Same
  <1>3. \A w : Kin(Q, p, w) => Kin(R, p, w)
    BY <1>1, OnlyKin, Zenon
  <1>4. Settled(P, R, p)
    BY <1>1, CarriedPlace, Zenon DEF Settled, Family
  <1>5. ASSUME Joined(Q, p), NEW i \in Awaiting(s)  PROVE i # Len(s.q) /\ s.wpid # s.q[i].pid
    <2>1. i \in Awaiting(r) /\ s.q[i].pid = r.q[i].pid /\ i # n /\ r.q[i].pid > 0
      BY <1>5, Zenon DEF Carried, Awaiting
    <2>2. r.q[i].pid = r.q[n].pid => n \in Awaiting(r)
      BY <2>1 DEF Awaiting
    <2>3. r.q[i].pid # r.q[n].pid /\ r.q[i].pid # r.apid
      BY <1>5, <2>1, <2>2, Zenon DEF Joined, PipesOK
    <2>4. r.q[i].pid # -1
      BY <2>1
    <2> QED BY <2>1, <2>3, <2>4, Zenon
  <1>6. Joined(Q, p) => Joined(R, p)
    BY <1>1, <1>3, <1>5, CarriedJoined, Zenon
  <1>7. Fits(P, Q, R, p)
    BY <1>4, <1>6, Zenon DEF Fits, Pipelines
  <1> QED BY <1>1, <1>7, OnlyKeep, Zenon

\* A process without threads.
LEMMA BareFits ==
    ASSUME NEW P, NEW Q, NEW R, NEW p \in Pids, R[p].q = <<>>, R[p].mode = "run", R[p].base \in Nat
    PROVE  Fits(P, Q, R, p)
  <1>1. Awaiting(R[p]) = {}
    BY DEF Awaiting
  <1>2. Settled(P, R, p)
    BY <1>1, Zenon DEF Settled, Place
  <1>3. Joined(R, p)
    BY <1>1, Zenon DEF Joined, PipesOK
  <1> QED BY <1>2, <1>3, Zenon DEF Fits

\* The process becomes that of a command.
LEMMA ExecKeep ==
    ASSUME NEW P, NEW Q, NEW R, Family(P, Q), NEW p \in Pids, NEW l, Only(Q, R, p),
           R[p] = Exec(Q[p], l)
    PROVE  Keep(P, Q, R)
  <1>1. R[p].q = <<>> /\ R[p].mode = "run" /\ R[p].base = 0
    BY ZenonT(30) DEF Exec, NoProc
  <1>2. R[p].base \in Nat
    BY <1>1
  <1>3. Fits(P, Q, R, p)
    BY <1>1, <1>2, BareFits, Zenon
  <1> QED BY <1>3, OnlyKeep, Zenon

\* The process ends.
Zombie(n, c) == [NoProc EXCEPT !.st = "zombie", !.par = n, !.code = c]
Dies(Q, R, p, c) == R = Ended(Q, p, c)

\* Its parent can still collect it, and its children are nobody's.
LEMMA EndKeep ==
    ASSUME NEW P, NEW Q, NEW R, Family(P, Q), NEW p \in Pids, NEW c,
           Q[p].st # "free", Dies(Q, R, p, c), \A x \in Pids : IsProc(Q[x])
    PROVE  Keep(P, Q, R)
  <1>0. /\ R[p] = NoProc \/ R[p] = Zombie(Q[p].par, c)
        /\ (Q[p].par # 0 => R[p] = Zombie(Q[p].par, c))
        /\ \A x \in Pids : x # p => R[x] = NoProc \/ R[x] = Q[x] \/ R[x] = [Q[x] EXCEPT !.par = 0]
        /\ \A x \in Pids : x # p /\ Q[x].par # p => R[x] = Q[x]
    BY Zenon DEF Ended, Dies, Zombie
  <1>1. NoProc.q = <<>> /\ NoProc.mode = "run" /\ NoProc.base \in Nat
    BY Zenon DEF NoProc
  <1>2. \A n : /\ Zombie(n, c).q = <<>> /\ Zombie(n, c).mode = "run" /\ Zombie(n, c).base \in Nat
              /\ Zombie(n, c).st = "zombie" /\ Zombie(n, c).par = n
    BY Zenon DEF NoProc, Zombie
  <1>3. Fits(P, Q, R, p)
    <2>1. R[p].q = <<>> /\ R[p].mode = "run" /\ R[p].base \in Nat
      BY <1>0, <1>1, <1>2, ZenonT(30)
    <2> QED BY <2>1, BareFits, Zenon
  <1>5. ASSUME NEW x \in Pids, x # p  PROVE R[x] = NoProc \/ Unmoved(Q[x], R[x])
    <2>1. IsProc(Q[x])
      OBVIOUS
    <2>2. Unmoved(Q[x], [Q[x] EXCEPT !.par = 0])
      BY <2>1, Zenon DEF Unmoved, IsProc, IsFcn, ProcFields
    <2>3. Unmoved(Q[x], Q[x])
      BY Zenon DEF Unmoved
    <2> QED BY <1>0, <1>5, <2>2, <2>3, Zenon
  <1>6. ASSUME NEW x \in Pids, x # p, NEW w, Kin(Q, x, w)  PROVE Kin(R, x, w)
    <2>1. x # 0 /\ w \in Pids /\ Q[w].par = x /\ Q[w].st # "free"
      BY <1>6, PidsAssumption, Zenon DEF Kin
    <2>2. CASE w = p
      <3>2. R[p].st = "zombie" /\ R[p].par = Q[p].par
        BY <1>0, <1>2, <2>1, <2>2
      <3> QED BY <2>1, <2>2, <3>2, Zenon DEF Kin
    <2>3. CASE w # p
      <3>1. R[w] = Q[w]
        BY <1>0, <1>6, <2>1, <2>3, Zenon
      <3> QED BY <2>1, <3>1, Zenon DEF Kin
    <2> QED BY <2>2, <2>3, Zenon
  <1>7. ASSUME NEW x \in Pids, R[x] = NoProc  PROVE Fits(P, Q, R, x)
    <2>1. R[x].q = <<>> /\ R[x].mode = "run" /\ R[x].base \in Nat
      BY <1>1, <1>7, Zenon
    <2> QED BY <2>1, BareFits, Zenon
  <1> QED BY <1>3, <1>5, <1>6, <1>7, KeepIf, Zenon

\* The process collects its child z.
LEMMA ReapKeep ==
    ASSUME NEW P, NEW Q, NEW R, Family(P, Q), NEW p \in Pids, Q[p].st = "rc",
           NEW z \in Pids, z # p, Q[z].par = p, R[z] = NoProc,
           \A x \in Pids : x # p /\ x # z => R[x] = Q[x],
           Same(Q[p], R[p]), Carried(Q[p], R[p]),
           \/ R[p].mode \notin Blocked
           \/ R[p].mode = Q[p].mode /\ R[p].wpid = Q[p].wpid /\ R[p].wpid # z /\ Len(R[p].q) = Len(Q[p].q),
           Joined(Q, p) => \A i \in Awaiting(R[p]) : R[p].q[i].pid # z
    PROVE  Keep(P, Q, R)
  <1>1. R[p].st = "rc" /\ R[p].par = Q[p].par /\ R[p].apid = Q[p].apid
    BY Zenon DEF Same
  <1>2. ASSUME NEW x, NEW w, w # z, Kin(Q, x, w)  PROVE Kin(R, x, w)
    BY <1>1, <1>2, Zenon DEF Kin
  <1>3. ASSUME NEW x \in Pids, x # p, NEW w, Kin(Q, x, w)  PROVE Kin(R, x, w)
    <2>1. w # z
      BY <1>3, Zenon DEF Kin
    <2> QED BY <1>2, <1>3, <2>1, Zenon
  <1>4. Settled(P, R, p)
    <2>1. Settled(P, Q, p)
      BY Zenon DEF Family
    <2>2. Place(P, R[p])
      BY <1>1, <2>1, CarriedPlace, Zenon DEF Settled
    <2>3. ASSUME R[p].mode \in {"simple", "read"}  PROVE Kin(R, p, R[p].wpid)
      <3>1. Q[p].mode = R[p].mode /\ R[p].wpid = Q[p].wpid /\ R[p].wpid # z
        BY <2>3, Zenon DEF Blocked
      <3>2. Kin(Q, p, R[p].wpid)
        BY <2>1, <2>3, <3>1, Zenon DEF Settled
      <3> QED BY <1>2, <3>1, <3>2, Zenon
    <2> QED BY <2>2, <2>3, Zenon DEF Settled
  <1>5. ASSUME Joined(Q, p)  PROVE Joined(R, p)
    <2> DEFINE r == Q[p]
               s == R[p]
    <2>1. PipesOK(r) /\ \A i \in Awaiting(r) : Kin(Q, p, r.q[i].pid)
      BY <1>5, Zenon DEF Joined
    <2>2. \A i \in Awaiting(s) : i \in Awaiting(r) /\ s.q[i].pid = r.q[i].pid /\ s.q[i].pid # z
      BY <1>5, Zenon DEF Carried
    <2>3. \A i \in Awaiting(s) : Kin(R, p, s.q[i].pid)
      BY <1>2, <2>1, <2>2, ZenonT(30)
    <2>4. PipesOK(s)
      BY <1>1, <2>1, <2>2 DEF PipesOK
    <2> QED BY <2>3, <2>4, Zenon DEF Joined
  <1>6. Fits(P, Q, R, p)
    BY <1>4, <1>5, Zenon DEF Fits, Pipelines
  <1>7. Fits(P, Q, R, z)
    <2>1. NoProc.q = <<>> /\ NoProc.mode = "run" /\ NoProc.base \in Nat
      BY Zenon DEF NoProc
    <2>2. R[z].q = <<>> /\ R[z].mode = "run" /\ R[z].base \in Nat
      BY <2>1, Zenon
    <2> QED BY <2>2, BareFits, Zenon
  <1>8. \A x \in Pids : x # p /\ x # z => Unmoved(Q[x], R[x])
    BY Zenon DEF Unmoved
  <1> QED BY <1>3, <1>6, <1>7, <1>8, KeepIf, Zenon

\* The process forks.  It waits for the new process z, or goes on with z in $apid or in
\* the thread of a new pipeline.
AtPipewait(P, t) == CodeIn(P, t.code)[t.pc].f = "Xpipewait"
Leaves(r, s, z) ==
    /\ Carried(r, s) /\ s.apid \in {r.apid, z}
    /\ s.mode \in Blocked => s.wpid = z /\ Len(s.q) \notin Awaiting(s)
Pipes(P, r, s, z) ==
    /\ s.apid = r.apid /\ s.mode \notin Blocked
    /\ \A i \in Awaiting(s) : /\ AtPipewait(P, s.q[i])
                              /\ \/ i \in Awaiting(r) /\ s.q[i].pid = r.q[i].pid
                                 \/ i = Len(r.q) /\ s.q[i].pid = z

\* In both cases the child is there, and no other thread waits for its number.
LEMMA ForkKeep ==
    ASSUME NEW P, NEW Q, NEW R, Family(P, Q), NEW p \in Pids, Q[p].st = "rc",
           NEW z \in Pids, Q[z].st = "free", R[z].st # "free", R[z].par = p,
           R[z].mode = "run" \/ (R[z].st = "rc" /\ R[z].mode = "trap"),
           R[z].st # "rc" => R[z].q = <<>>, Awaiting(R[z]) = {},
           \A x \in Pids : x # p /\ x # z => R[x] = Q[x],
           R[p].st = "rc", R[p].par = Q[p].par,
           Leaves(Q[p], R[p], z) \/ Pipes(P, Q[p], R[p], z)
    PROVE  Keep(P, Q, R)
  <1> DEFINE r == Q[p]
             s == R[p]
  <1>1. z # p /\ Settled(P, Q, p)
    BY Zenon DEF Family
  <1>2. ASSUME NEW x, NEW w, Kin(Q, x, w)  PROVE Kin(R, x, w) /\ w # z
    BY <1>1, <1>2, Zenon DEF Kin
  <1>3. \A i \in Awaiting(s) : \/ i \in Awaiting(r) /\ s.q[i].pid = r.q[i].pid
                               \/ i = Len(r.q) /\ s.q[i].pid = z
    BY Zenon DEF Carried, Leaves, Pipes
  <1>4. Kin(R, p, z)
    BY Zenon DEF Kin
  <1>5. Settled(P, R, p)
    <2>1. Place(P, s)
      <3>1. CASE Leaves(r, s, z)
        BY <1>1, <3>1, CarriedPlace, Zenon DEF Settled, Leaves
      <3>2. CASE Pipes(P, r, s, z)
        BY <3>2, ZenonT(30) DEF Place, Pipes, AtPipewait
      <3> QED BY <3>1, <3>2, Zenon
    <2>2. s.mode \in {"simple", "read"} => s.wpid = z
      BY Zenon DEF Blocked, Leaves, Pipes
    <2> QED BY <1>4, <2>1, <2>2, Zenon DEF Settled
  <1>6. ASSUME Joined(Q, p), Fresh(Q, R)  PROVE Joined(R, p)
    <2>1. PipesOK(r) /\ \A i \in Awaiting(r) : Kin(Q, p, r.q[i].pid)
      BY <1>6, Zenon DEF Joined
    <2>2. \A i \in Awaiting(r) : r.q[i].pid # z /\ Kin(R, p, r.q[i].pid)
      BY <1>2, <2>1, Zenon
    <2>3. \A i \in Awaiting(s) : Kin(R, p, s.q[i].pid)
      BY <1>3, <1>4, <2>2, Zenon
    <2>4. r.apid # z
      BY <1>6, Zenon DEF Fresh
    <2>5. \A i, j \in Awaiting(s) : s.q[i].pid = s.q[j].pid => i = j
      BY <1>3, <2>1, <2>2, SMTT(30) DEF PipesOK
    <2>6. \A i \in Awaiting(s) : s.apid # s.q[i].pid
      <3>1. CASE Leaves(r, s, z)
        <4>1. \A i \in Awaiting(s) : i \in Awaiting(r) /\ s.q[i].pid = r.q[i].pid
          BY <3>1, Zenon DEF Carried, Leaves
        <4>2. \A i \in Awaiting(r) : r.apid # r.q[i].pid /\ z # r.q[i].pid
          BY <2>1, <2>2, Zenon DEF PipesOK
        <4>3. s.apid = r.apid \/ s.apid = z
          BY <3>1, Zenon DEF Leaves
        <4> QED BY <4>1, <4>2, <4>3, ZenonT(30)
      <3>2. CASE Pipes(P, r, s, z)
        BY <2>1, <2>4, <3>2, SMTT(30) DEF PipesOK, Pipes
      <3> QED BY <3>1, <3>2, Zenon
    <2>7. s.mode \in Blocked => \A i \in Awaiting(s) : i # Len(s.q) /\ s.wpid # s.q[i].pid
      BY <2>2, SMTT(30) DEF Carried, Leaves, Pipes
    <2>8. PipesOK(s)
      BY <2>5, <2>6, <2>7, Zenon DEF PipesOK
    <2> QED BY <2>3, <2>8, Zenon DEF Joined
  <1>7. Fits(P, Q, R, p)
    BY <1>5, <1>6, Zenon DEF Fits, Pipelines
  <1>8. Fits(P, Q, R, z)
    <2>1. Settled(P, R, z)
      BY Zenon DEF Settled, Place
    <2>2. Joined(R, z)
      BY Zenon DEF Joined, PipesOK
    <2> QED BY <2>1, <2>2, Zenon DEF Fits
  <1>9. \A x \in Pids : x # p /\ x # z => Unmoved(Q[x], R[x])
    BY Zenon DEF Unmoved
  <1> QED BY <1>2, <1>7, <1>8, <1>9, KeepIf, Zenon

-----------------------------------------------------------------------------
(***************************************************************************)
(* What the operations do to the threads.                                  *)
(***************************************************************************)
\* The threads stay as they are.
LEMMA SameCarried ==
    ASSUME NEW r, NEW s, s.base = r.base, s.q = r.q
    PROVE  Carried(r, s) /\ Awaiting(s) = Awaiting(r)
  BY Zenon DEF Carried, Awaiting

\* Two steps, neither of which begins to wait.
LEMMA CarriedTrans ==
    ASSUME NEW r, NEW s, NEW t, Carried(r, s), Carried(s, t)
    PROVE  Carried(r, t)
  BY Zenon DEF Carried

\* The top thread changes, and does not wait for a left side if it moves.
LEMMA TopCarried ==
    ASSUME NEW r, IsProc(r), r.q # <<>>, NEW s, s.base = r.base, NEW u,
           s.q = [r.q EXCEPT ![Len(r.q)] = u],
           Len(r.q) > r.base /\ u.pid > 0 =>
               LET t == r.q[Len(r.q)] IN u.pid = t.pid /\ u.code = t.code /\ u.pc = t.pc
    PROVE  /\ Carried(r, s) /\ Len(s.q) = Len(r.q) /\ Len(r.q) \in Nat
           /\ Len(s.q) \in Awaiting(s) => u.pid > 0
  <1> DEFINE n == Len(r.q)
  <1>1. IsSeq(r.q) /\ n \in 1 .. Len(r.q) /\ n \in Nat /\ r.base \in Nat
    BY SeqIs DEF IsProc
  <1>2. s.q = Replaced(r.q, n, u)
    BY Zenon DEF Replaced
  <1>3. /\ Len(s.q) = n /\ s.q[n] = u
        /\ \A i \in 1 .. n : i # n => s.q[i] = r.q[i]
    BY <1>1, <1>2, ReplacedIs
  <1>4. n > r.base /\ u.pid > 0 =>
            u.pid = r.q[n].pid /\ u.code = r.q[n].code /\ u.pc = r.q[n].pc
    OBVIOUS
  <1> HIDE DEF n
  <1>5. ASSUME NEW i \in Awaiting(s)
        PROVE  /\ i \in Awaiting(r) /\ s.q[i].pid = r.q[i].pid
               /\ s.q[i].code = r.q[i].code /\ s.q[i].pc = r.q[i].pc
    <2>1. i \in r.base + 1 .. n /\ s.q[i].pid > 0 /\ i \in 1 .. n
      BY <1>1, <1>3 DEF Awaiting
    <2>2. /\ s.q[i].pid = r.q[i].pid /\ s.q[i].code = r.q[i].code /\ s.q[i].pc = r.q[i].pc
      BY <1>1, <1>3, <1>4, <2>1
    <2> QED BY <2>1, <2>2, Zenon DEF Awaiting, n
  <1>6. n \in Awaiting(s) => u.pid > 0
    BY <1>3, Zenon DEF Awaiting
  <1> QED BY <1>1, <1>3, <1>5, <1>6, Zenon DEF Carried, n

\* A thread is put on top.
LEMMA PushCarried ==
    ASSUME NEW r, IsProc(r), NEW s, s.base = r.base, NEW u, s.q = Append(r.q, u), u.pid = 0
    PROVE  Carried(r, s)
  <1>1. IsSeq(r.q) /\ Len(r.q) \in Nat /\ r.base \in Nat
    BY SeqIs, Zenon DEF IsProc
  <1>2. /\ Len(s.q) = Len(r.q) + 1 /\ s.q[Len(r.q) + 1] = u
        /\ \A i \in 1 .. Len(r.q) : s.q[i] = r.q[i]
    BY <1>1, AppendIs
  <1>3. ASSUME NEW i \in Awaiting(s)  PROVE i \in Awaiting(r) /\ s.q[i] = r.q[i]
    <2>1. i \in r.base + 1 .. Len(r.q) + 1 /\ s.q[i].pid > 0
      BY <1>2, Zenon DEF Awaiting
    <2>2. i # Len(r.q) + 1
      BY <1>2, <2>1
    <2>3. i \in r.base + 1 .. Len(r.q) /\ i \in 1 .. Len(r.q)
      BY <1>1, <2>1, <2>2
    <2> QED BY <1>2, <2>1, <2>3, Zenon DEF Awaiting
  <1> QED BY <1>3, Zenon DEF Carried

\* Threads are taken off.
LEMMA CutCarried ==
    ASSUME NEW r, IsProc(r), NEW s, s.base = r.base, NEW n \in 0 .. Len(r.q), s.q = SubSeq(r.q, 1, n)
    PROVE  Carried(r, s)
  <1>1. IsSeq(r.q) /\ Len(r.q) \in Nat /\ r.base \in Nat
    BY SeqIs, Zenon DEF IsProc
  <1>2. Len(s.q) = n /\ \A i \in 1 .. n : s.q[i] = r.q[i]
    BY <1>1, PrefixIs
  <1>3. ASSUME NEW i \in Awaiting(s)  PROVE i \in Awaiting(r) /\ s.q[i] = r.q[i]
    <2>1. i \in r.base + 1 .. n /\ s.q[i].pid > 0
      BY <1>2, Zenon DEF Awaiting
    <2>2. i \in r.base + 1 .. Len(r.q) /\ i \in 1 .. n
      BY <1>1, <2>1
    <2> QED BY <1>2, <2>1, <2>2, Zenon DEF Awaiting
  <1> QED BY <1>3, Zenon DEF Carried

\* In a step of process p, which gets the record s.
LEMMA OnlyIs ==
    ASSUME FrameInv, NEW p \in Pids, NEW s, s.st # "free", s.par = proc[p].par,
           proc' = [proc EXCEPT ![p] = s]
    PROVE  Only(proc, proc', p) /\ proc'[p] = s
  BY Zenon DEF FrameInv, IsFcn, Only

\* It goes on.
LEMMA GoOp ==
    ASSUME FrameInv, Family(prog, proc), NEW p \in Pids, proc[p].st = "rc", NEW s, Kindred(proc[p], s),
           Carried(proc[p], s), s.mode \notin Blocked, proc' = [proc EXCEPT ![p] = s]
    PROVE  Keep(prog, proc, proc')
  <1>1. s.st # "free" /\ s.par = proc[p].par
    BY Zenon DEF Kindred
  <1>2. Only(proc, proc', p) /\ proc'[p] = s
    BY <1>1, OnlyIs, Zenon
  <1>3. Kindred(proc[p], proc'[p]) /\ Carried(proc[p], proc'[p]) /\ proc'[p].mode \notin Blocked
    BY <1>2, Zenon
  <1> QED BY <1>2, <1>3, GoKeep, Zenon

\* A thread that runs anything but Xpipewait waits for no left side.
LEMMA TopPid ==
    ASSUME FrameInv, Family(prog, proc), NEW p \in Pids, proc[p].st = "rc", Here(p).f # "Xpipewait"
    PROVE  ~(Len(proc[p].q) > proc[p].base /\ Top(p).pid > 0)
  <1>1. /\ Len(proc[p].q) \in Nat /\ IsProc(proc[p]) /\ Top(p) = proc[p].q[Len(proc[p].q)]
        /\ Here(p) = CodeIn(prog, Top(p).code)[Top(p).pc]
    BY TopIs, ZenonT(30)
  <1>2. proc[p].base \in Nat
    BY <1>1, Zenon DEF IsProc
  <1>3. Place(prog, proc[p])
    BY ZenonT(30) DEF Family, Settled
  <1>4. Len(proc[p].q) > proc[p].base /\ Top(p).pid > 0 => Len(proc[p].q) \in Awaiting(proc[p])
    BY <1>1, <1>2 DEF Awaiting
  <1> QED BY <1>1, <1>3, <1>4, Zenon DEF Place

\* A record that differs in no thread.
Near(r, s) == IsProc(s) /\ Kindred(r, s) /\ s.base = r.base /\ s.q = r.q

\* Operations that go on in their thread.
LEMMA GotoOp ==
    ASSUME FrameInv, Family(prog, proc), NEW p \in Pids, proc[p].st = "rc", Here(p).f # "Xpipewait",
           NEW r, Near(proc[p], r),
           NEW b, NEW i, NEW j, NEW k, Goto(p, r, b, i, j, k)
    PROVE  Keep(prog, proc, proc')
  <1> DEFINE u == Moved(Top(p), b, i, j, k)
             m == SetTop(r, u)
             s == Loop(m)
  <1>1. proc' = [proc EXCEPT ![p] = s]
    BY Zenon DEF Goto, Step, Moved
  <1>0. /\ r.q = proc[p].q /\ IsProc(r) /\ r.st = "rc" /\ r.par = proc[p].par
        /\ r.base = proc[p].base /\ r.apid = proc[p].apid
    BY Zenon DEF Near, Kindred
  <1>2. ThreadOK(prog, Top(p)) /\ proc[p].q # <<>> /\ Top(p) = r.q[Len(r.q)]
    BY <1>0, TopIs, Zenon DEF ShellOK
  <1>3. u.pid = Top(p).pid
    BY <1>2, Zenon DEF Moved, ThreadOK, IsFcn, ThreadFields
  <1> HIDE DEF u
  <1>4. Same(r, m) /\ m.q = [r.q EXCEPT ![Len(r.q)] = u]
    BY <1>0, <1>2, SetTopIs, Zenon
  <1> HIDE DEF m
  <1>5. Same(m, s) /\ s.q = m.q /\ s.mode \in Running
    BY <1>4, LoopIs, Zenon DEF Same
  <1> HIDE DEF s
  <1>6. Kindred(proc[p], s) /\ s.base = proc[p].base /\ s.mode \notin Blocked
    BY <1>0, <1>4, <1>5, Zenon DEF Same, Running, Blocked, Kindred
  <1>7. Carried(proc[p], s)
    <2> DEFINE x == proc[p]
    <2>1. IsProc(x) /\ x.q # <<>> /\ s.base = x.base /\ s.q = [x.q EXCEPT ![Len(x.q)] = u]
      BY <1>0, <1>2, <1>4, <1>5, <1>6, TopIs, ZenonT(30) DEF Same
    <2>2. ~(Len(x.q) > x.base /\ u.pid > 0)
      BY <1>3, TopPid, Zenon
    <2> HIDE DEF x
    <2>3. Carried(x, s)
      BY <2>1, <2>2, TopCarried, Zenon
    <2> QED BY <2>3, Zenon DEF x
  <1> QED BY <1>1, <1>6, <1>7, GoOp, Zenon

\* Other fields than the threads make no difference.
LEMMA NearIs ==
    ASSUME NEW r, IsProc(r), NEW v, NEW f \in FnNames
    PROVE  /\ Near(r, r) /\ Near(r, [r EXCEPT !.status = v]) /\ Near(r, [r EXCEPT !.ifnot = v])
           /\ Near(r, [r EXCEPT !.been = v]) /\ Near(r, [r EXCEPT !.fns[f] = v])
  <1>1. Near(r, r)
    BY Zenon DEF Near, Kindred
  <1>2. /\ Near(r, [r EXCEPT !.status = v]) /\ Near(r, [r EXCEPT !.ifnot = v])
        /\ Near(r, [r EXCEPT !.been = v])
    BY Zenon DEF Near, Kindred, IsProc, IsFcn, ProcFields
  <1>3. PICK g : g = [r.fns EXCEPT ![f] = v]
    BY Zenon
  <1>4. IsFcn(g, FnNames)
    BY <1>3, Zenon DEF IsProc, IsFcn
  <1>5. Near(r, [r EXCEPT !.fns = g])
    BY <1>4, Zenon DEF Near, Kindred, IsProc, IsFcn, ProcFields
  <1>6. [r EXCEPT !.fns[f] = v] = [r EXCEPT !.fns = g]
    BY <1>3, Zenon
  <1> QED BY <1>1, <1>2, <1>5, <1>6, Zenon

\* Every operation that goes on in its thread.
LEMMA GotoOps ==
    ASSUME FrameInv, Family(prog, proc), NEW p \in Pids,
           \/ Xmark(p) \/ Xpopm(p) \/ Xdol(p) \/ Xassign(p) \/ Xlocal(p) \/ Xunlocal(p)
           \/ Xread(p) \/ Xdup(p) \/ Xpopredir(p) \/ Xjump(p) \/ Xsettrue(p) \/ Xbang(p)
           \/ Xmatch(p) \/ Xtrue(p) \/ Xfalse(p) \/ Xif(p) \/ Xifnot(p) \/ Xwastrue(p)
           \/ Xcase(p) \/ Xfor(p) \/ Xfn(p) \/ Xdelfn(p)
           \/ (Xeflag(p) /\ truestatus(proc[p].status))
    PROVE  Keep(prog, proc, proc')
  <1>1. proc[p].st = "rc" /\ Here(p).f # "Xpipewait" /\ Here(p).f # "Xrdcmds"
    BY Zenon DEF Xmark, Xpopm, Xdol, Xassign, Xlocal, Xunlocal, Xread, Xdup, Xpopredir, Xjump, Xsettrue,
       Xbang, Xmatch, Xtrue, Xfalse, Xif, Xifnot, Xwastrue, Xcase, Xfor, Xfn, Xdelfn, Xeflag, At
  <1>2. IsProc(proc[p])
    BY <1>1, TopIs, Zenon
  <1> DEFINE Goes(r) == \E b, i, j, k : Goto(p, r, b, i, j, k)
  <1>3. ASSUME NEW r, Near(proc[p], r), Goes(r)  PROVE Keep(prog, proc, proc')
    BY <1>1, <1>3, GotoOp, Zenon
  <1>4. CASE \/ Xmark(p) \/ Xpopm(p) \/ Xdol(p) \/ Xassign(p) \/ Xlocal(p) \/ Xunlocal(p)
             \/ Xread(p) \/ Xdup(p) \/ Xpopredir(p) \/ Xjump(p) \/ Xtrue(p) \/ Xfalse(p)
             \/ Xifnot(p) \/ Xcase(p) \/ Xfor(p) \/ (Xeflag(p) /\ truestatus(proc[p].status))
    <2>1. Goes(proc[p])
      BY <1>4, Zenon DEF Xmark, Xpopm, Xdol, Xassign, Xlocal, Xunlocal, Xread, Xdup, Xpopredir, Xjump,
         Xtrue, Xfalse, Xifnot, Xcase, Xfor, Xeflag, Branch
    <2>2. Near(proc[p], proc[p])
      BY <1>2, Zenon DEF Near, Kindred
    <2> QED BY <1>3, <2>1, <2>2, Zenon
  <1>5. CASE Xsettrue(p) \/ Xbang(p) \/ Xmatch(p)
    <2>1. PICK v : Goes([proc[p] EXCEPT !.status = v])
      BY <1>5, Zenon DEF Xsettrue, Xbang, Xmatch
    <2>2. Near(proc[p], [proc[p] EXCEPT !.status = v])
      BY <1>2, Zenon DEF Near, Kindred, IsProc, IsFcn, ProcFields
    <2> QED BY <1>3, <2>1, <2>2, Zenon
  <1>6. CASE Xif(p) \/ Xwastrue(p)
    <2>1. PICK v : Goes([proc[p] EXCEPT !.ifnot = v])
      BY <1>6, Zenon DEF Xif, Xwastrue, Branch
    <2>2. Near(proc[p], [proc[p] EXCEPT !.ifnot = v])
      BY <1>2, Zenon DEF Near, Kindred, IsProc, IsFcn, ProcFields
    <2> QED BY <1>3, <2>1, <2>2, Zenon
  <1>7. CASE Xfn(p) \/ Xdelfn(p)
    <2>1. PICK v : Goes([proc[p] EXCEPT !.fns[Here(p).c] = v])
      BY <1>7, Zenon DEF Xfn, Xdelfn
    <2>2. Here(p).c \in FnNames
      <3>1. /\ prog \in Progs /\ Top(p).code \in CodeNames(prog)
            /\ Top(p).pc \in DOMAIN CodeIn(prog, Top(p).code)
            /\ Here(p) = CodeIn(prog, Top(p).code)[Top(p).pc]
        BY <1>1, TopIs, Zenon
      <3>2. Here(p).f \in {"Xfn", "Xdelfn"}
        BY <1>7, Zenon DEF Xfn, Xdelfn, At
      <3> QED BY <3>1, <3>2, FnCellIs, Zenon
    <2>3. Near(proc[p], [proc[p] EXCEPT !.fns[Here(p).c] = v])
      BY <1>2, <2>2, NearIs, Zenon
    <2> QED BY <1>3, <2>1, <2>3, Zenon
  <1> QED BY <1>4, <1>5, <1>6, <1>7, Zenon

\* The process ends.
LEMMA EndOp ==
    ASSUME FrameInv, Family(prog, proc), NEW p \in Pids, proc[p].st # "free", NEW c,
           proc' = Ended(proc, p, c)
    PROVE  Keep(prog, proc, proc')
  <1>1. \A x \in Pids : IsProc(proc[x])
    BY Zenon DEF FrameInv, ProcOK
  <1>2. Dies(proc, proc', p, c)
    BY Zenon DEF Dies
  <1> QED BY <1>1, <1>2, EndKeep, Zenon

\* Threads are taken off.
LEMMA CutOp ==
    ASSUME FrameInv, Family(prog, proc), NEW p \in Pids, proc[p].st = "rc", NEW r, Near(proc[p], r),
           NEW s, Same(r, s), NEW n \in 0 .. Len(r.q), s.q = SubSeq(r.q, 1, n),
           s.mode \notin Blocked, proc' = [proc EXCEPT ![p] = s]
    PROVE  Keep(prog, proc, proc')
  <1>1. IsProc(r) /\ Kindred(proc[p], s) /\ s.base = r.base
    BY Zenon DEF Near, Same, Kindred
  <1>2. Carried(r, s) /\ Carried(proc[p], r)
    BY <1>1, CutCarried, SameCarried, Zenon DEF Near
  <1>3. Carried(proc[p], s)
    BY <1>2, CarriedTrans, Zenon
  <1> QED BY <1>1, <1>3, GoOp, Zenon

\* A thread is put on top of those that r has.
LEMMA CallOp ==
    ASSUME FrameInv, Family(prog, proc), NEW p \in Pids, proc[p].st = "rc", NEW r, IsProc(r),
           Kindred(proc[p], r), Carried(proc[p], r), NEW u, u.pid = 0, NEW s,
           \/ s = Push(r, u) /\ r.mode \notin Blocked
           \/ s = Loop(Push(r, u)),
           proc' = [proc EXCEPT ![p] = s]
    PROVE  Keep(prog, proc, proc')
  <1> DEFINE m == Push(r, u)
  <1>1. Same(r, m) /\ m.q = Append(r.q, u) /\ m.mode = r.mode
    BY PushIs, Zenon
  <1> HIDE DEF m
  <1>2. Same(m, Loop(m)) /\ Loop(m).q = m.q /\ Loop(m).mode \in Running
    BY <1>1, LoopIs, Zenon DEF Same
  <1>3. Same(r, s) /\ s.q = Append(r.q, u) /\ s.mode \notin Blocked
    BY <1>1, <1>2, Zenon DEF Same, Running, Blocked, m
  <1>4. Carried(r, s)
    BY <1>3, PushCarried, Zenon DEF Same
  <1>5. Carried(proc[p], s) /\ Kindred(proc[p], s)
    BY <1>3, <1>4, CarriedTrans, Zenon DEF Same, Kindred
  <1> QED BY <1>3, <1>5, GoOp, Zenon

\* Return: the thread below goes on, or the process ends.
LEMMA ReturnOp ==
    ASSUME FrameInv, Family(prog, proc), NEW p \in Pids, proc[p].st = "rc", Return(p, proc[p])
    PROVE  Keep(prog, proc, proc')
  <1> DEFINE r == proc[p]
             n == Len(r.q) - 1
             q == SubSeq(r.q, 1, n)
             m == [r EXCEPT !.q = q]
             s == Loop(m)
  <1>1. IsProc(r) /\ Len(r.q) \in Nat /\ Len(r.q) \in 1 .. Len(r.q) /\ Near(r, r)
    BY TopIs, Zenon DEF Near, Kindred
  <1>2. CASE Len(r.q) = 1
    BY <1>1, <1>2, EndOp, Zenon DEF Return, Terminate
  <1>3. CASE Len(r.q) # 1
    <2>1. proc' = [proc EXCEPT ![p] = s]
      BY <1>3, Zenon DEF Return
    <2>2. n \in 0 .. Len(r.q)
      BY <1>1
    <2>3. Same(r, m) /\ m.q = SubSeq(r.q, 1, n)
      BY <1>1, <2>2, CutIs, ZenonT(30)
    <2> HIDE DEF m
    <2>4. Same(m, s) /\ s.q = m.q /\ s.mode \in Running
      BY <2>3, LoopIs, Zenon DEF Same
    <2> HIDE DEF s
    <2>5. Same(r, s) /\ s.q = SubSeq(r.q, 1, n) /\ s.mode \notin Blocked
      BY <2>3, <2>4, Zenon DEF Same, Running, Blocked
    <2> QED BY <1>1, <2>1, <2>2, <2>5, CutOp, ZenonT(30)
  <1> QED BY <1>2, <1>3, Zenon

\* Unwind: the command loop of the terminal goes on, or the process ends.
LEMMA UnwindOp ==
    ASSUME Ordered, FrameInv, Family(prog, proc), NEW p \in Pids, proc[p].st = "rc", NEW r, Near(proc[p], r),
           Unwind(p, r)
    PROVE  Keep(prog, proc, proc')
  <1> DEFINE m == [r EXCEPT !.q = Uncover(@)]
             s == Loop(m)
  <1>1. IsProc(r)
    BY Zenon DEF Near
  <1>2. PICK n \in 0 .. Len(r.q) : Same(r, m) /\ m.q = SubSeq(r.q, 1, n)
    BY <1>1, UncoveredIs, Zenon
  <1>3. CASE Uncover(r.q) = <<>>
    BY <1>3, EndOp, Zenon DEF Unwind, Terminate
  <1>4. CASE Uncover(r.q) # <<>>
    <2>1. proc' = [proc EXCEPT ![p] = s]
      BY <1>4, Zenon DEF Unwind
    <2> HIDE DEF m
    <2>4. Same(m, s) /\ s.q = m.q /\ s.mode \in Running
      BY <1>2, LoopIs, Zenon DEF Same
    <2> HIDE DEF s
    <2>5. Same(r, s) /\ s.q = SubSeq(r.q, 1, n) /\ s.mode \notin Blocked
      BY <1>2, <2>4, Zenon DEF Same, Running, Blocked
    <2> QED BY <1>1, <2>1, <2>5, CutOp, Zenon
  <1> QED BY <1>3, <1>4, Zenon

\* Exits: fn sigexit runs, or the process ends.
LEMMA ExitsOp ==
    ASSUME FrameInv, Family(prog, proc), NEW p \in Pids, proc[p].st = "rc", NEW r, Near(proc[p], r),
           Exits(p, r)
    PROVE  Keep(prog, proc, proc')
  <1>1. CASE Terminate(p, r.status)
    BY <1>1, EndOp, Zenon DEF Terminate
  <1>2. CASE ~Terminate(p, r.status)
    <2> DEFINE b == [r EXCEPT !.been = TRUE]
               u == start(b.fns["sigexit"].code, b.fns["sigexit"].pc, 1)
    <2>1. proc' = [proc EXCEPT ![p] = Loop(Push(b, u))]
      BY <1>2, Zenon DEF Exits, Handler
    <2>2. Near(r, b)
      <3>1. IsProc(r)
        BY Zenon DEF Near
      <3> QED BY <3>1, Zenon DEF Near, Kindred, IsProc, IsFcn, ProcFields
    <2>3. u.pid = 0
      BY Zenon DEF start
    <2> HIDE DEF b, u
    <2>4. IsProc(b) /\ Kindred(proc[p], b) /\ b.base = proc[p].base /\ b.q = proc[p].q
      BY <2>2, Zenon DEF Near, Kindred
    <2>5. Carried(proc[p], b)
      BY <2>4, SameCarried, Zenon
    <2> QED BY <2>1, <2>3, <2>4, <2>5, CallOp, Zenon
  <1> QED BY <1>1, <1>2, Zenon

\* The operations that end a thread or a process.
LEMMA LastOps ==
    ASSUME Ordered, FrameInv, Family(prog, proc), NEW p \in Pids,
           \/ Xreturn(p) \/ Xexit(p) \/ Xeflag(p) \/ execexit(p) \/ SimpleExec(p) \/ Xerror(p)
           \/ CommandEnds(p)
    PROVE  Keep(prog, proc, proc')
  <1>1. CASE CommandEnds(p)
    <2>1. proc[p].st # "free" /\ \E c : proc' = Ended(proc, p, c)
      BY <1>1, Zenon DEF CommandEnds
    <2> QED BY <2>1, EndOp, Zenon
  <1>2. CASE ~CommandEnds(p)
    <2>1. proc[p].st = "rc"
      BY <1>2, Zenon DEF Xreturn, Xexit, Xeflag, execexit, SimpleExec, Xerror, CanFail, External, Simple, At
    <2>2. IsProc(proc[p]) /\ Near(proc[p], proc[p])
      BY <2>1, TopIs, Zenon DEF Near, Kindred
    <2>3. Near(proc[p], [proc[p] EXCEPT !.status = <<TEXT>>])
      BY <2>2, ZenonT(30) DEF Near, Kindred, IsProc, IsFcn, ProcFields
    <2>4. CASE Xreturn(p)
      BY <2>1, <2>4, ReturnOp, Zenon DEF Xreturn
    <2>5. CASE Xexit(p)
      BY <2>1, <2>2, <2>5, ExitsOp, Zenon DEF Xexit
    <2>6. CASE Xeflag(p)
      <3>1. CASE truestatus(proc[p].status)
        BY <2>6, <3>1, GotoOps, Zenon
      <3>2. CASE ~truestatus(proc[p].status)
        <4>1. Exits(p, proc[p])
          BY <2>6, <3>2, Zenon DEF Xeflag
        <4> QED BY <2>1, <2>2, <4>1, ExitsOp, Zenon
      <3> QED BY <3>1, <3>2, Zenon
    <2>7. CASE execexit(p)
      <3>1. \E r : Near(proc[p], r) /\ Exits(p, r)
        BY <2>2, <2>3, <2>7, Zenon DEF execexit
      <3> QED BY <2>1, <3>1, ExitsOp, Zenon
    <2>8. CASE SimpleExec(p)
      <3>1. CASE Exits(p, proc[p])
        BY <2>1, <2>2, <3>1, ExitsOp, Zenon
      <3>2. CASE ~Exits(p, proc[p])
        <4> DEFINE l == Here(p).c
                   s == Exec(proc[p], l)
        <4>1. proc' = [proc EXCEPT ![p] = s]
          BY <2>8, <3>2, Zenon DEF SimpleExec
        <4>2. s.st # "free" /\ s.par = proc[p].par
          BY ExecIs, Zenon
        <4> HIDE DEF l
        <4>3. Only(proc, proc', p) /\ proc'[p] = s
          BY <4>1, <4>2, OnlyIs, ZenonT(30)
        <4> QED BY <4>3, ExecKeep, Zenon
      <3> QED BY <3>1, <3>2, Zenon
    <2>9. CASE Xerror(p)
      <3>1. Unwind(p, [proc[p] EXCEPT !.status = <<TEXT>>])
        BY <2>9, Zenon DEF Xerror
      <3> QED BY <2>1, <2>3, <3>1, UnwindOp, Zenon
    <2> QED BY <1>2, <2>4, <2>5, <2>6, <2>7, <2>8, <2>9, Zenon
  <1> QED BY <1>1, <1>2, Zenon

\* The thread on top, at an operation other than Xpipewait, moves or not.
LEMMA TopOp ==
    ASSUME FrameInv, Family(prog, proc), NEW p \in Pids, proc[p].st = "rc", NEW u, u.pid = Top(p).pid,
           Here(p).f # "Xpipewait" \/ (u.code = Top(p).code /\ u.pc = Top(p).pc)
    PROVE  LET s == SetTop(proc[p], u)
           IN  /\ Same(proc[p], s) /\ Carried(proc[p], s) /\ s.mode = proc[p].mode
               /\ Len(s.q) = Len(proc[p].q)
               /\ s.q = [proc[p].q EXCEPT ![Len(proc[p].q)] = u]
               /\ Here(p).f # "Xpipewait" => Len(s.q) \notin Awaiting(s)
  <1> DEFINE r == proc[p]
             s == SetTop(r, u)
  <1>1. IsProc(r) /\ r.q # <<>> /\ Top(p) = r.q[Len(r.q)] /\ Len(r.q) \in Nat
    BY TopIs, Zenon DEF ShellOK
  <1>2. /\ Same(r, s) /\ s.q = [r.q EXCEPT ![Len(r.q)] = u] /\ s.mode = r.mode
    BY <1>1, SetTopIs, ZenonT(30)
  <1> HIDE DEF s
  <1>3. Len(r.q) > r.base /\ u.pid > 0 =>
            LET t == r.q[Len(r.q)] IN u.pid = t.pid /\ u.code = t.code /\ u.pc = t.pc
    BY <1>1, TopPid, Zenon
  <1>4. s.base = r.base /\ r.base \in Nat
    BY <1>1, <1>2, ZenonT(30) DEF Same, IsProc
  <1>5. Here(p).f # "Xpipewait" => ~(Len(r.q) > r.base /\ u.pid > 0)
    BY TopPid, Zenon
  <1> HIDE DEF r
  <1>6. Carried(r, s) /\ Len(s.q) = Len(r.q) /\ (Len(s.q) \in Awaiting(s) => u.pid > 0)
    BY <1>1, <1>2, <1>3, <1>4, TopCarried, ZenonT(30)
  <1>7. Len(s.q) \in Awaiting(s) => Len(r.q) > r.base
    BY <1>1, <1>4, <1>6 DEF Awaiting
  <1> QED BY <1>2, <1>5, <1>6, <1>7, Zenon DEF r, s

\* A function is called, and a line of commands.
LEMMA EnterOps ==
    ASSUME FrameInv, Family(prog, proc), NEW p \in Pids, execfunc(p) \/ Parsed(p)
    PROVE  Keep(prog, proc, proc')
  <1>1. proc[p].st = "rc" /\ ThreadOK(prog, Top(p))
    BY TopIs, Zenon DEF execfunc, Simple, At, Parsed, Parsing
  <1>2. CASE execfunc(p)
    <2> DEFINE u == Popped(Top(p), Next1(p))
               m == SetTop(proc[p], u)
               f == proc[p].fns[Here(p).c]
               t == start(f.code, f.pc, u.local + 1)
    <2>1. Here(p).f = "Xsimple" /\ proc' = [proc EXCEPT ![p] = Loop(Push(m, t))]
      BY <1>2, Zenon DEF execfunc, Simple, At, Popped, Step
    <2>2. u.pid = Top(p).pid
      BY <1>1, ZenonT(30) DEF ThreadOK, IsFcn, ThreadFields, Popped
    <2>3. t.pid = 0
      BY Zenon DEF start
    <2> HIDE DEF u, t
    <2>4. Same(proc[p], m) /\ Carried(proc[p], m)
      BY <1>1, <2>1, <2>2, TopOp, ZenonT(30)
    <2>5. IsProc(m) /\ Kindred(proc[p], m)
      BY <2>4, Zenon DEF Same, Kindred
    <2> HIDE DEF m
    <2> QED BY <1>1, <2>1, <2>3, <2>4, <2>5, CallOp, ZenonT(30)
  <1>3. CASE Parsed(p)
    <2> DEFINE n == Top(p).next + 1
               u == Reading(Top(p), n)
               m == SetTop(proc[p], u)
               s == [m EXCEPT !.ntrap = 0]
               t == start(n, 1, Top(p).local)
    <2>1. proc' = [proc EXCEPT ![p] = Loop(Push(s, t))]
      BY <1>3, Zenon DEF Parsed, Reading, Step
    <2>2. u.pid = Top(p).pid /\ u.code = Top(p).code /\ u.pc = Top(p).pc
      BY <1>1, Zenon DEF ThreadOK, IsFcn, ThreadFields, Reading
    <2>3. t.pid = 0
      BY Zenon DEF start
    <2> HIDE DEF u, t, n
    <2>4. Same(proc[p], m) /\ Carried(proc[p], m)
      BY <1>1, <2>2, TopOp, Zenon
    <2> HIDE DEF m
    <2>5. IsProc(s) /\ Kindred(m, s) /\ s.q = m.q /\ s.base = m.base
      BY <2>4, ZenonT(30) DEF Same, Kindred, IsProc, IsFcn, ProcFields
    <2> HIDE DEF s
    <2>6. Carried(proc[p], s) /\ Kindred(proc[p], s)
      BY <2>4, <2>5, SameCarried, CarriedTrans, Zenon DEF Same, Kindred
    <2> QED BY <1>1, <2>1, <2>3, <2>5, <2>6, CallOp, ZenonT(30)
  <1> QED BY <1>2, <1>3, Zenon

\* The process goes on with the threads it has.
LEMMA RunOp ==
    ASSUME FrameInv, Family(prog, proc), NEW p \in Pids, proc[p].st = "rc", NEW s,
           Same(proc[p], s), s.q = proc[p].q, s.mode \notin Blocked, proc' = [proc EXCEPT ![p] = s]
    PROVE  Keep(prog, proc, proc')
  <1>1. Kindred(proc[p], s) /\ s.base = proc[p].base
    BY Zenon DEF Same, Kindred
  <1>2. Carried(proc[p], s)
    BY <1>1, SameCarried, Zenon
  <1> QED BY <1>1, <1>2, GoOp, Zenon

\* The command loop, and the end of what a process waits for.
LEMMA ReadOps ==
    ASSUME FrameInv, Family(prog, proc), NEW p \in Pids,
           \/ SyntaxError(p) \/ EndOfFile(p) \/ Xrdcmds(p) \/ ReadEnd(p) \/ WaitforNone(p)
    PROVE  Keep(prog, proc, proc')
  <1> DEFINE r == proc[p]
  <1>1. r.st = "rc"
    BY Zenon DEF SyntaxError, EndOfFile, Parsing, Xrdcmds, At, ReadEnd, WaitforNone
  <1>2. IsProc(r) /\ ThreadOK(prog, Top(p))
    BY <1>1, TopIs, Zenon
  <1>3. CASE SyntaxError(p)
    <2>1. CASE Return(p, r)
      BY <1>1, <2>1, ReturnOp, Zenon
    <2>2. CASE ~Return(p, r)
      <3> DEFINE n == Top(p).next + 1
                 u == Reading(Top(p), n)
                 m == SetTop(r, u)
                 s == Loop(m)
      <3>1. proc' = [proc EXCEPT ![p] = s]
        BY <1>3, <2>2, Zenon DEF SyntaxError, Reading
      <3>2. u.pid = Top(p).pid /\ u.code = Top(p).code /\ u.pc = Top(p).pc
        BY <1>2, Zenon DEF ThreadOK, IsFcn, ThreadFields, Reading
      <3> HIDE DEF u
      <3>3. Same(r, m) /\ Carried(r, m)
        BY <1>1, <3>2, TopOp, ZenonT(30)
      <3> HIDE DEF m
      <3>4. Same(m, s) /\ s.q = m.q /\ s.mode \in Running
        BY <3>3, LoopIs, Zenon DEF Same
      <3> HIDE DEF s
      <3>5. Kindred(r, s) /\ Carried(r, s) /\ s.mode \notin Blocked
        BY <3>3, <3>4, SameCarried, CarriedTrans, ZenonT(30) DEF Same, Kindred, Running, Blocked
      <3> QED BY <1>1, <3>1, <3>5, GoOp, Zenon
    <2> QED BY <2>1, <2>2, Zenon
  <1>4. CASE EndOfFile(p)
    <2>1. CASE Return(p, r)
      BY <1>1, <2>1, ReturnOp, ZenonT(30)
    <2>2. CASE ~Return(p, r)
      <3> DEFINE s == Loop(r)
      <3>1. proc' = [proc EXCEPT ![p] = s]
        BY <1>4, <2>2, Zenon DEF EndOfFile
      <3>2. Same(r, s) /\ s.q = r.q /\ s.mode \notin Blocked
        BY <1>2, LoopIs, Zenon DEF Running, Blocked
      <3> HIDE DEF s
      <3> QED BY <1>1, <3>1, <3>2, RunOp, ZenonT(30)
    <2> QED BY <2>1, <2>2, ZenonT(30)
  <1>5. CASE Xrdcmds(p)
    <2> DEFINE s == [r EXCEPT !.mode = "parse", !.intr = FALSE]
    <2>1. proc' = [proc EXCEPT ![p] = s]
      BY <1>5, Zenon DEF Xrdcmds, FrameInv, IsFcn
    <2>2. Same(r, s) /\ s.q = r.q /\ s.mode = "parse"
      BY <1>2, Zenon DEF Same, IsProc, IsFcn, ProcFields
    <2>3. s.mode \notin Blocked
      BY <2>2, Zenon DEF Blocked
    <2> HIDE DEF s
    <2> QED BY <1>1, <2>1, <2>2, <2>3, RunOp, ZenonT(30)
  <1>6. CASE ReadEnd(p)
    <2> DEFINE s == [r EXCEPT !.mode = "wait"]
    <2>1. proc' = [proc EXCEPT ![p] = s] /\ r.mode = "read"
      BY <1>6, Zenon DEF ReadEnd
    <2>2. Same(r, s) /\ s.q = r.q /\ s.mode = "wait" /\ s.wpid = r.wpid
      BY <1>2, Zenon DEF Same, IsProc, IsFcn, ProcFields
    <2> HIDE DEF s
    <2>3. s.st # "free" /\ s.par = r.par
      BY <1>1, <2>2, Zenon DEF Same
    <2>4. Only(proc, proc', p) /\ proc'[p] = s
      BY <2>1, <2>3, OnlyIs, ZenonT(30)
    <2> QED BY <1>1, <2>1, <2>2, <2>4, StayKeep, ZenonT(30)
  <1>7. CASE WaitforNone(p)
    <2> DEFINE m == Waited(r)
               s == Loop(m)
    <2>1. proc' = [proc EXCEPT ![p] = s]
      BY <1>7, Zenon DEF WaitforNone, Step
    <2>2. Same(r, m) /\ m.q = r.q
      BY <1>2, WaitedIs, Zenon
    <2> HIDE DEF m
    <2>3. Same(m, s) /\ s.q = m.q /\ s.mode \in Running
      BY <2>2, LoopIs, Zenon DEF Same
    <2> HIDE DEF s
    <2>4. Same(r, s) /\ s.q = r.q /\ s.mode \notin Blocked
      BY <2>2, <2>3, Zenon DEF Same, Running, Blocked
    <2> QED BY <1>1, <2>1, <2>4, RunOp, Zenon
  <1> QED BY <1>3, <1>4, <1>5, <1>6, <1>7, Zenon

\* A note is counted; a system call it ends lets the process go on.
LEMMA NotedOp ==
    ASSUME FrameInv, Family(prog, proc), NEW p \in Pids, NEW i, Note(p, i)
    PROVE  Keep(prog, proc, proc')
  <1> DEFINE r == proc[p]
             n == Noted(r, i)
             w == [n EXCEPT !.mode = "wait"]
             s == Interrupted(p, n)
  <1>1. r.st = "rc" /\ (proc' = [proc EXCEPT ![p] = n] \/ proc' = [proc EXCEPT ![p] = s])
    BY ZenonT(30) DEF Note
  <1>2. IsProc(r)
    BY <1>1, TopIs, Zenon
  <1>3. Same(r, n) /\ n.q = r.q /\ n.mode = r.mode /\ n.wpid = r.wpid
    BY <1>2, ZenonT(30) DEF Noted, Same, IsProc, IsFcn, ProcFields
  <1>4. s \in {Waited(n), Loop(n), n} \/ (s = w /\ n.mode = "read")
    BY Zenon DEF Interrupted
  <1> HIDE DEF n
  <1>5. Same(n, w) /\ w.q = n.q /\ w.mode = "wait" /\ w.wpid = n.wpid
    BY <1>3, Zenon DEF Same, IsProc, IsFcn, ProcFields
  <1> HIDE DEF w, s
  <1>6. ASSUME NEW x, Same(r, x), x.q = r.q, x.wpid = r.wpid,
               x.mode = r.mode \/ (r.mode = "read" /\ x.mode = "wait"),
               proc' = [proc EXCEPT ![p] = x]
        PROVE  Keep(prog, proc, proc')
    <2>1. x.st # "free" /\ x.par = r.par
      BY <1>1, <1>6, Zenon DEF Same
    <2>2. Only(proc, proc', p) /\ proc'[p] = x
      BY <1>6, <2>1, OnlyIs, ZenonT(30)
    <2> QED BY <1>1, <1>6, <2>2, StayKeep, ZenonT(30)
  <1>7. CASE proc' = [proc EXCEPT ![p] = n]
    BY <1>3, <1>6, <1>7, ZenonT(30)
  <1>8. CASE proc' = [proc EXCEPT ![p] = s] /\ (s = n \/ (s = w /\ n.mode = "read"))
    <2>1. Same(r, s) /\ s.q = r.q /\ s.wpid = r.wpid
      BY <1>3, <1>5, <1>8, Zenon DEF Same
    <2>2. s.mode = r.mode \/ (r.mode = "read" /\ s.mode = "wait")
      BY <1>3, <1>5, <1>8, Zenon
    <2> QED BY <1>6, <1>8, <2>1, <2>2, ZenonT(30)
  <1>9. CASE proc' = [proc EXCEPT ![p] = s] /\ s \in {Waited(n), Loop(n)}
    <2>1. Same(n, s) /\ s.q = n.q /\ s.mode \in Running
      BY <1>3, <1>9, LoopIs, WaitedIs, SMTT(30) DEF Same
    <2>2. Same(r, s) /\ s.q = r.q /\ s.mode \notin Blocked
      BY <1>3, <2>1, Zenon DEF Same, Running, Blocked
    <2> QED BY <1>1, <1>9, <2>2, RunOp, ZenonT(30)
  <1> QED BY <1>1, <1>4, <1>7, <1>8, <1>9, Zenon

\* A pending note is taken.
LEMMA TrappedOp ==
    ASSUME Ordered, FrameInv, Family(prog, proc), NEW p \in Pids, dotrap(p)
    PROVE  Keep(prog, proc, proc')
  <1> DEFINE r == proc[p]
             S == {i \in Sigs : i >= r.sig /\ r.trap[i] > 0}
             t == [r EXCEPT !.sig = Min(S), !.trap[Min(S)] = @ - 1, !.ntrap = @ - 1]
             f == signame(Min(S))
  <1>1. r.st = "rc" /\ r.mode = "trap"
    BY Zenon DEF dotrap
  <1>2. IsProc(r)
    BY <1>1, TopIs, Zenon
  <1>3. \/ proc' = [proc EXCEPT ![p] = Loop(r)] \/ Terminate(p, r.status)
        \/ proc' = [proc EXCEPT ![p] = Handler(t, f)]
        \/ proc' = [proc EXCEPT ![p] = [t EXCEPT !.q = Uncover(@)]]
    BY Zenon DEF dotrap
  <1>4. Same(r, t) /\ t.q = r.q /\ t.mode = "trap"
    BY <1>1, <1>2, ZenonT(30) DEF Same, IsProc, IsFcn, ProcFields
  <1> HIDE DEF t, f
  <1>5. Near(r, t) /\ t.mode \notin Blocked
    BY <1>4, Zenon DEF Near, Kindred, Same, Blocked
  <1>6. CASE proc' = [proc EXCEPT ![p] = Loop(r)]
    <2> DEFINE s == Loop(r)
    <2>1. Same(r, s) /\ s.q = r.q /\ s.mode \notin Blocked
      BY <1>2, LoopIs, Zenon DEF Running, Blocked
    <2> HIDE DEF s
    <2>2. proc' = [proc EXCEPT ![p] = s]
      BY <1>6, Zenon DEF s
    <2> QED BY <1>1, <2>1, <2>2, RunOp, ZenonT(30)
  <1>7. CASE Terminate(p, r.status)
    BY <1>1, <1>7, EndOp, Zenon DEF Terminate
  <1>8. CASE proc' = [proc EXCEPT ![p] = Handler(t, f)]
    <2> DEFINE u == start(t.fns[f].code, t.fns[f].pc, 1)
               s == Push(t, u)
    <2>1. proc' = [proc EXCEPT ![p] = s] /\ u.pid = 0
      BY <1>8, Zenon DEF Handler, start
    <2> HIDE DEF u
    <2>2. IsProc(t) /\ Kindred(r, t) /\ Carried(r, t)
      BY <1>5, SameCarried, Zenon DEF Near
    <2> QED BY <1>1, <1>5, <2>1, <2>2, CallOp, ZenonT(30)
  <1>9. CASE proc' = [proc EXCEPT ![p] = [t EXCEPT !.q = Uncover(@)]]
    <2> DEFINE s == [t EXCEPT !.q = Uncover(@)]
    <2>1. IsProc(t)
      BY <1>4, Zenon DEF Same
    <2>2. PICK n \in 0 .. Len(t.q) : Same(t, s) /\ s.q = SubSeq(t.q, 1, n) /\ s.mode = t.mode
      BY <2>1, UncoveredIs, Zenon
    <2> HIDE DEF s
    <2>3. proc' = [proc EXCEPT ![p] = s] /\ s.mode \notin Blocked
      BY <1>5, <1>9, <2>2, ZenonT(30) DEF s
    <2> QED BY <1>1, <1>5, <2>2, <2>3, CutOp, ZenonT(30)
  <1> QED BY <1>3, <1>6, <1>7, <1>8, <1>9, Zenon

\* A command waits, or a pipeline for its left side.
LEMMA BlockOps ==
    ASSUME FrameInv, Family(prog, proc), NEW p \in Pids, execwait(p) \/ Xpipewait(p)
    PROVE  Keep(prog, proc, proc')
  <1> DEFINE r == proc[p]
  <1>0. r.st = "rc"
    BY Zenon DEF execwait, Simple, Xpipewait, At
  <1>1. /\ ThreadOK(prog, Top(p)) /\ IsProc(r) /\ r.q # <<>> /\ Len(r.q) \in Nat
        /\ Top(p) = r.q[Len(r.q)]
    BY <1>0, TopIs, ZenonT(30) DEF ShellOK
  <1>2. r.base \in Nat
    BY <1>1, Zenon DEF IsProc
  <1>3. ASSUME NEW m, Same(r, m), Carried(r, m), Len(m.q) = Len(r.q), Len(m.q) \notin Awaiting(m),
               NEW w, w = -1 \/ w = r.apid \/ w = Top(p).pid, NEW k,
               proc' = [proc EXCEPT ![p] = Waits(m, "wait", w, k)]
        PROVE  Keep(prog, proc, proc')
    <2> DEFINE s == Waits(m, "wait", w, k)
    <2>1. Same(m, s) /\ s.q = m.q /\ s.mode = "wait" /\ s.wpid = w
      BY <1>3, WaitsIs, SMTT(30) DEF Same
    <2> HIDE DEF s
    <2>2. Same(r, s) /\ s.base = m.base
      BY <1>3, <2>1, Zenon DEF Same
    <2>3. Carried(m, s) /\ Awaiting(s) = Awaiting(m)
      BY <2>1, <2>2, SameCarried, Zenon
    <2>4. Carried(r, s)
      BY <1>3, <2>3, CarriedTrans, Zenon
    <2>5. Only(proc, proc', p) /\ proc'[p] = s
      BY <1>0, <1>3, <2>2, OnlyIs, ZenonT(30) DEF s, Same
    <2>6. Len(s.q) = Len(r.q) /\ Len(s.q) \notin Awaiting(s)
      BY <1>3, <2>1, <2>3, Zenon
    <2> HIDE DEF r
    <2>7. s.wpid = -1 \/ s.wpid = r.apid \/ s.wpid = r.q[Len(r.q)].pid
      BY <1>1, <1>3, <2>1, Zenon
    <2> QED BY <1>0, <1>1, <1>2, <2>1, <2>2, <2>4, <2>5, <2>6, <2>7, BlockKeep, ZenonT(30) DEF r
  <1>4. CASE execwait(p)
    <2> DEFINE u == Popped(Top(p), Next1(p))
               m == SetTop(r, u)
    <2>1. /\ Here(p).f = "Xsimple"
          /\ \E w : /\ w = -1 \/ w = r.apid
                    /\ proc' = [proc EXCEPT ![p] = Waits(m, "wait", w, <<>>)]
      BY <1>4, Zenon DEF execwait, Simple, At, Popped
    <2>2. u.pid = Top(p).pid
      BY <1>1, Zenon DEF ThreadOK, IsFcn, ThreadFields, Popped
    <2> HIDE DEF u
    <2>3. Same(r, m) /\ Carried(r, m) /\ Len(m.q) = Len(r.q) /\ Len(m.q) \notin Awaiting(m)
      BY <1>0, <2>1, <2>2, TopOp, Zenon
    <2> HIDE DEF m
    <2> QED BY <1>3, <2>1, <2>3, Zenon
  <1>5. CASE Xpipewait(p)
    <2> DEFINE u == Piped(Top(p), Next1(p), -1)
               m == SetTop(r, u)
    <2>1. u.pid = -1
      BY <1>1, Zenon DEF ThreadOK, IsFcn, ThreadFields, Piped
    <2>2. \/ proc' = [proc EXCEPT ![p] = Waits(m, "wait", Top(p).pid, r.status)]
          \/ proc' = [proc EXCEPT ![p] = Loop([m EXCEPT !.status = concstatus(Top(p).pst, r.status)])]
      BY <1>5, Zenon DEF Xpipewait, Step, Piped
    <2> HIDE DEF u
    <2>3. Same(r, m) /\ m.q = [r.q EXCEPT ![Len(r.q)] = u] /\ m.mode = r.mode
      BY <1>1, SetTopIs, ZenonT(30)
    <2> HIDE DEF m
    <2>4. Carried(r, m) /\ Len(m.q) = Len(r.q) /\ Len(m.q) \notin Awaiting(m)
      <3> HIDE DEF r
      <3>1. m.base = r.base /\ ~(u.pid > 0)
        BY <2>1, <2>3 DEF Same
      <3> QED BY <1>1, <2>3, <3>1, TopCarried, ZenonT(30)
    <2>5. CASE proc' = [proc EXCEPT ![p] = Waits(m, "wait", Top(p).pid, r.status)]
      BY <1>3, <2>3, <2>4, <2>5, ZenonT(30)
    <2>6. CASE proc' = [proc EXCEPT ![p] = Loop([m EXCEPT !.status = concstatus(Top(p).pst, r.status)])]
      <3> DEFINE n == [m EXCEPT !.status = concstatus(Top(p).pst, r.status)]
                 s == Loop(n)
      <3>1. Same(m, n) /\ n.q = m.q
        BY <2>3, Zenon DEF Same, IsProc, IsFcn, ProcFields
      <3> HIDE DEF n
      <3>2. Same(n, s) /\ s.q = n.q /\ s.mode \in Running
        BY <3>1, LoopIs, Zenon DEF Same
      <3> HIDE DEF s
      <3>3. Kindred(r, s) /\ s.base = m.base /\ s.q = m.q /\ s.mode \notin Blocked
        BY <2>3, <3>1, <3>2, Zenon DEF Same, Kindred, Running, Blocked
      <3>4. Carried(r, s)
        BY <2>4, <3>3, SameCarried, CarriedTrans, Zenon
      <3> QED BY <1>0, <2>6, <3>3, <3>4, GoOp, ZenonT(30) DEF s, n
    <2> QED BY <2>2, <2>5, <2>6, Zenon
  <1> QED BY <1>4, <1>5, ZenonT(30)

\* What Waitfor makes of the record of a shell that waits, when its child z has ended.
LEMMA CollectedIs ==
    ASSUME Ordered, NEW P, NEW p, NEW r, IsProc(r), ShellOK(P, p, r), NEW z \in Nat, z > 0, NEW c,
           r.mode \in Blocked, NEW s, s = Collected(r, z, c)
    PROVE  /\ Same(r, s) /\ Carried(r, s)
           /\ \/ s.mode \notin Blocked
              \/ s.mode = r.mode /\ s.wpid = r.wpid /\ s.wpid # z /\ Len(s.q) = Len(r.q)
           /\ PipesOK(r) => \A i \in Awaiting(s) : s.q[i].pid # z
  <1> DEFINE W == {i \in 1..Len(r.q) - 1 : r.q[i].pid = z}
             k == Max(W)
  <1>1. r.base \in Nat /\ Len(r.q) \in Nat
    BY SeqIs, Zenon DEF IsProc
  <1>2. CASE z = r.wpid
    <2> DEFINE m == [r EXCEPT !.status = c]
    <2>1. Same(r, m) /\ m.q = r.q
      BY Zenon DEF Same, IsProc, IsFcn, ProcFields
    <2>2. s = Waited(m)
      BY <1>2, Zenon DEF Collected
    <2> HIDE DEF m
    <2>3. Same(m, Waited(m)) /\ Waited(m).q = m.q /\ Waited(m).mode \in Running
      BY <2>1, WaitedIs, Zenon DEF Same
    <2>4. Same(r, s) /\ s.q = r.q /\ s.mode \notin Blocked
      BY <2>1, <2>2, <2>3, Zenon DEF Same, Running, Blocked
    <2>5. Carried(r, s) /\ Awaiting(s) = Awaiting(r)
      BY <2>4, SameCarried, Zenon DEF Same
    <2>6. PipesOK(r) => \A i \in Awaiting(s) : s.q[i].pid # z
      BY <1>2, <2>4, <2>5, Zenon DEF PipesOK
    <2> QED BY <2>4, <2>5, <2>6, Zenon
  <1>3. ASSUME PipesOK(r), NEW i \in Awaiting(r), r.q[i].pid = z  PROVE i \in W
    <2>1. i \in r.base + 1 .. Len(r.q) /\ i # Len(r.q)
      BY <1>3, Zenon DEF PipesOK, Awaiting
    <2> QED BY <1>1, <1>3, <2>1, SMTT(30)
  <1>4. CASE z # r.wpid /\ W = {}
    <2>1. s = r
      BY <1>4, Zenon DEF Collected
    <2>2. Same(r, s) /\ Carried(r, s)
      BY <2>1, Zenon DEF Same, Carried
    <2> QED BY <1>3, <1>4, <2>1, <2>2, Zenon
  <1>5. CASE z # r.wpid /\ W # {}
    <2>1. k \in W /\ \A y \in W : y <= k
      <3>1. W \in SUBSET (0 .. Len(r.q))
        BY <1>1, SMTT(30)
      <3> HIDE DEF W
      <3> QED BY <1>1, <1>5, <3>1, MaxIs, ZenonT(30)
    <2>2. k \in 1 .. Len(r.q) /\ r.q[k].pid = z
      BY <1>1, <2>1
    <2>3. s = Remembered(r, k, c)
      BY <1>5, Zenon DEF Collected, Remembered
    <2> HIDE DEF k
    <2>4. \A i \in 1 .. Len(r.q) : IsFcn(r.q[i], ThreadFields)
      BY Zenon DEF ShellOK, ThreadOK
    <2>5. /\ Same(r, s) /\ Len(s.q) = Len(r.q) /\ s.mode = r.mode /\ s.wpid = r.wpid
          /\ \A i \in 1 .. Len(r.q) : i # k => s.q[i] = r.q[i]
          /\ s.q[k] = Remembers(r.q[k], c)
      BY <2>2, <2>3, <2>4, RememberedIs
    <2>6. s.q[k].pid = -1
      BY <2>2, <2>4, <2>5, Zenon DEF Remembers, IsFcn, ThreadFields
    <2>7. ASSUME NEW i \in Awaiting(s)  PROVE i \in Awaiting(r) /\ s.q[i] = r.q[i] /\ i # k
      <3>1. i \in r.base + 1 .. Len(r.q) /\ s.q[i].pid > 0
        BY <2>5, Zenon DEF Awaiting, Same
      <3>2. i # k
        BY <2>6, <3>1
      <3>3. i \in 1 .. Len(r.q)
        BY <1>1, <3>1, SMTT(30)
      <3> QED BY <2>5, <3>1, <3>2, <3>3, Zenon DEF Awaiting
    <2>8. Carried(r, s)
      BY <2>5, <2>7, Zenon DEF Carried, Same
    <2>9. ASSUME PipesOK(r), NEW i \in Awaiting(s)  PROVE s.q[i].pid # z
      <3>1. SUFFICES ASSUME r.q[i].pid = z  PROVE FALSE
        BY <2>7, Zenon
      <3>2. i \in Awaiting(r) /\ i # k /\ i \in W
        BY <1>3, <2>7, <2>9, <3>1, Zenon
      <3>3. i <= k /\ i \in r.base + 1 .. Len(r.q)
        BY <2>1, <3>2, Zenon DEF Awaiting
      <3>4. k \in Awaiting(r)
        BY <1>1, <2>2, <3>3, SMTT(30) DEF Awaiting
      <3> QED BY <2>2, <2>9, <3>1, <3>2, <3>4, Zenon DEF PipesOK
    <2> QED BY <1>5, <2>5, <2>8, <2>9, Zenon
  <1> QED BY <1>2, <1>4, <1>5, ZenonT(30)

\* Waitfor: a child is collected.
LEMMA CollectOp ==
    ASSUME Ordered, FrameInv, Family(prog, proc), NEW p \in Pids, NEW z \in Pids, Waitfor(p, z)
    PROVE  Keep(prog, proc, proc')
  <1> DEFINE r == proc[p]
             c == <<proc[z].code>>
             s == Collected(r, z, c)
  <1>1. /\ r.st = "rc" /\ r.mode \in Blocked /\ z # p /\ proc[z].par = p
        /\ proc' = [proc EXCEPT ![z] = NoProc, ![p] = Collected(@, z, c)]
    BY Zenon DEF Waitfor, WaitModes, Blocked
  <1>2. /\ \A x \in Pids : x # p /\ x # z => proc'[x] = proc[x]
        /\ proc'[z] = NoProc /\ proc'[p] = s
    BY <1>1, Zenon DEF FrameInv, IsFcn
  <1>3. IsProc(r) /\ ShellOK(prog, p, r) /\ z \in Nat /\ z > 0
    BY <1>1, TopIs, PidsAssumption, SMTT(30)
  <1> HIDE DEF c
  <1>4. /\ Same(r, s) /\ Carried(r, s)
        /\ \/ s.mode \notin Blocked
           \/ s.mode = r.mode /\ s.wpid = r.wpid /\ s.wpid # z /\ Len(s.q) = Len(r.q)
        /\ PipesOK(r) => \A i \in Awaiting(s) : s.q[i].pid # z
    BY <1>1, <1>3, CollectedIs, SMTT(30)
  <1> HIDE DEF s
  <1>5. Joined(proc, p) => \A i \in Awaiting(s) : s.q[i].pid # z
    BY <1>4, Zenon DEF Joined
  <1>6. /\ Same(proc[p], proc'[p]) /\ Carried(proc[p], proc'[p])
        /\ \/ proc'[p].mode \notin Blocked
           \/ /\ proc'[p].mode = proc[p].mode /\ proc'[p].wpid = proc[p].wpid
              /\ proc'[p].wpid # z /\ Len(proc'[p].q) = Len(proc[p].q)
        /\ Joined(proc, p) => \A i \in Awaiting(proc'[p]) : proc'[p].q[i].pid # z
    BY <1>2, <1>4, <1>5, Zenon
  <1>7. /\ proc[p].st = "rc" /\ z # p /\ proc[z].par = p /\ proc'[z] = NoProc
        /\ \A x \in Pids : x # p /\ x # z => proc'[x] = proc[x]
    BY <1>1, <1>2, ZenonT(30)
  <1> QED BY <1>6, <1>7, ReapKeep, Zenon

\* What a new process begins with.
Begins(d) ==
    /\ IsProc(d) /\ d.st \in {"rc", "cmd"} /\ d.mode \in Running
    /\ d.st = "cmd" => d.q = <<>> /\ d.mode = "run"
    /\ Awaiting(d) = {}

\* fork, with the record d of the child and s of the parent.
LEMMA ForkOp ==
    ASSUME Ordered, FrameInv, Family(prog, proc), NEW p \in Pids, proc[p].st = "rc", CanFork, NEW d, NEW s,
           Fork(p, d, s), Begins(d), s.st = "rc", s.par = proc[p].par,
           Leaves(proc[p], s, NewPid) \/ Pipes(prog, proc[p], s, NewPid)
    PROVE  Keep(prog, proc, proc')
  <1> DEFINE z == NewPid
             e == [d EXCEPT !.par = p]
  <1>1. z \in Pids /\ proc[z].st = "free"
    BY NewPidIs, Zenon
  <1>2. proc' = [proc EXCEPT ![p] = s, ![z] = e]
    BY Zenon DEF Fork
  <1>3. /\ e.st = d.st /\ e.q = d.q /\ e.mode = d.mode /\ e.base = d.base /\ e.par = p
    BY Zenon DEF Begins, IsProc, IsFcn, ProcFields
  <1>4. Awaiting(e) = {}
    BY <1>3, Zenon DEF Awaiting, Begins
  <1> HIDE DEF e
  <1>5. z # p
    BY <1>1, Zenon
  <1>6. /\ \A x \in Pids : x # p /\ x # z => proc'[x] = proc[x]
        /\ proc'[z] = e /\ proc'[p] = s
    BY <1>1, <1>2, <1>5, Zenon DEF FrameInv, IsFcn
  <1>7. Leaves(proc[p], s, z) \/ Pipes(prog, proc[p], s, z)
    BY Zenon 
  <1> HIDE DEF z
  <1>8. /\ proc'[z].st # "free" /\ proc'[z].par = p /\ Awaiting(proc'[z]) = {}
        /\ proc'[z].mode = "run" \/ (proc'[z].st = "rc" /\ proc'[z].mode = "trap")
        /\ proc'[z].st # "rc" => proc'[z].q = <<>>
    BY <1>3, <1>4, <1>6, Zenon DEF Begins, Running
  <1>9. /\ proc'[p].st = "rc" /\ proc'[p].par = proc[p].par
        /\ Leaves(proc[p], proc'[p], z) \/ Pipes(prog, proc[p], proc'[p], z)
    BY <1>6, <1>7, Zenon
  <1> QED BY <1>1, <1>6, <1>8, <1>9, ForkKeep, ZenonT(30)

\* The three kinds of new processes.
LEMMA ChildrenBegin ==
    ASSUME FrameInv, NEW p \in Pids, proc[p].st = "rc", NEW j, NEW c
    PROVE  /\ Begins(Exec(proc[p], c)) /\ Begins(Alone(p, j)) /\ Begins([Alone(p, j) EXCEPT !.to = 0])
           /\ Begins(Loop(Kept(proc[p], Child(p, j), p)))
  <1> DEFINE r == proc[p]
             u == Child(p, j)
  <1>1. IsProc(r) /\ IsSeq(r.q) /\ Len(r.q) \in Nat
    BY TopIs, Zenon
  <1>2. u.pid = 0
    BY Zenon DEF Child, start
  <1> HIDE DEF u
  <1>3. Begins(Exec(r, c))
    <2> DEFINE e == Exec(r, c)
    <2>1. IsProc(e) /\ e.st = "cmd"
      BY ExecIs, Zenon
    <2>2. e.q = <<>> /\ e.mode = "run" /\ e.base = 0
      BY Zenon DEF Exec, NoProc
    <2> HIDE DEF e
    <2>3. Awaiting(e) = {}
      BY <2>2 DEF Awaiting
    <2>4. Begins(e)
      BY <2>1, <2>2, <2>3, Zenon DEF Begins, Running
    <2> QED BY <2>4, Zenon DEF e
  <1>4. Begins(Alone(p, j)) /\ Begins([Alone(p, j) EXCEPT !.to = 0])
    <2> DEFINE m == [r EXCEPT !.q = <<u>>, !.base = 0]
               a == Loop(m)
               b == [a EXCEPT !.to = 0]
    <2>1. IsSeq(<<u>>) /\ Len(<<u>>) = 1 /\ <<u>>[1] = u
      <3>1. <<u>> \in Seq({u})
        OBVIOUS
      <3> QED BY <3>1, Zenon DEF IsSeq
    <2>2. IsProc(m) /\ m.st = r.st /\ m.q = <<u>> /\ m.base = 0
      <3>1. PICK q : q = <<u>>
        BY Zenon
      <3>2. PICK n \in Nat : n = 0
        OBVIOUS
      <3>3. LET s == [r EXCEPT !.q = q, !.base = n]
            IN  IsProc(s) /\ s.st = r.st /\ s.q = q /\ s.base = n
        BY <1>1, <2>1, <3>1, ZenonT(30) DEF IsProc, IsFcn, ProcFields
      <3> QED BY <3>1, <3>2, <3>3, Zenon
    <2> HIDE DEF m
    <2>3. Same(m, a) /\ a.q = m.q /\ a.mode \in Running
      BY <2>2, LoopIs, Zenon
    <2> HIDE DEF a
    <2>4. Same(a, b) /\ b.q = a.q /\ b.mode = a.mode
      BY <2>3, Zenon DEF Same, IsProc, IsFcn, ProcFields
    <2> HIDE DEF b
    <2>5. ASSUME NEW s \in {a, b}  PROVE Begins(s)
      <3>1. IsProc(s) /\ s.q = <<u>> /\ s.base = 0 /\ s.st = "rc" /\ s.mode \in Running
        BY <2>2, <2>3, <2>4, Zenon DEF Same
      <3>2. Awaiting(s) = {}
        BY <1>2, <2>1, <3>1, SMTT(30) DEF Awaiting
      <3> QED BY <3>1, <3>2, Zenon DEF Begins
    <2> QED BY <2>5, Zenon DEF Alone, a, b, m, u
  <1>5. Begins(Loop(Kept(r, Child(p, j), p)))
    <2> DEFINE q == Append(r.q, u)
               n == Len(r.q)
               m == Kept(r, u, p)
               s == Loop(m)
    <2>1. IsSeq(q) /\ Len(q) = n + 1 /\ q[n + 1] = u
      BY <1>1, AppendIs, Zenon
    <2>2. IsProc(m) /\ m.st = "rc" /\ m.q = q /\ m.base = n
      BY <1>1, <2>1, ZenonT(30) DEF Kept, Push, IsProc, IsFcn, ProcFields
    <2> HIDE DEF m, q
    <2>3. Same(m, s) /\ s.q = m.q /\ s.mode \in Running
      BY <2>2, LoopIs, Zenon
    <2> HIDE DEF s
    <2>4. IsProc(s) /\ s.q = q /\ s.base = n /\ s.st = "rc" /\ s.mode \in Running
      BY <2>2, <2>3, Zenon DEF Same
    <2>5. Awaiting(s) = {}
      BY <1>1, <1>2, <2>1, <2>4 DEF Awaiting
    <2>6. Begins(s)
      BY <2>4, <2>5, Zenon DEF Begins
    <2> QED BY <2>6, Zenon DEF s, m, u
  <1> QED BY <1>3, <1>4, <1>5, Zenon

\* A process that forks waits for the child or goes on.
LEMMA LeavesIs ==
    ASSUME NEW r, r.st = "rc", NEW m, Same(r, m), Carried(r, m), Len(m.q) \notin Awaiting(m), NEW z,
           NEW md \in Blocked
    PROVE  /\ LET s == Waits(m, md, z, <<>>)
              IN  s.st = "rc" /\ s.par = r.par /\ Leaves(r, s, z)
           /\ LET s == Loop(m)
              IN  s.st = "rc" /\ s.par = r.par /\ Leaves(r, s, z)
           /\ LET s == Loop([m EXCEPT !.apid = z])
              IN  s.st = "rc" /\ s.par = r.par /\ Leaves(r, s, z)
  <1> DEFINE w == Waits(m, md, z, <<>>)
             a == [m EXCEPT !.apid = z]
             l == Loop(a)
             g == Loop(m)
  <1>1. IsProc(m)
    BY Zenon DEF Same
  <1>2. Same(m, w) /\ w.q = m.q /\ w.wpid = z
    BY <1>1, WaitsIs DEF Blocked
  <1> HIDE DEF w
  <1>3. Same(m, g) /\ g.q = m.q /\ g.mode \in Running
    BY <1>1, LoopIs, Zenon
  <1> HIDE DEF g
  <1>4. IsProc(a) /\ a.st = m.st /\ a.par = m.par /\ a.base = m.base /\ a.q = m.q /\ a.apid = z
    BY <1>1, Zenon DEF IsProc, IsFcn, ProcFields
  <1> HIDE DEF a
  <1>5. Same(a, l) /\ l.q = a.q /\ l.mode \in Running
    BY <1>4, LoopIs, Zenon
  <1> HIDE DEF l
  <1>6. ASSUME NEW s, s.st = m.st, s.par = m.par, s.base = m.base, s.q = m.q,
               s.apid = m.apid \/ s.apid = z, s.wpid = z \/ s.mode \in Running
        PROVE  s.st = "rc" /\ s.par = r.par /\ Leaves(r, s, z)
    <2>1. Carried(r, s) /\ Awaiting(s) = Awaiting(m)
      BY <1>6, SameCarried, CarriedTrans, Zenon
    <2>2. s.st = "rc" /\ s.par = r.par /\ (s.apid = r.apid \/ s.apid = z)
      BY <1>6, Zenon DEF Same
    <2> QED BY <1>6, <2>1, <2>2, Zenon DEF Leaves, Blocked, Running
  <1>7. w.st = "rc" /\ w.par = r.par /\ Leaves(r, w, z)
    BY <1>2, <1>6, Zenon DEF Same
  <1>8. g.st = "rc" /\ g.par = r.par /\ Leaves(r, g, z)
    BY <1>3, <1>6, Zenon DEF Same
  <1>9. l.st = "rc" /\ l.par = r.par /\ Leaves(r, l, z)
    BY <1>4, <1>5, <1>6, Zenon DEF Same
  <1> QED BY <1>7, <1>8, <1>9, Zenon DEF w, l, g, a

\* Xpipe: the thread of the pipeline will wait for the left side, and the right side runs.
LEMMA PipesIs ==
    ASSUME NEW P, NEW r, IsProc(r), r.st = "rc", r.q # <<>>, Place(P, r), NEW u, NEW z,
           u.pid = z, AtPipewait(P, u), NEW t, t.pid = 0,
           NEW s, Same(r, s), s.q = Append([r.q EXCEPT ![Len(r.q)] = u], t), s.mode \notin Blocked
    PROVE  Pipes(P, r, s, z)
  <1> DEFINE n == Len(r.q)
             q == Replaced(r.q, n, u)
  <1>1. IsSeq(r.q) /\ n \in 1 .. Len(r.q) /\ n \in Nat /\ r.base \in Nat
    <2>1. IsSeq(r.q) /\ r.base \in Nat
      BY Zenon DEF IsProc
    <2>2. n \in Nat /\ n # 0
      BY <2>1, SeqIs, Zenon
    <2> QED BY <2>1, <2>2, SMTT(30)
  <1>2. IsSeq(q) /\ Len(q) = n /\ q[n] = u /\ \A i \in 1 .. n : i # n => q[i] = r.q[i]
    BY <1>1, ReplacedIs, SMTT(30)
  <1>3. s.q = Append(q, t) /\ s.base = r.base /\ s.apid = r.apid
    BY Zenon DEF Replaced, Same
  <1> HIDE DEF q
  <1>4. /\ Len(s.q) = n + 1 /\ s.q[n + 1] = t
        /\ \A i \in 1 .. n : s.q[i] = q[i]
    BY <1>2, <1>3, AppendIs, SMTT(30)
  <1>5. n = Len(r.q)
    OBVIOUS
  <1> HIDE DEF n
  <1>6. ASSUME NEW i \in Awaiting(s)
        PROVE  /\ AtPipewait(P, s.q[i])
               /\ \/ i \in Awaiting(r) /\ s.q[i].pid = r.q[i].pid
                  \/ i = Len(r.q) /\ s.q[i].pid = z
    <2>1. i \in r.base + 1 .. n + 1 /\ s.q[i].pid > 0
      BY <1>3, <1>4, ZenonT(30) DEF Awaiting
    <2>2. i # n + 1
      BY <1>4, <2>1
    <2>3. i \in r.base + 1 .. n /\ i \in 1 .. n
      BY <1>1, <2>1, <2>2, SMTT(30)
    <2>4. CASE i = n
      <3>1. s.q[i] = u
        BY <1>2, <1>4, <2>3, <2>4, Zenon
      <3> QED BY <1>5, <2>4, <3>1, Zenon
    <2>5. CASE i # n
      <3>1. s.q[i] = r.q[i]
        BY <1>2, <1>4, <2>3, <2>5, Zenon
      <3>2. i \in Awaiting(r)
        BY <1>5, <2>1, <2>3, <3>1, Zenon DEF Awaiting
      <3>3. AtPipewait(P, r.q[i])
        BY <3>2, Zenon DEF Place, AtPipewait
      <3> QED BY <3>1, <3>2, <3>3, ZenonT(30)
    <2> QED BY <2>4, <2>5, Zenon
  <1> QED BY <1>3, <1>6, ZenonT(30) DEF Pipes

\* Every fork.
LEMMA ForkedOps ==
    ASSUME Ordered, FrameInv, Family(prog, proc), NEW p \in Pids,
           \/ SimpleFork(p) \/ Xasync(p) \/ Xsubshell(p) \/ Xpipefd(p) \/ Xpipe(p) \/ Xbackq(p)
    PROVE  Keep(prog, proc, proc')
  <1> DEFINE r == proc[p]
             z == NewPid
  <1>0. r.st = "rc" /\ CanFork /\ Here(p).f # "Xpipewait"
    BY Zenon DEF SimpleFork, Xasync, Xsubshell, Xpipefd, Xpipe, Xbackq, External, Simple, At
  <1>1. ThreadOK(prog, Top(p)) /\ IsProc(r) /\ r.q # <<>> /\ Place(prog, r)
    BY <1>0, TopIs, Zenon DEF ShellOK, Family, Settled
  <1>2. ASSUME NEW d, Begins(d), NEW s, Fork(p, d, s), s.st = "rc", s.par = r.par,
               Leaves(r, s, z) \/ Pipes(prog, r, s, z)
        PROVE  Keep(prog, proc, proc')
    BY <1>0, <1>2, ForkOp, Zenon
  <1>3. ASSUME NEW u, u.pid = Top(p).pid, NEW m, m = SetTop(r, u), NEW md \in Blocked
        PROVE  /\ LET s == Waits(m, md, z, <<>>)
                  IN  s.st = "rc" /\ s.par = r.par /\ Leaves(r, s, z)
               /\ LET s == Loop(m)
                  IN  s.st = "rc" /\ s.par = r.par /\ Leaves(r, s, z)
               /\ LET s == Loop([m EXCEPT !.apid = z])
                  IN  s.st = "rc" /\ s.par = r.par /\ Leaves(r, s, z)
    <2>1. LET s == SetTop(r, u)
          IN  Same(r, s) /\ Carried(r, s) /\ Len(s.q) \notin Awaiting(s)
      BY <1>0, <1>3, TopOp, ZenonT(30)
    <2>2. Same(r, m) /\ Carried(r, m) /\ Len(m.q) \notin Awaiting(m)
      BY <1>3, <2>1, Zenon
    <2> HIDE DEF r, z
    <2>3. r.st = "rc"
      BY <1>0, Zenon
    <2> QED BY <2>2, <2>3, LeavesIs, ZenonT(30)
  <1>4. \A b : /\ Popped(Top(p), b).pid = Top(p).pid /\ Jumped(Top(p), b).pid = Top(p).pid
              /\ Opened(Top(p), b).pid = Top(p).pid
    BY <1>1, Zenon DEF ThreadOK, IsFcn, ThreadFields, Popped, Jumped, Opened
  <1>5. "simple" \in Blocked /\ "wait" \in Blocked /\ "read" \in Blocked
    BY Zenon DEF Blocked
  <1>6. CASE SimpleFork(p)
    <2> DEFINE u == Popped(Top(p), Next1(p))
               m == SetTop(r, u)
               s == Waits(m, "simple", z, <<>>)
               d == Exec(r, Here(p).c)
    <2>1. Fork(p, d, s)
      BY <1>6, Zenon DEF SimpleFork, Popped
    <2>2. s.st = "rc" /\ s.par = r.par /\ Leaves(r, s, z)
      BY <1>3, <1>4, <1>5, Zenon
    <2>3. Begins(d)
      BY <1>0, ChildrenBegin, Zenon
    <2> HIDE DEF s, d
    <2> QED BY <1>2, <2>1, <2>2, <2>3, Zenon
  <1>7. CASE Xasync(p) \/ Xsubshell(p)
    <2> DEFINE u == Jumped(Top(p), Here(p).a)
               m == SetTop(r, u)
               s == Loop([m EXCEPT !.apid = z])
               w == Waits(m, "wait", z, <<>>)
               d == Alone(p, 0)
    <2>1. Fork(p, d, s) \/ Fork(p, d, w)
      BY <1>7, Zenon DEF Xasync, Xsubshell, Behind, Jumped
    <2>2. /\ s.st = "rc" /\ s.par = r.par /\ Leaves(r, s, z)
          /\ w.st = "rc" /\ w.par = r.par /\ Leaves(r, w, z)
      BY <1>3, <1>4, <1>5, Zenon
    <2>3. Begins(d)
      BY <1>0, ChildrenBegin, ZenonT(30)
    <2> HIDE DEF s, w, d
    <2> QED BY <1>2, <2>1, <2>2, <2>3, ZenonT(30)
  <1>8. CASE Xpipefd(p)
    <2> DEFINE u == Opened(Top(p), Here(p).a)
               m == SetTop(r, u)
               s == Loop(m)
               d == [Alone(p, 1) EXCEPT !.to = 0]
    <2>1. Fork(p, d, s)
      BY <1>8, Zenon DEF Xpipefd, Opened
    <2>2. s.st = "rc" /\ s.par = r.par /\ Leaves(r, s, z)
      BY <1>3, <1>4, <1>5, Zenon
    <2>3. Begins(d)
      BY <1>0, ChildrenBegin, ZenonT(30)
    <2> HIDE DEF s, d
    <2> QED BY <1>2, <2>1, <2>2, <2>3, Zenon
  <1>9. CASE Xbackq(p)
    <2> DEFINE u == Popped(Top(p), Here(p).a)
               m == SetTop(r, u)
               s == Waits(m, "read", z, <<>>)
               d == Loop(Kept(r, Child(p, 1), p))
    <2>1. Fork(p, d, s)
      BY <1>9, Zenon DEF Xbackq, Popped, Kept
    <2>2. s.st = "rc" /\ s.par = r.par /\ Leaves(r, s, z)
      BY <1>3, <1>4, <1>5, Zenon
    <2>3. Begins(d)
      BY <1>0, ChildrenBegin, Zenon
    <2> HIDE DEF s, d
    <2> QED BY <1>2, <2>1, <2>2, <2>3, Zenon
  <1>10. CASE Xpipe(p)
    <2> DEFINE b == Here(p).b
               u == Piped(Top(p), b, z)
               t == Started(Top(p).code, Here(p).a, Top(p).local, 1)
               m == SetTop(r, u)
               x == Push(m, t)
               s == Loop(x)
               d == [Alone(p, 1) EXCEPT !.to = 0]
    <2>1. Fork(p, d, s) /\ Here(p).f = "Xpipe"
      BY <1>10, ZenonT(30) DEF Xpipe, At, Piped, Started
    <2>2. Begins(d)
      BY <1>0, ChildrenBegin, Zenon
    <2>3. CodeIn(prog, Top(p).code)[b].f = "Xpipewait"
      <3>1. /\ Here(p) = CodeIn(prog, Top(p).code)[Top(p).pc]
            /\ Agrees(CodeIn(prog, Top(p).code), ShapeIn(prog, Top(p).code), Top(p).pc)
        BY <1>0, TopIs, Zenon
      <3> QED BY <2>1, <3>1, Zenon DEF Agrees
    <2>4. u.pid = z /\ u.code = Top(p).code /\ u.pc = b
      BY <1>1, Zenon DEF ThreadOK, IsFcn, ThreadFields, Piped
    <2>5. AtPipewait(prog, u)
      BY <2>3, <2>4, Zenon DEF AtPipewait
    <2>6. t.pid = 0
      BY Zenon DEF Started, start
    <2> HIDE DEF d, u, t
    <2>7. Same(r, m) /\ m.q = [r.q EXCEPT ![Len(r.q)] = u]
      BY <1>1, SetTopIs, Zenon
    <2> HIDE DEF m
    <2>8. Same(m, x) /\ x.q = Append(m.q, t)
      <3>1. IsProc(m)
        BY <2>7, Zenon DEF Same
      <3> QED BY <3>1, PushIs, Zenon
    <2> HIDE DEF x
    <2>9. Same(x, s) /\ s.q = x.q /\ s.mode \in Running
      BY <2>8, LoopIs, Zenon DEF Same
    <2> HIDE DEF s
    <2>10. /\ Same(r, s) /\ s.q = Append([r.q EXCEPT ![Len(r.q)] = u], t) /\ s.mode \notin Blocked
           /\ s.st = "rc" /\ s.par = r.par
      BY <1>0, <2>7, <2>8, <2>9, ZenonT(30) DEF Same, Running, Blocked
    <2>11. Pipes(prog, r, s, z)
      <3> HIDE DEF r, z
      <3> QED BY <1>0, <1>1, <2>4, <2>5, <2>6, <2>10, PipesIs, ZenonT(30)
    <2> QED BY <1>2, <2>1, <2>2, <2>10, <2>11, ZenonT(30)
  <1> QED BY <1>6, <1>7, <1>8, <1>9, <1>10, ZenonT(30)

-----------------------------------------------------------------------------
(***************************************************************************)
(* The invariants hold.                                                    *)
(***************************************************************************)
\* main() has no child and no pipeline.
LEMMA FamilyInit == Init => Family(prog, proc) /\ Pipelines(proc)
  <1> SUFFICES ASSUME Init PROVE Family(prog, proc) /\ Pipelines(proc)
    OBVIOUS
  <1> DEFINE t == [start(BOOT, 1, 0) EXCEPT !.iflag = prog.iflag]
             u == [start(DOT, 1, 0) EXCEPT !.argv = 2, !.redir = 1, !.iflag = prog.iflag]
             q == <<t, u>>
             r == [NoProc EXCEPT !.st = "rc", !.status = <<0>>, !.q = q]
  <1>1. proc = [p \in Pids |-> IF p # Main THEN NoProc ELSE r]
    BY Zenon DEF Init
  <1>2. t.pid = 0 /\ u.pid = 0
    BY Zenon DEF start
  <1> HIDE DEF t, u
  <1>3. Len(q) = 2 /\ q[1].pid = 0 /\ q[2].pid = 0
    BY <1>2, Zenon
  <1> HIDE DEF q
  <1>4. r.st = "rc" /\ r.mode = "run" /\ r.base = 0 /\ r.q = q
    BY Zenon DEF NoProc
  <1>5. NoProc.q = <<>> /\ NoProc.mode = "run" /\ NoProc.base = 0
    BY Zenon DEF NoProc
  <1> HIDE DEF r
  <1>6. ASSUME NEW p \in Pids  PROVE Settled(prog, proc, p) /\ Joined(proc, p)
    <2>1. Awaiting(proc[p]) = {} /\ proc[p].mode = "run" /\ (proc[p].st # "rc" => proc[p].q = <<>>)
      <3>1. CASE p = Main
        <4>1. proc[p] = r
          BY <1>1, <3>1, Zenon
        <4>2. \A i \in r.base + 1 .. Len(r.q) : r.q[i].pid = 0
          <5>1. ASSUME NEW i \in r.base + 1 .. Len(r.q)  PROVE i = 1 \/ i = 2
            <6>1. r.base + 1 = 1 /\ Len(r.q) = 2
              BY <1>3, <1>4
            <6>2. i \in 1 .. 2
              BY <6>1, Zenon
            <6> QED BY <6>2
          <5>2. r.q[1].pid = 0 /\ r.q[2].pid = 0
            BY <1>3, <1>4, Zenon
          <5> QED BY <5>1, <5>2, Zenon
        <4>3. Awaiting(r) = {}
          BY <4>2 DEF Awaiting
        <4> QED BY <1>4, <4>1, <4>3, Zenon
      <3>2. CASE p # Main
        <4>1. proc[p] = NoProc
          BY <1>1, <3>2, Zenon
        <4>2. Awaiting(NoProc) = {}
          BY <1>5 DEF Awaiting
        <4> QED BY <1>5, <4>1, <4>2, Zenon
      <3> QED BY <3>1, <3>2, Zenon
    <2> QED BY <2>1, Zenon DEF Settled, Joined, Place, PipesOK, Blocked
  <1> QED BY <1>6, Zenon DEF Family, Pipelines

\* Every step keeps them.
LEMMA FamilyNext ==
    ASSUME Ordered, FrameInv, Family(prog, proc), [Next]_vars
    PROVE  /\ Family(prog, proc)'
           /\ Pipelines(proc) /\ Fresh(proc, proc') => Pipelines(proc)'
  <1>1. CASE Next
    <2>1. prog' = prog
      BY <1>1, Zenon DEF Next
    <2>2. PICK p \in Pids : \/ Operation(p) \/ CommandEnds(p) \/ SyntaxError(p) \/ Xerror(p)
                            \/ \E i \in Sigs : Note(p, i)
      BY <1>1, Zenon DEF Next
    <2>3. Keep(prog, proc, proc')
      <3>1. CASE Operation(p)
        BY <3>1, GotoOps, LastOps, EnterOps, ReadOps, TrappedOp, BlockOps, CollectOp, ForkedOps,
           ZenonT(30) DEF Operation
      <3>2. CASE CommandEnds(p) \/ Xerror(p)
        BY <3>2, LastOps, Zenon
      <3>3. CASE SyntaxError(p)
        BY <3>3, ReadOps, Zenon
      <3>4. CASE \E i \in Sigs : Note(p, i)
        BY <3>4, NotedOp, Zenon
      <3> QED BY <2>2, <3>1, <3>2, <3>3, <3>4, ZenonT(30)
    <2> QED BY <2>1, <2>3, Zenon DEF Keep
  <1>2. CASE UNCHANGED vars
    <2>1. prog' = prog /\ proc' = proc
      BY <1>2, Zenon DEF vars
    <2> QED BY <2>1, Zenon
  <1> QED BY <1>1, <1>2, Zenon
=============================================================================
