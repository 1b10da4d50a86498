--------------------------- MODULE RcFrameProofs ----------------------------
(***************************************************************************)
(* Proofs that the interpreter of rc keeps to what the compiler promises   *)
(* (RcFrames), for every session, every number of processes and any notes  *)
(* and errors: no operation pops what its thread does not hold, and no     *)
(* child comes to the code of its parent's command loop.  With that, the   *)
(* processes find the children they wait for (RcFamilyProofs).             *)
(***************************************************************************)
EXTENDS RcFamilyProofs

\* Time for a leaf: in a module of this size tlapm itself is busy for seconds at a time.
USE SMTT(20), ZenonT(20)

-----------------------------------------------------------------------------
(***************************************************************************)
(* Steps.                                                                  *)
(***************************************************************************)
\* What a step does to the session and the budget of errors.
Budget == prog' = prog /\ errs' \in Nat /\ errs' <= errs

\* One process changes.
LEMMA OneStep ==
    ASSUME FrameInv, NEW p \in Pids, NEW s, ProcOK(prog, p, s), Budget,
           proc' = [proc EXCEPT ![p] = s]
    PROVE  FrameInv'
  <1>1. IsFcn(proc, Pids) /\ prog \in Progs /\ errs \in Nat /\ errs <= prog.errs
    BY Zenon DEF FrameInv
  <1>2. prog.errs \in Nat
    BY <1>1, ProgsAssumption, Zenon
  <1>3. proc' = [x \in Pids |-> IF x = p THEN s ELSE proc[x]]
    BY <1>1, Zenon DEF IsFcn
  <1>4. \A x \in Pids : ProcOK(prog, x, proc'[x])
    BY <1>3, Zenon DEF FrameInv
  <1>5. prog' \in Progs /\ errs' \in Nat /\ errs' <= prog'.errs
    BY <1>1, <1>2 DEF Budget
  <1>6. IsFcn(proc, Pids)'
    BY <1>3, Zenon DEF IsFcn
  <1> QED BY <1>4, <1>5, <1>6, Zenon DEF FrameInv, Budget

\* Two processes change.
LEMMA TwoStep ==
    ASSUME FrameInv, NEW p \in Pids, NEW s, ProcOK(prog, p, s), NEW z \in Pids, NEW c, 
           ProcOK(prog, z, c), Budget, proc' = [proc EXCEPT ![p] = s, ![z] = c]
    PROVE  FrameInv'
  <1>1. IsFcn(proc, Pids) /\ prog \in Progs /\ errs \in Nat /\ errs <= prog.errs
    BY Zenon DEF FrameInv
  <1>2. prog.errs \in Nat
    BY <1>1, ProgsAssumption, Zenon
  <1>3. proc' = [x \in Pids |-> IF x = z THEN c ELSE IF x = p THEN s ELSE proc[x]]
    BY <1>1, Zenon DEF IsFcn
  <1>4. \A x \in Pids : ProcOK(prog, x, proc'[x])
    BY <1>3, Zenon DEF FrameInv
  <1>5. prog' \in Progs /\ errs' \in Nat /\ errs' <= prog'.errs
    BY <1>1, <1>2 DEF Budget
  <1>6. IsFcn(proc, Pids)'
    BY <1>3, Zenon DEF IsFcn
  <1> QED BY <1>4, <1>5, <1>6, Zenon DEF FrameInv, Budget

\* A process ends.
LEMMA EndedStep ==
    ASSUME FrameInv, NEW p \in Pids, NEW c, Budget, proc' = Ended(proc, p, c)
    PROVE  FrameInv'
  <1>1. IsFcn(proc, Pids) /\ prog \in Progs /\ errs \in Nat /\ errs <= prog.errs
    BY Zenon DEF FrameInv
  <1>2. prog.errs \in Nat
    BY <1>1, ProgsAssumption, Zenon
  <1>3. \A x \in Pids : ProcOK(prog, x, NoProc)
    BY NoProcIs, Zenon DEF ProcOK
  <1>4. ASSUME NEW x \in Pids, NEW n PROVE ProcOK(prog, x, [NoProc EXCEPT !.st = "zombie", !.par = n, !.code = c])
    <2>1. IsProc([NoProc EXCEPT !.st = "zombie", !.par = n, !.code = c])
      BY NoProcIs, Zenon DEF IsProc, IsFcn, ProcFields
    <2> QED BY <2>1, NoProcIs, Zenon DEF ProcOK, IsProc, IsFcn, ProcFields
  <1>5. ASSUME NEW x \in Pids PROVE ProcOK(prog, x, [proc[x] EXCEPT !.par = 0])
    <2> DEFINE r == proc[x]
               s == [r EXCEPT !.par = 0]
    <2>1. IsProc(r) /\ (r.st = "rc" => ShellOK(prog, x, r))
      BY Zenon DEF FrameInv, ProcOK
    <2>2. IsProc(s) /\ s.st = r.st /\ s.q = r.q /\ s.fns = r.fns /\ s.base = r.base /\ s.mode = r.mode
      BY <2>1, Zenon DEF IsProc, IsFcn, ProcFields
    <2> HIDE DEF r, s
    <2>3. ShellOK(prog, x, r) => ShellOK(prog, x, s)
      BY <2>2, Zenon DEF ShellOK, ChildOK
    <2> QED BY <2>1, <2>2, <2>3, Zenon DEF ProcOK, r, s
  <1>6. \A x \in Pids : ProcOK(prog, x, proc'[x])
    <2> SUFFICES ASSUME NEW x \in Pids PROVE ProcOK(prog, x, proc'[x])
      OBVIOUS
    <2>1. proc'[x] \in {NoProc, [NoProc EXCEPT !.st = "zombie", !.par = proc[p].par, !.code = c],
                        [proc[x] EXCEPT !.par = 0], proc[x]}
      BY Zenon DEF Ended
    <2>2. ProcOK(prog, x, NoProc) /\ ProcOK(prog, x, proc[x])
      BY <1>3, Zenon DEF FrameInv
    <2>3. ProcOK(prog, x, [NoProc EXCEPT !.st = "zombie", !.par = proc[p].par, !.code = c])
      BY <1>4, Zenon
    <2>4. ProcOK(prog, x, [proc[x] EXCEPT !.par = 0])
      BY <1>5, Zenon
    <2> QED BY <2>1, <2>2, <2>3, <2>4, Zenon
  <1>7. prog' \in Progs /\ errs' \in Nat /\ errs' <= prog'.errs
    BY <1>1, <1>2 DEF Budget
  <1>8. IsFcn(proc, Pids)'
    BY Zenon DEF IsFcn, Ended
  <1> QED BY <1>6, <1>7, <1>8, Zenon DEF FrameInv, Budget

\* A record with the threads of process p, and functions that are right.
Like(p, r) ==
    /\ IsProc(r) /\ r.st = "rc" /\ r.base = proc[p].base /\ r.q = proc[p].q
    /\ \A f \in FnNames : r.fns[f] # NoFn => FnOK(prog, r.fns[f])

\* A shell is like itself.
LEMMA SelfLike ==
    ASSUME FrameInv, NEW p \in Pids, proc[p].st = "rc"
    PROVE  Like(p, proc[p])
  BY TopIs, Zenon DEF Like, ShellOK

\* Other fields make no difference.
LEMMA FieldsLike ==
    ASSUME FrameInv, NEW p \in Pids, proc[p].st = "rc", NEW v
    PROVE  /\ Like(p, [proc[p] EXCEPT !.status = v]) /\ Like(p, [proc[p] EXCEPT !.ifnot = v])
           /\ Like(p, [proc[p] EXCEPT !.been = v])
  <1> DEFINE r == proc[p]
  <1>1. Like(p, r)
    BY SelfLike, Zenon
  <1>2. IsProc(r)
    BY <1>1, Zenon DEF Like
  <1>3. /\ Same(r, [r EXCEPT !.status = v]) /\ [r EXCEPT !.status = v].q = r.q
        /\ Same(r, [r EXCEPT !.ifnot = v]) /\ [r EXCEPT !.ifnot = v].q = r.q
        /\ Same(r, [r EXCEPT !.been = v]) /\ [r EXCEPT !.been = v].q = r.q
    BY <1>2, Zenon DEF Same, IsProc, IsFcn, ProcFields
  <1> QED BY <1>1, <1>3, Zenon DEF Like, Same

\* An operation that goes on in its thread.
LEMMA GotoStep ==
    ASSUME FrameInv, NEW p \in Pids, proc[p].st = "rc", NEW r, Like(p, r), prog' = prog,
           NEW b, NEW i \in Int, NEW j \in Int, NEW k \in Int,
           Leads(CodeIn(prog, Top(p).code), ShapeIn(prog, Top(p).code), Top(p).pc, b, i, j, k),
           Goto(p, r, b, i, j, k)
    PROVE  FrameInv'
  <1> DEFINE u == Moved(Top(p), b, i, j, k)
             m == SetTop(r, u)
             s == Loop(m)
  <1>1. ThreadOK(prog, u) /\ Alike(prog, Top(p), u)
    BY TopIs, MovedIs, Zenon
  <1>2. proc' = [proc EXCEPT ![p] = s] /\ errs' = errs
    BY Zenon DEF Goto, Step, Moved
  <1> HIDE DEF u
  <1>3. IsProc(r) /\ r.q = proc[p].q /\ r.q # <<>> /\ r.st = "rc" /\ r.base = proc[p].base
    BY TopIs, Zenon DEF Like, ShellOK
  <1>4. Same(r, m) /\ m.q = [r.q EXCEPT ![Len(r.q)] = u]
    BY <1>3, SetTopIs, Zenon
  <1> HIDE DEF m
  <1>5. Same(m, s) /\ s.q = m.q /\ s.mode \in Running
    BY <1>4, LoopIs, Zenon DEF Same
  <1> HIDE DEF s
  <1>6. Keeps(prog, p, proc[p], s)
    BY <1>3, <1>4, <1>5, TopIs, ZenonT(30) DEF Keeps, Same, Like, Running
  <1>7. s.q = [proc[p].q EXCEPT ![Len(proc[p].q)] = u]
    BY <1>3, <1>4, <1>5, Zenon
  <1>8. ShellOK(prog, p, s)
    BY <1>1, <1>6, <1>7, TopIs, TopKeeps, Zenon
  <1>9. ProcOK(prog, p, s) /\ Budget
    BY <1>2, <1>6, <1>8 DEF ProcOK, Keeps, Budget, FrameInv
  <1> QED BY <1>2, <1>9, OneStep, Zenon

\* A function's thread is put on the stack, or another one of the session's code.
LEMMA PushStep ==
    ASSUME FrameInv, NEW p \in Pids, proc[p].st = "rc", NEW r, Like(p, r), prog' = prog, NEW u,
           ThreadOK(prog, u), ~u.iflag, u.code \in DOMAIN prog.code, NEW s, 
           \/ s = Push(r, u) /\ r.mode # "parse"
           \/ s = Loop(Push(r, u)),
           proc' = [proc EXCEPT ![p] = s], Budget
    PROVE  FrameInv'
  <1> DEFINE m == Push(r, u)
  <1>1. IsProc(r) /\ r.q = proc[p].q /\ r.st = "rc" /\ r.base = proc[p].base
    BY Zenon DEF Like
  <1>2. Same(r, m) /\ m.q = Append(r.q, u) /\ m.mode = r.mode
    BY <1>1, PushIs, Zenon
  <1> HIDE DEF m
  <1>3. Same(m, Loop(m)) /\ Loop(m).q = m.q /\ Loop(m).mode \in Running
    BY <1>2, LoopIs, Zenon DEF Same
  <1>4. Same(r, s) /\ s.q = Append(r.q, u) /\ s.mode # "parse"
    BY <1>2, <1>3, Zenon DEF Same, Running, m
  <1>5. Keeps(prog, p, proc[p], s)
    BY <1>1, <1>4, TopIs, Zenon DEF Keeps, Same, Like
  <1>6. ShellOK(prog, p, s)
    BY <1>1, <1>4, <1>5, TopIs, PushKeeps, Zenon
  <1>7. ProcOK(prog, p, s)
    BY <1>5, <1>6, Zenon DEF ProcOK, Keeps
  <1> QED BY <1>7, OneStep, Zenon

\* Threads are taken off.
LEMMA PopStep ==
    ASSUME FrameInv, NEW p \in Pids, proc[p].st = "rc", NEW r, Like(p, r), Budget,
           NEW n \in 1 .. Len(proc[p].q), Calm(prog) /\ p # Main => n > proc[p].base,
           NEW s, Same(r, s), s.q = SubSeq(r.q, 1, n), s.mode # "parse",
           proc' = [proc EXCEPT ![p] = s]
    PROVE  FrameInv'
  <1>1. IsProc(r) /\ r.q = proc[p].q /\ r.st = "rc" /\ r.base = proc[p].base
    BY Zenon DEF Like
  <1>2. Keeps(prog, p, proc[p], s)
    BY <1>1, TopIs, Zenon DEF Keeps, Same, Like
  <1>3. ShellOK(prog, p, s)
    BY <1>1, <1>2, TopIs, PopKeeps, Zenon
  <1>4. ProcOK(prog, p, s)
    BY <1>2, <1>3, Zenon DEF ProcOK, Keeps
  <1> QED BY <1>4, OneStep, Zenon

\* Xreturn, in a thread that is not the first one of a child.
LEMMA ReturnStep ==
    ASSUME FrameInv, NEW p \in Pids, proc[p].st = "rc", Budget, Return(p, proc[p]),
           Calm(prog) /\ p # Main => ~InChild(prog, Top(p))
    PROVE  FrameInv'
  <1> DEFINE r == proc[p]
             n == Len(r.q) - 1
             m == [r EXCEPT !.q = SubSeq(@, 1, Len(@) - 1)]
  <1>1. CASE Len(r.q) = 1
    BY <1>1, EndedStep, Zenon DEF Return, Terminate
  <1>2. CASE Len(r.q) # 1
    <2>1. n \in 1 .. Len(r.q) /\ n \in 0 .. Len(r.q) /\ Len(r.q) \in Nat
      <3>1. Len(r.q) \in Nat /\ Len(r.q) \in 1 .. Len(r.q)
        BY TopIs, Zenon
      <3>2. ASSUME NEW l \in Nat, l \in 1 .. l, l # 1
            PROVE  l - 1 \in 1 .. l /\ l - 1 \in 0 .. l
        BY <3>2
      <3> QED BY <1>2, <3>1, <3>2, ZenonT(30)
    <2>3. Same(r, m) /\ m.q = SubSeq(r.q, 1, n)
      <3>1. IsProc(r)
        BY TopIs, Zenon
      <3>2. m = [r EXCEPT !.q = SubSeq(r.q, 1, n)]
        OBVIOUS
      <3> HIDE DEF n, r, m
      <3> QED BY <2>1, <3>1, <3>2, CutIs, ZenonT(30)
    <2>4. proc' = [proc EXCEPT ![p] = Loop(m)]
      BY <1>2, Zenon DEF Return
    <2>5. Same(m, Loop(m)) /\ Loop(m).q = m.q /\ Loop(m).mode \in Running
      <3> HIDE DEF m
      <3> QED BY <2>3, LoopIs, Zenon DEF Same
    <2>6. Same(r, Loop(m)) /\ Loop(m).q = SubSeq(r.q, 1, n) /\ Loop(m).mode # "parse"
      <3> HIDE DEF m, n, r
      <3> QED BY <2>3, <2>5, Zenon DEF Same, Running
    <2>7. ASSUME Calm(prog), p # Main  PROVE n > r.base
      <3>1. ChildOK(prog, r) /\ r.base \in Nat
        BY <2>7, TopIs, ZenonT(30) DEF ShellOK, IsProc
      <3>2. Top(p) = r.q[Len(r.q)] /\ ~InChild(prog, Top(p))
        BY <2>7, TopIs, Zenon
      <3>3. InChild(prog, r.q[r.base + 1]) /\ Len(r.q) > r.base
        BY <3>1, Zenon DEF ChildOK, InChild
      <3>4. Len(r.q) # r.base + 1
        BY <3>2, <3>3, Zenon
      <3> QED BY <2>1, <3>1, <3>3, <3>4
    <2>8. Like(p, r)
      BY SelfLike, Zenon
    <2> HIDE DEF m, n, r
    <2>9. n \in 1 .. Len(proc[p].q) /\ (Calm(prog) /\ p # Main => n > proc[p].base)
      BY <2>1, <2>7, Zenon DEF r
    <2> QED BY <2>4, <2>6, <2>8, <2>9, PopStep, Zenon
  <1> QED BY <1>1, <1>2, Zenon

\* An error: back to the command loop of a terminal, or the end.
LEMMA UnwindStep ==
    ASSUME Ordered, FrameInv, NEW p \in Pids, proc[p].st = "rc", NEW r, Like(p, r), Budget, Unwind(p, r),
           prog.errs > 0
    PROVE  FrameInv'
  <1> DEFINE m == [r EXCEPT !.q = Uncover(@)]
  <1>1. IsProc(r)
    BY Zenon DEF Like
  <1>2. PICK n \in 0 .. Len(r.q) :
              /\ n > 0 => r.q[n].iflag
              /\ Uncover(r.q) = <<>> <=> n = 0
              /\ Same(r, m) /\ m.q = SubSeq(r.q, 1, n)
    BY <1>1, UncoveredIs, Zenon
  <1>3. CASE Uncover(r.q) = <<>>
    BY <1>3, EndedStep, Zenon DEF Unwind, Terminate
  <1>4. CASE Uncover(r.q) # <<>>
    <2>1. proc' = [proc EXCEPT ![p] = Loop(m)]
      BY <1>4, Zenon DEF Unwind
    <2> HIDE DEF m
    <2>2. Same(m, Loop(m)) /\ Loop(m).q = m.q /\ Loop(m).mode \in Running
      BY <1>2, LoopIs, Zenon DEF Same
    <2>3. Same(r, Loop(m)) /\ Loop(m).q = SubSeq(r.q, 1, n) /\ Loop(m).mode # "parse"
      BY <1>2, <2>2, Zenon DEF Same, Running
    <2>4. r.q = proc[p].q
      BY Zenon DEF Like
    <2>5. n > 0 /\ n \in 1 .. Len(proc[p].q)
      BY <1>2, <1>4, <2>4, TopIs
    <2>6. ~(Calm(prog) /\ p # Main)
      BY <1>2, <2>4, <2>5, TopIs, Zenon DEF ShellOK, ChildOK
    <2> QED BY <2>1, <2>3, <2>5, <2>6, PopStep, Zenon
  <1> QED BY <1>3, <1>4, Zenon

\* Xexit: fn sigexit, or the end.
LEMMA ExitsStep ==
    ASSUME FrameInv, NEW p \in Pids, proc[p].st = "rc", Budget, NEW r, 
           r = proc[p] \/ \E v : r = [proc[p] EXCEPT !.status = v], Exits(p, r)
    PROVE  FrameInv'
  <1>1. Like(p, r)
    <2>1. CASE r = proc[p]
      BY <2>1, SelfLike, Zenon
    <2>2. CASE r # proc[p]
      <3>1. PICK v : r = [proc[p] EXCEPT !.status = v]
        BY <2>2, Zenon
      <3> QED BY <3>1, FieldsLike, Zenon
    <2> QED BY <2>1, <2>2, Zenon
  <1>2. CASE p = Main /\ ~r.been /\ r.fns["sigexit"] # NoFn
    <2> DEFINE m == [r EXCEPT !.been = TRUE]
               u == start(m.fns["sigexit"].code, m.fns["sigexit"].pc, 1)
    <2>1. Same(r, m) /\ m.q = r.q
      BY <1>1, Zenon DEF Like, Same, IsProc, IsFcn, ProcFields
    <2>2. Like(p, m) /\ m.fns = r.fns
      <3> HIDE DEF m
      <3> QED BY <1>1, <2>1, Zenon DEF Like, Same
    <2>3. FnOK(prog, m.fns["sigexit"])
      BY <1>2, <2>2, FnNamesAssumption, Zenon DEF Like
    <2>4. proc' = [proc EXCEPT ![p] = Loop(Push(m, u))]
      BY <1>2, Zenon DEF Exits, Handler
    <2> HIDE DEF m
    <2>5. ThreadOK(prog, u) /\ u.code \in DOMAIN prog.code /\ ~u.iflag
      BY <2>3, FnThreadIs, TopIs, SMTT(30)
    <2> HIDE DEF u
    <2> QED BY <2>2, <2>4, <2>5, PushStep, Zenon DEF Budget
  <1>3. CASE ~(p = Main /\ ~r.been /\ r.fns["sigexit"] # NoFn)
    BY <1>3, EndedStep, Zenon DEF Exits, Terminate
  <1> QED BY <1>2, <1>3, Zenon

-----------------------------------------------------------------------------
(***************************************************************************)
(* Operations that go on in their thread.                                  *)
(***************************************************************************)
LEMMA StackOps ==
    ASSUME FrameInv, NEW p \in Pids, prog' = prog,
           \/ Xmark(p) \/ Xpopm(p) \/ Xdol(p) \/ Xassign(p) \/ Xlocal(p) \/ Xunlocal(p)
           \/ Xread(p) \/ Xdup(p) \/ Xpopredir(p)
    PROVE  FrameInv'
  <1> DEFINE C == CodeIn(prog, Top(p).code)
             S == ShapeIn(prog, Top(p).code)
             a == Top(p).pc
  <1>0. proc[p].st = "rc"
    BY Zenon DEF Xmark, Xpopm, Xdol, Xassign, Xlocal, Xunlocal, Xread, Xdup, Xpopredir, At
  <1>1. Agrees(C, S, a) /\ Here(p) = C[a]
    BY <1>0, TopIs, ZenonT(30)
  <1>2. Like(p, proc[p])
    BY <1>0, SelfLike, Zenon
  <1>3. CASE Xmark(p)
    <2>1. Leads(C, S, a, a + 1, 1, 0, 0)
      BY <1>1, <1>3, ZenonT(30) DEF Xmark, At, Agrees
    <2> QED BY <1>0, <1>2, <1>3, <2>1, GotoStep, SMTT(30) DEF Xmark, Next1
  <1>4. CASE Xpopm(p)
    <2>1. Leads(C, S, a, a + 1, -1, 0, 0)
      BY <1>1, <1>4, ZenonT(30) DEF Xpopm, At, Agrees
    <2> QED BY <1>0, <1>2, <1>4, <2>1, GotoStep, SMTT(30) DEF Xpopm, Next1
  <1>5. CASE Xdol(p)
    <2>1. Leads(C, S, a, a + 1, -1, 0, 0)
      BY <1>1, <1>5, Zenon DEF Xdol, At, Agrees
    <2> QED BY <1>0, <1>2, <1>5, <2>1, GotoStep, SMTT(30) DEF Xdol, Next1
  <1>6. CASE Xassign(p)
    <2>1. Leads(C, S, a, a + 1, -2, 0, 0)
      BY <1>1, <1>6, ZenonT(30) DEF Xassign, At, Agrees
    <2> QED BY <1>0, <1>2, <1>6, <2>1, GotoStep, SMTT(30) DEF Xassign, Next1
  <1>7. CASE Xlocal(p)
    <2>1. Leads(C, S, a, a + 1, -2, 0, 1)
      BY <1>1, <1>7, ZenonT(30) DEF Xlocal, At, Agrees
    <2> QED BY <1>0, <1>2, <1>7, <2>1, GotoStep, SMTT(30) DEF Xlocal, Next1
  <1>8. CASE Xunlocal(p)
    <2>1. Leads(C, S, a, a + 1, 0, 0, -1)
      BY <1>1, <1>8, ZenonT(30) DEF Xunlocal, At, Agrees
    <2> QED BY <1>0, <1>2, <1>8, <2>1, GotoStep, SMTT(30) DEF Xunlocal, Next1
  <1>9. CASE Xread(p)
    <2>1. Leads(C, S, a, a + 1, -1, 1, 0)
      BY <1>1, <1>9, ZenonT(30) DEF Xread, At, Agrees
    <2> QED BY <1>0, <1>2, <1>9, <2>1, GotoStep, SMTT(30) DEF Xread, Next1
  <1>10. CASE Xdup(p)
    <2>1. Leads(C, S, a, a + 1, 0, 1, 0)
      BY <1>1, <1>10, ZenonT(30) DEF Xdup, At, Agrees
    <2> QED BY <1>0, <1>2, <1>10, <2>1, GotoStep, SMTT(30) DEF Xdup, Next1
  <1>11. CASE Xpopredir(p)
    <2>1. Leads(C, S, a, a + 1, 0, -1, 0)
      BY <1>1, <1>11, Zenon DEF Xpopredir, At, Agrees
    <2> QED BY <1>0, <1>2, <1>11, <2>1, GotoStep, SMTT(30) DEF Xpopredir, Next1
  <1> QED BY <1>3, <1>4, <1>5, <1>6, <1>7, <1>8, <1>9, <1>10, <1>11, ZenonT(30)

\* Operations that test $status, jump and loop.
LEMMA TestOps ==
    ASSUME FrameInv, NEW p \in Pids, prog' = prog,
           \/ Xjump(p) \/ Xsettrue(p) \/ Xbang(p) \/ Xmatch(p) \/ Xtrue(p) \/ Xfalse(p)
           \/ Xif(p) \/ Xifnot(p) \/ Xwastrue(p) \/ Xcase(p) \/ Xfor(p)
    PROVE  FrameInv'
  <1> DEFINE C == CodeIn(prog, Top(p).code)
             S == ShapeIn(prog, Top(p).code)
             a == Top(p).pc
  <1>0. proc[p].st = "rc"
    BY Zenon DEF Xjump, Xsettrue, Xbang, Xmatch, Xtrue, Xfalse, Xif, Xifnot, Xwastrue, Xcase, Xfor, At
  <1>1. Agrees(C, S, a) /\ Here(p) = C[a]
    BY <1>0, TopIs, Zenon
  <1>2. Like(p, proc[p])
    BY <1>0, SelfLike, Zenon
  <1>3. CASE Xjump(p)
    <2>1. Leads(C, S, a, C[a].a, 0, 0, 0)
      BY <1>1, <1>3, Zenon DEF Xjump, At, Agrees
    <2>2. Goto(p, proc[p], C[a].a, 0, 0, 0)
      BY <1>1, <1>3, Zenon DEF Xjump
    <2> QED BY <1>0, <1>2, <2>1, <2>2, GotoStep, SMTT(30)
  <1>4. CASE Xsettrue(p)
    <2>1. Leads(C, S, a, a + 1, 0, 0, 0)
      BY <1>1, <1>4, Zenon DEF Xsettrue, At, Agrees
    <2>2. Like(p, [proc[p] EXCEPT !.status = <<0>>])
      BY <1>0, FieldsLike, Zenon
    <2> QED BY <1>0, <1>4, <2>1, <2>2, GotoStep, SMTT(30) DEF Xsettrue, Next1
  <1>5. CASE Xbang(p)
    <2> DEFINE v == IF truestatus(proc[p].status) THEN <<TEXT>> ELSE <<0>>
    <2>1. Leads(C, S, a, a + 1, 0, 0, 0)
      BY <1>1, <1>5, Zenon DEF Xbang, At, Agrees
    <2>2. Goto(p, [proc[p] EXCEPT !.status = v], a + 1, 0, 0, 0)
      BY <1>5, Zenon DEF Xbang, Next1
    <2> HIDE DEF v
    <2>3. Like(p, [proc[p] EXCEPT !.status = v])
      BY <1>0, FieldsLike, Zenon
    <2> QED BY <1>0, <2>1, <2>2, <2>3, GotoStep, SMTT(30)
  <1>6. CASE Xmatch(p)
    <2>1. Leads(C, S, a, a + 1, -2, 0, 0)
      BY <1>1, <1>6, Zenon DEF Xmatch, At, Agrees
    <2>2. PICK v : Goto(p, [proc[p] EXCEPT !.status = v], a + 1, -2, 0, 0)
      BY <1>6, Zenon DEF Xmatch, Next1
    <2>3. Like(p, [proc[p] EXCEPT !.status = v])
      BY <1>0, FieldsLike, Zenon
    <2> QED BY <1>0, <2>1, <2>2, <2>3, GotoStep, SMTT(30)
  <1>7. CASE Xtrue(p)
    <2>1. Leads(C, S, a, a + 1, 0, 0, 0) /\ Leads(C, S, a, C[a].a, 0, 0, 0)
      BY <1>1, <1>7, Zenon DEF Xtrue, At, Agrees
    <2>2. PICK b \in {a + 1, C[a].a} : Goto(p, proc[p], b, 0, 0, 0)
      BY <1>1, <1>7, ZenonT(30) DEF Xtrue, Branch, Next1
    <2> QED BY <1>0, <2>1, <2>2, <1>2, GotoStep, SMTT(30)
  <1>8. CASE Xfalse(p)
    <2>1. Leads(C, S, a, a + 1, 0, 0, 0) /\ Leads(C, S, a, C[a].a, 0, 0, 0)
      BY <1>1, <1>8, ZenonT(30) DEF Xfalse, At, Agrees
    <2>2. PICK b \in {a + 1, C[a].a} : Goto(p, proc[p], b, 0, 0, 0)
      BY <1>1, <1>8, Zenon DEF Xfalse, Branch, Next1
    <2> QED BY <1>0, <2>1, <2>2, <1>2, GotoStep, SMTT(30)
  <1>9. CASE Xif(p)
    <2>1. Leads(C, S, a, a + 1, 0, 0, 0) /\ Leads(C, S, a, C[a].a, 0, 0, 0)
      BY <1>1, <1>9, Zenon DEF Xif, At, Agrees
    <2>2. PICK b \in {a + 1, C[a].a} : Goto(p, [proc[p] EXCEPT !.ifnot = TRUE], b, 0, 0, 0)
      BY <1>1, <1>9, Zenon DEF Xif, Branch, Next1
    <2>3. Like(p, [proc[p] EXCEPT !.ifnot = TRUE])
      BY <1>0, FieldsLike, ZenonT(30)
    <2> QED BY <1>0, <2>1, <2>2, <2>3, GotoStep, SMTT(30)
  <1>10. CASE Xifnot(p)
    <2>1. Leads(C, S, a, a + 1, 0, 0, 0) /\ Leads(C, S, a, C[a].a, 0, 0, 0)
      BY <1>1, <1>10, Zenon DEF Xifnot, At, Agrees
    <2>2. PICK b \in {a + 1, C[a].a} : Goto(p, proc[p], b, 0, 0, 0)
      BY <1>1, <1>10, Zenon DEF Xifnot, Branch, Next1
    <2> QED BY <1>0, <2>1, <2>2, <1>2, GotoStep, SMTT(30)
  <1>11. CASE Xwastrue(p)
    <2>1. Leads(C, S, a, a + 1, 0, 0, 0)
      BY <1>1, <1>11, Zenon DEF Xwastrue, At, Agrees
    <2>2. Like(p, [proc[p] EXCEPT !.ifnot = FALSE])
      BY <1>0, FieldsLike, ZenonT(30)
    <2> QED BY <1>0, <1>11, <2>1, <2>2, GotoStep, SMTT(30) DEF Xwastrue, Next1
  <1>12. CASE Xcase(p)
    <2>1. Leads(C, S, a, a + 1, -1, 0, 0) /\ Leads(C, S, a, C[a].a, -1, 0, 0)
      BY <1>1, <1>12, Zenon DEF Xcase, At, Agrees
    <2>2. PICK b \in {a + 1, C[a].a} : Goto(p, proc[p], b, -1, 0, 0)
      BY <1>1, <1>12, ZenonT(30) DEF Xcase, Next1
    <2> QED BY <1>0, <1>2, <2>1, <2>2, GotoStep, SMTT(30)
  <1>13. CASE Xfor(p)
    <2>1. Leads(C, S, a, a + 1, 0, 0, 0) /\ Leads(C, S, a, C[a].a, -1, 0, 0)
      BY <1>1, <1>13, Zenon DEF Xfor, At, Agrees
    <2>2. \/ Goto(p, proc[p], a + 1, 0, 0, 0) \/ Goto(p, proc[p], C[a].a, -1, 0, 0)
      BY <1>1, <1>13, Zenon DEF Xfor, Next1
    <2> QED BY <1>0, <1>2, <2>1, <2>2, GotoStep, SMTT(30)
  <1> QED BY <1>3, <1>4, <1>5, <1>6, <1>7, <1>8, <1>9, <1>10, <1>11, <1>12, <1>13, ZenonT(30)

\* Definitions of functions.
LEMMA FnOps ==
    ASSUME FrameInv, NEW p \in Pids, prog' = prog, Xfn(p) \/ Xdelfn(p)
    PROVE  FrameInv'
  <1> DEFINE C == CodeIn(prog, Top(p).code)
             S == ShapeIn(prog, Top(p).code)
             a == Top(p).pc
             r(v) == [proc[p] EXCEPT !.fns[C[a].c] = v]
  <1>0. proc[p].st = "rc"
    BY Zenon DEF Xfn, Xdelfn, At
  <1>1. Agrees(C, S, a) /\ Here(p) = C[a]
    BY <1>0, TopIs, Zenon
  <1>2. C[a].c \in FnNames /\ (C[a].f = "Xfn" => FnOK(prog, [code |-> Top(p).code, pc |-> a + 1]))
    <2>1. C[a].f \in {"Xfn", "Xdelfn"}
      BY <1>1, Zenon DEF Xfn, Xdelfn, At
    <2> QED BY <1>0, <2>1, TopIs, FnCellIs, ZenonT(30)
  <1>3. ASSUME NEW v, v # NoFn => FnOK(prog, v)  PROVE Like(p, r(v))
    <2>1. Like(p, proc[p])
      BY <1>0, SelfLike, Zenon
    <2> DEFINE n == C[a].c
    <2> HIDE DEF n
    <2>2. /\ IsProc([proc[p] EXCEPT !.fns[n] = v]) /\ [proc[p] EXCEPT !.fns[n] = v].st = "rc"
          /\ [proc[p] EXCEPT !.fns[n] = v].base = proc[p].base
          /\ [proc[p] EXCEPT !.fns[n] = v].q = proc[p].q
          /\ [proc[p] EXCEPT !.fns[n] = v].fns = [proc[p].fns EXCEPT ![n] = v]
      BY <1>0, <2>1, Zenon DEF Like, IsProc, IsFcn, ProcFields
    <2>3. \A f \in FnNames : [proc[p].fns EXCEPT ![n] = v][f] = IF f = n THEN v ELSE proc[p].fns[f]
      BY <2>1, Zenon DEF Like, IsProc, IsFcn
    <2> QED BY <1>3, <2>1, <2>2, <2>3, ZenonT(30) DEF Like, n
  <1>4. CASE Xfn(p)
    <2>1. Leads(C, S, a, C[a].a, -1, 0, 0)
      BY <1>1, <1>4, Zenon DEF Xfn, At, Agrees
    <2>2. Goto(p, r([code |-> Top(p).code, pc |-> a + 1]), C[a].a, -1, 0, 0)
      BY <1>1, <1>4, Zenon DEF Xfn, Next1
    <2>3. Like(p, r([code |-> Top(p).code, pc |-> a + 1]))
      BY <1>1, <1>2, <1>3, <1>4, ZenonT(30) DEF Xfn, At
    <2> HIDE DEF r
    <2> QED BY <1>0, <2>1, <2>2, <2>3, GotoStep, SMTT(30)
  <1>5. CASE Xdelfn(p)
    <2>1. Leads(C, S, a, a + 1, -1, 0, 0)
      BY <1>1, <1>5, Zenon DEF Xdelfn, At, Agrees
    <2>2. Goto(p, r(NoFn), a + 1, -1, 0, 0)
      BY <1>1, <1>5, Zenon DEF Xdelfn, Next1
    <2>3. Like(p, r(NoFn))
      BY <1>3, Zenon
    <2> HIDE DEF r
    <2> QED BY <1>0, <2>1, <2>2, <2>3, GotoStep, SMTT(30)
  <1> QED BY <1>4, <1>5, Zenon

-----------------------------------------------------------------------------
(***************************************************************************)
(* Operations that leave their thread, end the process or wait.            *)
(***************************************************************************)
\* The threads stay as they are.
LEMMA StayStep ==
    ASSUME FrameInv, NEW p \in Pids, proc[p].st = "rc", Budget, NEW s, Same(proc[p], s),
           s.q = proc[p].q, Calm(prog) /\ p # Main => s.mode # "parse",
           proc' = [proc EXCEPT ![p] = s]
    PROVE  FrameInv'
  <1>1. ShellOK(prog, p, proc[p])
    BY TopIs, Zenon
  <1>2. ShellOK(prog, p, s)
    BY <1>1, Zenon DEF ShellOK, ChildOK, Same
  <1>3. ProcOK(prog, p, s)
    BY <1>2, Zenon DEF ProcOK, Same
  <1> QED BY <1>3, OneStep, ZenonT(30)

\* The running thread changes, whatever the process does then.
LEMMA TopStep ==
    ASSUME FrameInv, NEW p \in Pids, proc[p].st = "rc", Budget, NEW u, ThreadOK(prog, u),
           Alike(prog, Top(p), u), NEW s, Same(proc[p], s),
           s.q = [proc[p].q EXCEPT ![Len(proc[p].q)] = u],
           Calm(prog) /\ p # Main => s.mode # "parse"
    PROVE  ProcOK(prog, p, s) /\ (proc' = [proc EXCEPT ![p] = s] => FrameInv')
  <1>1. Keeps(prog, p, proc[p], s)
    BY TopIs, ZenonT(30) DEF Keeps, Same, ShellOK
  <1>2. ShellOK(prog, p, s)
    BY <1>1, TopIs, TopKeeps, Zenon
  <1>3. ProcOK(prog, p, s)
    BY <1>1, <1>2, Zenon DEF ProcOK, Keeps
  <1> QED BY <1>3, OneStep, Zenon

\* The thread of an operation that is over, and one more on top of it.
LEMMA CallStep ==
    ASSUME FrameInv, NEW p \in Pids, proc[p].st = "rc", Budget, NEW u, ThreadOK(prog, u),
           Alike(prog, Top(p), u), NEW m, Same(proc[p], m),
           m.q = [proc[p].q EXCEPT ![Len(proc[p].q)] = u],
           Calm(prog) /\ p # Main => m.mode # "parse",
           NEW t, ThreadOK(prog, t), ~t.iflag, t.code \in DOMAIN prog.code
    PROVE  /\ ProcOK(prog, p, Loop(Push(m, t)))
           /\ proc' = [proc EXCEPT ![p] = Loop(Push(m, t))] => FrameInv'
  <1> DEFINE n == Push(m, t)
             s == Loop(n)
  <1>1. ProcOK(prog, p, m)
    BY TopStep, Zenon
  <1>2. IsProc(m) /\ m.st = "rc" /\ ShellOK(prog, p, m)
    BY <1>1, Zenon DEF ProcOK, Same
  <1>3. Same(m, n) /\ n.q = Append(m.q, t)
    BY <1>2, PushIs, Zenon
  <1> HIDE DEF n
  <1>4. Same(n, s) /\ s.q = n.q /\ s.mode \in Running
    BY <1>3, LoopIs, Zenon DEF Same
  <1> HIDE DEF s
  <1>5. Keeps(prog, p, m, s)
    BY <1>2, <1>3, <1>4, ZenonT(30) DEF Keeps, Same, ShellOK, Running
  <1>6. ShellOK(prog, p, s)
    BY <1>3, <1>4, <1>5, TopIs, PushKeeps, ZenonT(30)
  <1>7. ProcOK(prog, p, s)
    BY <1>5, <1>6, Zenon DEF ProcOK, Keeps
  <1> QED BY <1>7, OneStep, Zenon DEF s, n

\* A thread that has used up a list of words.
LEMMA PoppedIs ==
    ASSUME NEW P \in Progs, NEW t, ThreadOK(P, t), NEW b,
           Leads(CodeIn(P, t.code), ShapeIn(P, t.code), t.pc, b, -1, 0, 0)
    PROVE  /\ ThreadOK(P, Popped(t, b)) /\ Alike(P, t, Popped(t, b))
           /\ Popped(t, b).local = t.local
  <1> DEFINE u == Popped(t, b)
  <1>1. /\ IsFcn(u, ThreadFields) /\ u.code = t.code /\ u.pc = b /\ u.iflag = t.iflag
        /\ u.pid = t.pid /\ u.next = t.next /\ u.argv = t.argv - 1 /\ u.redir = t.redir
        /\ u.local = t.local
    BY Zenon DEF ThreadOK, IsFcn, ThreadFields, Popped
  <1> HIDE DEF u
  <1>2. PICK i \in Int, z \in Int : i = -1 /\ z = 0
    OBVIOUS
  <1>3. /\ u.pid \in Int /\ u.next \in Nat /\ u.argv = t.argv + i /\ u.redir = t.redir + z
        /\ u.local = t.local + z
    BY <1>1, <1>2 DEF ThreadOK
  <1>4. Leads(CodeIn(P, t.code), ShapeIn(P, t.code), t.pc, b, i, z, z)
    BY <1>2, Zenon
  <1>5. ThreadOK(P, u) /\ Alike(P, t, u)
    BY <1>1, <1>3, <1>4, LeadsIs, ZenonT(30)
  <1> QED BY <1>1, <1>5, Zenon DEF u

\* A thread that goes on elsewhere, and one that is given a left side.
LEMMA JumpedIs ==
    ASSUME NEW P \in Progs, NEW t, ThreadOK(P, t), NEW b, NEW n \in Int,
           Leads(CodeIn(P, t.code), ShapeIn(P, t.code), t.pc, b, 0, 0, 0)
    PROVE  /\ ThreadOK(P, Jumped(t, b)) /\ Alike(P, t, Jumped(t, b))
           /\ ThreadOK(P, Piped(t, b, n)) /\ Alike(P, t, Piped(t, b, n))
  <1>1. ASSUME NEW u \in {Jumped(t, b), Piped(t, b, n)}  PROVE ThreadOK(P, u) /\ Alike(P, t, u)
    <2>1. /\ IsFcn(u, ThreadFields) /\ u.code = t.code /\ u.pc = b /\ u.iflag = t.iflag
          /\ u.pid \in {t.pid, n} /\ u.next = t.next /\ u.argv = t.argv /\ u.redir = t.redir
          /\ u.local = t.local
      BY Zenon DEF ThreadOK, IsFcn, ThreadFields, Jumped, Piped
    <2>2. PICK z \in Int : z = 0
      OBVIOUS
    <2>3. /\ u.pid \in Int /\ u.next \in Nat /\ u.redir = t.redir + z /\ u.local = t.local + z
          /\ u.argv = t.argv + z
      BY <2>1, <2>2 DEF ThreadOK
    <2>4. Leads(CodeIn(P, t.code), ShapeIn(P, t.code), t.pc, b, z, z, z)
      BY <2>2, Zenon
    <2> QED BY <2>1, <2>3, <2>4, LeadsIs, ZenonT(30)
  <1> QED BY <1>1, Zenon

\* A thread that has opened a redirection.
LEMMA OpenedIs ==
    ASSUME NEW P \in Progs, NEW t, ThreadOK(P, t), NEW b,
           Leads(CodeIn(P, t.code), ShapeIn(P, t.code), t.pc, b, 0, 1, 0)
    PROVE  ThreadOK(P, Opened(t, b)) /\ Alike(P, t, Opened(t, b))
  <1> DEFINE u == Opened(t, b)
  <1>1. /\ IsFcn(u, ThreadFields) /\ u.code = t.code /\ u.pc = b /\ u.iflag = t.iflag
        /\ u.pid = t.pid /\ u.next = t.next /\ u.argv = t.argv /\ u.redir = t.redir + 1
        /\ u.local = t.local
    BY Zenon DEF ThreadOK, IsFcn, ThreadFields, Opened
  <1> HIDE DEF u
  <1>2. PICK i \in Int, z \in Int : i = 1 /\ z = 0
    OBVIOUS
  <1>3. /\ u.pid \in Int /\ u.next \in Nat /\ u.argv = t.argv + z /\ u.redir = t.redir + i
        /\ u.local = t.local + z
    BY <1>1, <1>2 DEF ThreadOK
  <1>4. Leads(CodeIn(P, t.code), ShapeIn(P, t.code), t.pc, b, z, i, z)
    BY <1>2, Zenon
  <1>5. ThreadOK(P, u) /\ Alike(P, t, u)
    BY <1>1, <1>3, <1>4, LeadsIs, Zenon
  <1> QED BY <1>1, <1>5, Zenon DEF u

\* Operations that end a thread or a process.
LEMMA EndOps ==
    ASSUME FrameInv, NEW p \in Pids, prog' = prog,
           \/ Xreturn(p) \/ Xexit(p) \/ Xeflag(p) \/ execexit(p) \/ SimpleExec(p)
           \/ CommandEnds(p)
    PROVE  FrameInv'
  <1> DEFINE C == CodeIn(prog, Top(p).code)
             S == ShapeIn(prog, Top(p).code)
             a == Top(p).pc
  <1>0. errs' = errs => Budget
    BY DEF Budget, FrameInv
  <1>1. CASE Xreturn(p)
    <2>1. proc[p].st = "rc" /\ Here(p).f = "Xreturn" /\ Return(p, proc[p]) /\ errs' = errs
      BY <1>1, Zenon DEF Xreturn, At
    <2>2. Agrees(C, S, a) /\ Here(p) = C[a]
      BY <2>1, TopIs, Zenon
    <2>3. ~InChild(prog, Top(p))
      BY <2>1, <2>2, Zenon DEF Agrees, InChild
    <2> QED BY <1>0, <2>1, <2>3, ReturnStep, ZenonT(30)
  <1>2. CASE Xexit(p)
    <2>1. proc[p].st = "rc" /\ Exits(p, proc[p]) /\ errs' = errs
      BY <1>2, Zenon DEF Xexit, At
    <2> QED BY <1>0, <2>1, ExitsStep, Zenon
  <1>3. CASE Xeflag(p)
    <2>1. proc[p].st = "rc" /\ Here(p).f = "Xeflag"
      BY <1>3, Zenon DEF Xeflag, At
    <2>2. Agrees(C, S, a) /\ Here(p) = C[a]
      BY <2>1, TopIs, ZenonT(30)
    <2>3. CASE truestatus(proc[p].status)
      <3>1. Goto(p, proc[p], a + 1, 0, 0, 0)
        BY <1>3, <2>3, Zenon DEF Xeflag, Next1
      <3>2. Leads(C, S, a, a + 1, 0, 0, 0)
        BY <2>1, <2>2, Zenon DEF Agrees
      <3> QED BY <2>1, <3>1, <3>2, SelfLike, GotoStep, SMTT(30)
    <2>4. CASE ~truestatus(proc[p].status)
      <3>1. Exits(p, proc[p]) /\ errs' = errs
        BY <1>3, <2>4, Zenon DEF Xeflag
      <3> QED BY <1>0, <2>1, <3>1, ExitsStep, ZenonT(30)
    <2> QED BY <2>3, <2>4, Zenon
  <1>4. CASE execexit(p)
    <2>1. proc[p].st = "rc" /\ errs' = errs
      BY <1>4, Zenon DEF execexit, Simple, At
    <2>2. Exits(p, [proc[p] EXCEPT !.status = <<TEXT>>]) \/ Exits(p, proc[p])
      BY <1>4, Zenon DEF execexit
    <2> QED BY <1>0, <2>1, <2>2, ExitsStep, ZenonT(30)
  <1>5. CASE SimpleExec(p)
    <2>1. proc[p].st = "rc" /\ errs' = errs
      BY <1>5, Zenon DEF SimpleExec, External, Simple, At
    <2>2. CASE Exits(p, proc[p])
      BY <1>0, <2>1, <2>2, ExitsStep, Zenon
    <2>3. CASE ~Exits(p, proc[p])
      <3>1. proc' = [proc EXCEPT ![p] = Exec(proc[p], Here(p).c)]
        BY <1>5, <2>3, Zenon DEF SimpleExec
      <3>2. ProcOK(prog, p, Exec(proc[p], Here(p).c))
        BY ExecIs, Zenon DEF ProcOK
      <3> QED BY <1>0, <2>1, <3>1, <3>2, OneStep, ZenonT(30)
    <2> QED BY <2>2, <2>3, Zenon
  <1>6. CASE CommandEnds(p)
    <2>1. PICK c : proc' = Ended(proc, p, c) /\ errs' = errs
      BY <1>6, Zenon DEF CommandEnds
    <2> QED BY <1>0, <2>1, EndedStep, Zenon
  <1> QED BY <1>1, <1>2, <1>3, <1>4, <1>5, <1>6, ZenonT(30)

\* A function is called.
LEMMA CallOps ==
    ASSUME FrameInv, NEW p \in Pids, prog' = prog, execfunc(p)
    PROVE  FrameInv'
  <1> DEFINE C == CodeIn(prog, Top(p).code)
             S == ShapeIn(prog, Top(p).code)
             a == Top(p).pc
             t == Popped(Top(p), a + 1)
             f == proc[p].fns[Here(p).c]
             u == start(f.code, f.pc, t.local + 1)
             m == SetTop(proc[p], t)
  <1>1. /\ proc[p].st = "rc" /\ proc[p].mode = "run" /\ Here(p).f = "Xsimple" /\ errs' = errs
        /\ Here(p).c \in FnNames /\ f # NoFn
    BY Zenon DEF execfunc, Simple, IsFn, At, Step
  <1>2. proc' = [proc EXCEPT ![p] = Loop(Push(m, u))]
    BY Zenon DEF execfunc, Step, Next1, Popped
  <1>3. Agrees(C, S, a) /\ Here(p) = C[a] /\ prog \in Progs /\ ThreadOK(prog, Top(p))
    BY <1>1, TopIs, Zenon
  <1>4. Leads(C, S, a, a + 1, -1, 0, 0)
    BY <1>1, <1>3, ZenonT(30) DEF Agrees
  <1>5. ThreadOK(prog, t) /\ Alike(prog, Top(p), t) /\ t.local = Top(p).local
    BY <1>3, <1>4, PoppedIs, Zenon
  <1>6. t.local + 1 \in Int /\ t.local + 1 >= 1
    <2>1. S[a] \in Shapes
      BY <1>1, TopIs, Zenon
    <2>2. Top(p).local \in Int /\ Top(p).local >= S[a].local /\ S[a].local \in Nat
      BY <1>3, <2>1, Zenon DEF ThreadOK, Shapes
    <2> HIDE DEF t, S, a
    <2> QED BY <1>5, <2>2
  <1>7. FnOK(prog, f)
    BY <1>1, TopIs, ZenonT(30) DEF ShellOK
  <1> HIDE DEF t, f
  <1>8. ThreadOK(prog, u) /\ u.code \in DOMAIN prog.code /\ ~u.iflag
    BY <1>3, <1>6, <1>7, FnThreadIs, Zenon
  <1>9. Same(proc[p], m) /\ m.q = [proc[p].q EXCEPT ![Len(proc[p].q)] = t] /\ m.mode = "run"
    BY <1>1, TopIs, SetTopIs, ZenonT(30) DEF ShellOK
  <1> HIDE DEF u, m
  <1>10. Budget
    BY <1>1 DEF Budget, FrameInv
  <1> QED BY <1>1, <1>2, <1>5, <1>8, <1>9, <1>10, CallStep, ZenonT(30)

-----------------------------------------------------------------------------
(***************************************************************************)
(* Operations that wait.                                                   *)
(***************************************************************************)
\* The running thread goes on, and the process waits.
LEMMA WaitStep ==
    ASSUME FrameInv, NEW p \in Pids, proc[p].st = "rc", Budget, NEW u, ThreadOK(prog, u),
           Alike(prog, Top(p), u), NEW md \in {"simple", "wait", "read"}, NEW w, NEW k
    PROVE  LET s == Waits(SetTop(proc[p], u), md, w, k)
           IN  ProcOK(prog, p, s) /\ (proc' = [proc EXCEPT ![p] = s] => FrameInv')
  <1> DEFINE m == SetTop(proc[p], u)
             s == Waits(m, md, w, k)
  <1>1. IsProc(proc[p]) /\ proc[p].q # <<>>
    BY TopIs, Zenon DEF ShellOK
  <1>2. Same(proc[p], m) /\ m.q = [proc[p].q EXCEPT ![Len(proc[p].q)] = u]
    BY <1>1, SetTopIs, Zenon
  <1> HIDE DEF m
  <1>3. Same(m, s) /\ s.q = m.q /\ s.mode = md
    BY <1>2, WaitsIs DEF Same
  <1> HIDE DEF s
  <1>4. Same(proc[p], s) /\ s.q = [proc[p].q EXCEPT ![Len(proc[p].q)] = u] /\ s.mode # "parse"
    BY <1>2, <1>3, Zenon DEF Same
  <1>5. ProcOK(prog, p, s) /\ (proc' = [proc EXCEPT ![p] = s] => FrameInv')
    BY <1>4, TopStep, ZenonT(30)
  <1> QED BY <1>5, Zenon DEF s, m

\* Waitfor: the process goes on, or a pipeline remembers the status.
LEMMA CollectedKeeps ==
    ASSUME Ordered, NEW P \in Progs, NEW p, NEW r, ProcOK(P, p, r), r.st = "rc", r.mode # "parse", NEW z, NEW c
    PROVE  ProcOK(P, p, Collected(r, z, c))
  <1> DEFINE W == {i \in 1..Len(r.q) - 1 : r.q[i].pid = z}
             k == Max(W)
  <1>0. IsProc(r) /\ ShellOK(P, p, r) /\ IsSeq(r.q) /\ r.q # <<>>
    BY Zenon DEF ProcOK, ShellOK, IsProc
  <1>1. CASE z = r.wpid
    <2> DEFINE m == [r EXCEPT !.status = c]
    <2>1. Same(r, m) /\ m.q = r.q
      BY <1>0, Zenon DEF Same, IsProc, IsFcn, ProcFields
    <2>2. Collected(r, z, c) = Waited(m)
      BY <1>1, Zenon DEF Collected
    <2> HIDE DEF m
    <2>3. Same(m, Waited(m)) /\ Waited(m).q = m.q /\ Waited(m).mode \in Running
      BY <2>1, WaitedIs, Zenon DEF Same
    <2>4. ShellOK(P, p, Waited(m))
      BY <1>0, <2>1, <2>3, ZenonT(30) DEF ShellOK, ChildOK, Same, Running
    <2> QED BY <2>2, <2>3, <2>4, Zenon DEF ProcOK, Same
  <1>2. CASE z # r.wpid /\ W = {}
    BY <1>2, Zenon DEF Collected
  <1>3. CASE z # r.wpid /\ W # {}
    <2> DEFINE s == Remembered(r, k, c)
    <2>1. k \in 1 .. Len(r.q)
      <3>1. Len(r.q) \in Nat
        BY <1>0, SeqIs, Zenon
      <3>2. W \in SUBSET (0 .. Len(r.q))
        BY <3>1
      <3>3. Max(W) \in W
        <4> HIDE DEF W
        <4> QED BY <1>3, <3>1, <3>2, MaxIs, ZenonT(30)
      <3> QED BY <3>1, <3>3
    <2>2. Collected(r, z, c) = s
      BY <1>3, Zenon DEF Collected, Remembered
    <2> HIDE DEF k
    <2>3. \A i \in 1 .. Len(r.q) : IsFcn(r.q[i], ThreadFields)
      BY <1>0, Zenon DEF ShellOK, ThreadOK
    <2>4. /\ Same(r, s) /\ Len(s.q) = Len(r.q) /\ s.mode = r.mode
          /\ \A i \in 1 .. Len(r.q) : i # k => s.q[i] = r.q[i]
          /\ s.q[k] = Remembers(r.q[k], c)
      BY <1>0, <2>1, <2>3, RememberedIs, ZenonT(30)
    <2> HIDE DEF s
    <2>5. ThreadOK(P, s.q[k]) /\ Alike(P, r.q[k], s.q[k])
      <3> DEFINE t == r.q[k]
                 u == Remembers(t, c)
      <3>1. ThreadOK(P, t)
        BY <1>0, <2>1, Zenon DEF ShellOK
      <3> HIDE DEF t
      <3>2. /\ IsFcn(u, ThreadFields) /\ u.code = t.code /\ u.pc = t.pc /\ u.iflag = t.iflag
            /\ u.pid = -1 /\ u.next = t.next /\ u.argv = t.argv /\ u.redir = t.redir
            /\ u.local = t.local
        BY <3>1, ZenonT(30) DEF ThreadOK, IsFcn, ThreadFields, Remembers
      <3> HIDE DEF u
      <3>3. ThreadOK(P, u) /\ Alike(P, t, u)
        BY <3>1, <3>2 DEF ThreadOK, Alike, InChild
      <3> QED BY <2>4, <3>3, Zenon DEF u, t
    <2>6. \A i \in 1 .. Len(r.q) : ThreadOK(P, s.q[i]) /\ Alike(P, r.q[i], s.q[i])
      BY <1>0, <2>4, <2>5, ZenonT(30) DEF ShellOK, Alike
    <2>7. Keeps(P, p, r, s)
      BY <1>0, <2>4, Zenon DEF Keeps, Same, ShellOK
    <2>8. ShellOK(P, p, s)
      BY <2>4, <2>6, <2>7, AlikeKeeps, Zenon
    <2> QED BY <2>2, <2>7, <2>8, Zenon DEF ProcOK, Keeps
  <1> QED BY <1>1, <1>2, <1>3, Zenon

\* Operations that wait, and what ends a wait.
LEMMA WaitOps ==
    ASSUME Ordered, FrameInv, NEW p \in Pids, prog' = prog,
           \/ execwait(p) \/ Xpipewait(p) \/ ReadEnd(p) \/ (\E z \in Pids : Waitfor(p, z))
           \/ WaitforNone(p)
    PROVE  FrameInv'
  <1> DEFINE C == CodeIn(prog, Top(p).code)
             S == ShapeIn(prog, Top(p).code)
             a == Top(p).pc
  <1>0. proc[p].st = "rc" /\ errs' = errs
    BY Zenon DEF execwait, Simple, Xpipewait, ReadEnd, Waitfor, WaitforNone, At, Step
  <1>1. Budget
    BY <1>0 DEF Budget, FrameInv
  <1>2. /\ Agrees(C, S, a) /\ Here(p) = C[a] /\ prog \in Progs /\ ThreadOK(prog, Top(p))
        /\ IsProc(proc[p])
    BY <1>0, TopIs, Zenon
  <1>3. CASE execwait(p)
    <2> DEFINE u == Popped(Top(p), a + 1)
    <2>1. Leads(C, S, a, a + 1, -1, 0, 0)
      BY <1>2, <1>3, ZenonT(30) DEF execwait, Simple, At, Agrees
    <2>2. ThreadOK(prog, u) /\ Alike(prog, Top(p), u)
      BY <1>2, <2>1, PoppedIs, Zenon
    <2>3. \E w : proc' = [proc EXCEPT ![p] = Waits(SetTop(proc[p], u), "wait", w, <<>>)]
      BY <1>3, Zenon DEF execwait, Next1, Popped
    <2> HIDE DEF u
    <2> QED BY <1>0, <1>1, <2>2, <2>3, WaitStep, ZenonT(30)
  <1>4. CASE Xpipewait(p)
    <2> DEFINE u == Piped(Top(p), a + 1, -1)
    <2>1. Leads(C, S, a, a + 1, 0, 0, 0)
      BY <1>2, <1>4, ZenonT(30) DEF Xpipewait, At, Agrees
    <2>2. ThreadOK(prog, u) /\ Alike(prog, Top(p), u)
      BY <1>2, <2>1, JumpedIs, SMTT(30)
    <2>3. CASE Top(p).pid = -1
      <3> DEFINE m == SetTop(proc[p], u)
                 n == [m EXCEPT !.status = concstatus(Top(p).pst, proc[p].status)]
                 s == Loop(n)
      <3>1. proc' = [proc EXCEPT ![p] = s]
        BY <1>4, <2>3, Zenon DEF Xpipewait, Step, Next1, Piped
      <3> HIDE DEF u
      <3>2. Same(proc[p], m) /\ m.q = [proc[p].q EXCEPT ![Len(proc[p].q)] = u]
        <4>1. proc[p].q # <<>>
          BY <1>0, TopIs, ZenonT(30) DEF ShellOK
        <4> QED BY <1>2, <4>1, SetTopIs, ZenonT(30)
      <3> HIDE DEF m
      <3>3. Same(m, n) /\ n.q = m.q
        BY <3>2, Zenon DEF Same, IsProc, IsFcn, ProcFields
      <3> HIDE DEF n
      <3>4. Same(n, s) /\ s.q = n.q /\ s.mode \in Running
        BY <3>3, LoopIs, Zenon DEF Same
      <3> HIDE DEF s
      <3>5. Same(proc[p], s) /\ s.q = [proc[p].q EXCEPT ![Len(proc[p].q)] = u] /\ s.mode # "parse"
        BY <3>2, <3>3, <3>4, Zenon DEF Same, Running
      <3> QED BY <1>0, <1>1, <2>2, <3>1, <3>5, TopStep, ZenonT(30)
    <2>4. CASE Top(p).pid # -1
      <3>1. \E w, k : proc' = [proc EXCEPT ![p] = Waits(SetTop(proc[p], u), "wait", w, k)]
        BY <1>4, <2>4, Zenon DEF Xpipewait, Next1, Piped
      <3> HIDE DEF u
      <3> QED BY <1>0, <1>1, <2>2, <3>1, WaitStep, ZenonT(30)
    <2> QED BY <2>3, <2>4, Zenon
  <1>5. CASE ReadEnd(p)
    <2> DEFINE s == [proc[p] EXCEPT !.mode = "wait"]
    <2>1. proc' = [proc EXCEPT ![p] = s]
      BY <1>5, Zenon DEF ReadEnd
    <2>2. Same(proc[p], s) /\ s.q = proc[p].q /\ s.mode # "parse"
      BY <1>2, Zenon DEF Same, IsProc, IsFcn, ProcFields
    <2> HIDE DEF s
    <2> QED BY <1>0, <1>1, <2>1, <2>2, StayStep, ZenonT(30)
  <1>6. CASE \E z \in Pids : Waitfor(p, z)
    <2>1. PICK z \in Pids : Waitfor(p, z)
      BY <1>6, Zenon
    <2> DEFINE s == Collected(proc[p], z, <<proc[z].code>>)
    <2>2. z # p /\ proc[p].mode # "parse"
      BY <1>0, <2>1, Zenon DEF Waitfor, WaitModes
    <2>3. proc' = [proc EXCEPT ![z] = NoProc, ![p] = s]
      BY <2>1, <2>2, Zenon DEF Waitfor, FrameInv, IsFcn
    <2>4. ProcOK(prog, p, s)
      BY <1>0, <1>2, <2>2, CollectedKeeps, ZenonT(30) DEF FrameInv
    <2>5. ProcOK(prog, z, NoProc)
      BY NoProcIs, Zenon DEF ProcOK
    <2> HIDE DEF s
    <2> QED BY <1>1, <2>3, <2>4, <2>5, TwoStep, ZenonT(30)
  <1>7. CASE WaitforNone(p)
    <2> DEFINE m == Waited(proc[p])
    <2>1. proc' = [proc EXCEPT ![p] = Loop(m)]
      BY <1>7, Zenon DEF WaitforNone, Step
    <2>2. Same(proc[p], m) /\ m.q = proc[p].q
      BY <1>2, WaitedIs, Zenon
    <2> HIDE DEF m
    <2>3. Same(m, Loop(m)) /\ Loop(m).q = m.q /\ Loop(m).mode \in Running
      BY <2>2, LoopIs, Zenon DEF Same
    <2>4. Same(proc[p], Loop(m)) /\ Loop(m).q = proc[p].q /\ Loop(m).mode # "parse"
      BY <2>2, <2>3, Zenon DEF Same, Running
    <2> QED BY <1>0, <1>1, <2>1, <2>4, StayStep, ZenonT(30)
  <1> QED BY <1>3, <1>4, <1>5, <1>6, <1>7, Zenon

-----------------------------------------------------------------------------
(***************************************************************************)
(* The command loop, errors and notes.                                     *)
(***************************************************************************)
\* A command loop that has read up to line n.
LEMMA ReadingIs ==
    ASSUME NEW P \in Progs, NEW t, ThreadOK(P, t), NEW n \in Nat
    PROVE  ThreadOK(P, Reading(t, n)) /\ Alike(P, t, Reading(t, n))
  <1> DEFINE u == Reading(t, n)
  <1>1. /\ IsFcn(u, ThreadFields) /\ u.code = t.code /\ u.pc = t.pc /\ u.iflag = t.iflag
        /\ u.pid = t.pid /\ u.next = n /\ u.argv = t.argv /\ u.redir = t.redir
        /\ u.local = t.local
    BY Zenon DEF ThreadOK, IsFcn, ThreadFields, Reading
  <1> HIDE DEF u
  <1>2. ThreadOK(P, u) /\ Alike(P, t, u)
    BY <1>1, Zenon DEF ThreadOK, Alike, InChild
  <1> QED BY <1>2, Zenon DEF u

\* The operations of the command loop, and errors.
LEMMA LoopOps ==
    ASSUME Ordered, FrameInv, NEW p \in Pids, prog' = prog,
           \/ Xrdcmds(p) \/ Parsed(p) \/ EndOfFile(p) \/ SyntaxError(p) \/ Xerror(p)
    PROVE  FrameInv'
  <1>0. proc[p].st = "rc"
    BY Zenon DEF Xrdcmds, Parsed, EndOfFile, SyntaxError, Parsing, Xerror, CanFail, External, Simple, At
  <1>1. Budget /\ prog.errs \in Nat
    <2>1. errs \in Nat /\ prog.errs \in Nat
      BY ProgsAssumption, Zenon DEF FrameInv
    <2>2. errs' = errs \/ (errs > 0 /\ errs' = errs - 1)
      BY Zenon DEF Xrdcmds, Parsed, EndOfFile, SyntaxError, Xerror, Step
    <2> QED BY <2>1, <2>2 DEF Budget
  <1>2. /\ prog \in Progs /\ ThreadOK(prog, Top(p)) /\ IsProc(proc[p]) /\ ShellOK(prog, p, proc[p])
        /\ proc[p].q # <<>>
    BY <1>0, TopIs, Zenon DEF ShellOK
  <1>3. Parsing(p) => ~(Calm(prog) /\ p # Main)
    BY <1>2, Zenon DEF Parsing, ShellOK, ChildOK
  <1>4. CASE Xrdcmds(p)
    <2> DEFINE s == [proc[p] EXCEPT !.mode = "parse", !.intr = FALSE]
    <2>1. proc' = [proc EXCEPT ![p] = s]
      BY <1>4, Zenon DEF Xrdcmds
    <2>2. Same(proc[p], s) /\ s.q = proc[p].q
      BY <1>2, Zenon DEF Same, IsProc, IsFcn, ProcFields
    <2>3. Here(p).f = "Xrdcmds"
      BY <1>4, Zenon DEF Xrdcmds, At
    <2>4. Top(p).code = DOT
      BY <1>0, <2>3, TopIs, CodeIs, ZenonT(30)
    <2>5. ~(Calm(prog) /\ p # Main)
      <3> SUFFICES ASSUME Calm(prog), p # Main PROVE FALSE
        OBVIOUS
      <3>1. ChildOK(prog, proc[p])
        BY <1>2, Zenon DEF ShellOK
      <3>2. Len(proc[p].q) \in proc[p].base + 1 .. Len(proc[p].q)
        <4>1. Len(proc[p].q) \in Nat
          BY <1>0, TopIs, Zenon
        <4>2. proc[p].base \in Nat /\ Len(proc[p].q) > proc[p].base
          BY <1>2, <3>1, Zenon DEF ChildOK, IsProc
        <4> QED BY <4>1, <4>2
      <3>3. Top(p).code \in DOMAIN prog.code
        BY <1>0, <3>1, <3>2, TopIs, ZenonT(30) DEF ChildOK
      <3> QED BY <1>2, <2>4, <3>3, LinesAre, ZenonT(30)
    <2> HIDE DEF s
    <2> QED BY <1>0, <1>1, <2>1, <2>2, <2>5, StayStep, ZenonT(30)
  <1>5. CASE Parsed(p)
    <2> DEFINE n == Top(p).next + 1
               u == Reading(Top(p), n)
               x == SetTop(proc[p], u)
               m == [x EXCEPT !.ntrap = 0]
               t == start(n, 1, Top(p).local)
    <2>1. proc' = [proc EXCEPT ![p] = Loop(Push(m, t))] /\ Parsing(p) /\ Top(p).next < Len(prog.code)
      BY <1>5, Zenon DEF Parsed, Step, Reading
    <2>2. n \in Nat /\ n \in DOMAIN prog.code
      BY <1>2, <2>1, ProgsAssumption, SMTT(30) DEF ThreadOK
    <2> HIDE DEF n
    <2>3. ThreadOK(prog, u) /\ Alike(prog, Top(p), u)
      BY <1>2, <2>2, ReadingIs, ZenonT(30)
    <2> HIDE DEF u
    <2>4. Same(proc[p], x) /\ x.q = [proc[p].q EXCEPT ![Len(proc[p].q)] = u]
      BY <1>2, SetTopIs, Zenon
    <2> HIDE DEF x
    <2>5. Same(x, m) /\ m.q = x.q
      BY <2>4, ZenonT(30) DEF Same, IsProc, IsFcn, ProcFields
    <2> HIDE DEF m
    <2>6. Same(proc[p], m) /\ m.q = [proc[p].q EXCEPT ![Len(proc[p].q)] = u]
      BY <2>4, <2>5, Zenon DEF Same
    <2>7. ThreadOK(prog, t) /\ ~t.iflag /\ t.code \in DOMAIN prog.code
      <3> DEFINE f == [code |-> n, pc |-> 1]
      <3>1. f.code = n /\ f.pc = 1 /\ t = start(f.code, f.pc, Top(p).local)
        OBVIOUS
      <3> HIDE DEF f
      <3>2. WellMade(prog.code[n])
        BY <1>2, <2>2, LinesAre, ZenonT(30)
      <3>3. 1 \in DOMAIN prog.code[n]
        BY <3>2 DEF WellMade
      <3>4. FnOK(prog, f) /\ Shape(prog.code[f.code])[f.pc].local = 0
        <4>1. Shape(prog.code[n])[1] = [argv |-> 0, redir |-> 0, local |-> 0, child |-> FALSE]
          BY <3>2, Zenon DEF WellMade
        <4> QED BY <2>2, <3>1, <3>3, <4>1, SMTT(30) DEF FnOK
      <3>5. Top(p).local \in Int /\ Top(p).local >= 0
        <4>1. /\ Top(p).local \in Int /\ Top(p).local >= ShapeIn(prog, Top(p).code)[Top(p).pc].local
              /\ ShapeIn(prog, Top(p).code)[Top(p).pc].local \in Nat
          BY <1>0, <1>2, TopIs, Zenon DEF ThreadOK, Shapes
        <4> QED BY <4>1, SMTT(30)
      <3> HIDE DEF t
      <3> QED BY <1>2, <3>1, <3>4, <3>5, FnThreadIs, ZenonT(30)
    <2> HIDE DEF t
    <2> QED BY <1>0, <1>1, <1>3, <2>1, <2>3, <2>6, <2>7, CallStep, ZenonT(30)
  <1>6. CASE EndOfFile(p)
    <2>1. Parsing(p)
      BY <1>6, Zenon DEF EndOfFile
    <2>2. CASE Return(p, proc[p])
      BY <1>0, <1>1, <1>3, <2>1, <2>2, ReturnStep, ZenonT(30)
    <2>3. CASE ~Return(p, proc[p])
      <3>1. proc' = [proc EXCEPT ![p] = Loop(proc[p])]
        BY <1>6, <2>3, Zenon DEF EndOfFile
      <3>2. Same(proc[p], Loop(proc[p])) /\ Loop(proc[p]).q = proc[p].q
        BY <1>2, LoopIs, ZenonT(30)
      <3> QED BY <1>0, <1>1, <1>3, <2>1, <3>1, <3>2, StayStep, ZenonT(30)
    <2> QED BY <2>2, <2>3, Zenon
  <1>7. CASE SyntaxError(p)
    <2>1. Parsing(p)
      BY <1>7, ZenonT(30) DEF SyntaxError
    <2>2. CASE Return(p, proc[p])
      BY <1>0, <1>1, <1>3, <2>1, <2>2, ReturnStep, ZenonT(30)
    <2>3. CASE ~Return(p, proc[p])
      <3> DEFINE n == Top(p).next + 1
                 u == Reading(Top(p), n)
                 x == SetTop(proc[p], u)
                 s == Loop(x)
      <3>1. proc' = [proc EXCEPT ![p] = s]
        BY <1>7, <2>3, Zenon DEF SyntaxError, Reading
      <3>2. n \in Nat
        BY <1>2 DEF ThreadOK
      <3> HIDE DEF n
      <3>3. ThreadOK(prog, u) /\ Alike(prog, Top(p), u)
        BY <1>2, <3>2, ReadingIs, ZenonT(30)
      <3> HIDE DEF u
      <3>4. Same(proc[p], x) /\ x.q = [proc[p].q EXCEPT ![Len(proc[p].q)] = u]
        BY <1>2, SetTopIs, ZenonT(30)
      <3> HIDE DEF x
      <3>5. Same(x, s) /\ s.q = x.q
        BY <3>4, LoopIs, ZenonT(30) DEF Same
      <3> HIDE DEF s
      <3>6. Same(proc[p], s) /\ s.q = [proc[p].q EXCEPT ![Len(proc[p].q)] = u]
        BY <3>4, <3>5, ZenonT(30) DEF Same
      <3> QED BY <1>0, <1>1, <1>3, <2>1, <3>1, <3>3, <3>6, TopStep, ZenonT(30)
    <2> QED BY <2>2, <2>3, ZenonT(30)
  <1>8. CASE Xerror(p)
    <2>1. Unwind(p, [proc[p] EXCEPT !.status = <<TEXT>>]) /\ errs > 0
      BY <1>8, Zenon DEF Xerror
    <2>2. prog.errs > 0
      BY <1>1, <2>1 DEF FrameInv
    <2>3. Like(p, [proc[p] EXCEPT !.status = <<TEXT>>])
      BY <1>0, FieldsLike, Zenon
    <2> QED BY <1>0, <1>1, <2>1, <2>2, <2>3, UnwindStep, ZenonT(30)
  <1> QED BY <1>4, <1>5, <1>6, <1>7, <1>8, ZenonT(30)

\* A note is counted, and may end the system call the shell is blocked in.
LEMMA NoteOp ==
    ASSUME FrameInv, NEW p \in Pids, NEW i, prog' = prog, Note(p, i)
    PROVE  FrameInv'
  <1> DEFINE n == Noted(proc[p], i)
  <1>1. proc[p].st = "rc" /\ errs' = errs
    BY Zenon DEF Note
  <1>2. IsProc(proc[p]) /\ Budget
    BY <1>1, TopIs DEF Budget, FrameInv
  <1>3. Same(proc[p], n) /\ n.q = proc[p].q /\ n.mode = proc[p].mode
    BY <1>2, ZenonT(30) DEF Noted, Same, IsProc, IsFcn, ProcFields
  <1>4. Calm(prog) /\ p # Main => proc[p].mode # "parse"
    BY <1>1, TopIs, Zenon DEF ShellOK, ChildOK
  <1> DEFINE w == [n EXCEPT !.mode = "wait"]
             s == Interrupted(p, n)
  <1>5. proc' = [proc EXCEPT ![p] = n] \/ proc' = [proc EXCEPT ![p] = s]
    BY Zenon DEF Note
  <1>6. s \in {Waited(n), w, Loop(n), n}
    BY Zenon DEF Interrupted
  <1> HIDE DEF n
  <1>7. Same(n, w) /\ w.q = n.q /\ w.mode = "wait"
    BY <1>3, Zenon DEF Same, IsProc, IsFcn, ProcFields
  <1> HIDE DEF w, s
  <1>8. Same(n, s) /\ s.q = n.q /\ (s.mode # "parse" \/ s = n)
    BY <1>3, <1>6, <1>7, LoopIs, WaitedIs, SMTT(30) DEF Same, Running
  <1>9. Same(proc[p], s) /\ s.q = proc[p].q /\ (Calm(prog) /\ p # Main => s.mode # "parse")
    BY <1>3, <1>4, <1>8, Zenon DEF Same
  <1>10. Calm(prog) /\ p # Main => n.mode # "parse"
    BY <1>3, <1>4, Zenon
  <1>11. CASE proc' = [proc EXCEPT ![p] = n]
    BY <1>1, <1>2, <1>3, <1>10, <1>11, StayStep, ZenonT(30)
  <1>12. CASE proc' = [proc EXCEPT ![p] = s]
    BY <1>1, <1>2, <1>9, <1>12, StayStep, ZenonT(30)
  <1> QED BY <1>5, <1>11, <1>12, Zenon

\* A pending note is taken: its handler runs, or the shell ends or goes back to its terminal.
LEMMA TrapOp ==
    ASSUME Ordered, FrameInv, NEW p \in Pids, prog' = prog, dotrap(p)
    PROVE  FrameInv'
  <1> DEFINE r == proc[p]
             S == {i \in Sigs : i >= r.sig /\ r.trap[i] > 0}
             t == [r EXCEPT !.sig = Min(S), !.trap[Min(S)] = @ - 1, !.ntrap = @ - 1]
             f == signame(Min(S))
  <1>1. r.st = "rc" /\ r.mode = "trap" /\ errs' = errs
    BY Zenon DEF dotrap
  <1>2. IsProc(r) /\ Budget /\ prog \in Progs
    BY <1>1, TopIs DEF Budget, FrameInv
  <1>3. \/ proc' = [proc EXCEPT ![p] = Loop(r)] \/ Terminate(p, r.status)
        \/ p = Main /\ r.fns[f] # NoFn /\ proc' = [proc EXCEPT ![p] = Handler(t, f)]
        \/ /\ p = Main /\ Uncover(r.q) # <<>>
           /\ proc' = [proc EXCEPT ![p] = [t EXCEPT !.q = Uncover(@)]]
    BY Zenon DEF dotrap
  <1>4. Same(r, t) /\ t.q = r.q /\ t.mode = "trap"
    BY <1>1, <1>2, Zenon DEF Same, IsProc, IsFcn, ProcFields
  <1>5. f \in FnNames
    BY FnNamesAssumption, Zenon DEF signame
  <1> HIDE DEF t, f
  <1>6. Like(p, t)
    BY <1>1, <1>4, SelfLike, ZenonT(30) DEF Like, Same
  <1>7. CASE proc' = [proc EXCEPT ![p] = Loop(r)]
    <2>1. Same(r, Loop(r)) /\ Loop(r).q = r.q /\ Loop(r).mode \in Running
      BY <1>2, LoopIs, Zenon
    <2>2. Loop(r).mode # "parse"
      BY <2>1, Zenon DEF Running
    <2> QED BY <1>1, <1>2, <1>7, <2>1, <2>2, StayStep, ZenonT(30)
  <1>8. CASE Terminate(p, r.status)
    BY <1>2, <1>8, EndedStep, Zenon DEF Terminate
  <1>9. CASE r.fns[f] # NoFn /\ proc' = [proc EXCEPT ![p] = Handler(t, f)]
    <2> DEFINE u == start(r.fns[f].code, r.fns[f].pc, 1)
    <2>1. FnOK(prog, r.fns[f])
      BY <1>1, <1>5, <1>9, TopIs, ZenonT(30) DEF ShellOK
    <2>2. ThreadOK(prog, u) /\ u.code \in DOMAIN prog.code /\ ~u.iflag
      <3>1. PICK l \in Int : l = 1
        OBVIOUS
      <3> QED BY <1>2, <2>1, <3>1, FnThreadIs, SMTT(30)
    <2>3. Handler(t, f) = Push(t, u)
      BY <1>4, Zenon DEF Handler, Same
    <2> HIDE DEF u
    <2> QED BY <1>1, <1>2, <1>4, <1>6, <1>9, <2>2, <2>3, PushStep, ZenonT(30)
  <1>10. CASE p = Main /\ Uncover(r.q) # <<>> /\ proc' = [proc EXCEPT ![p] = [t EXCEPT !.q = Uncover(@)]]
    <2> DEFINE s == [t EXCEPT !.q = Uncover(@)]
    <2>1. IsProc(t)
      BY <1>4, Zenon DEF Same
    <2>2. PICK n \in 0 .. Len(t.q) : /\ Uncover(t.q) = <<>> <=> n = 0
                                     /\ Same(t, s) /\ s.q = SubSeq(t.q, 1, n) /\ s.mode = t.mode
      BY <2>1, UncoveredIs, Zenon
    <2> HIDE DEF s
    <2>3. proc' = [proc EXCEPT ![p] = s]
      BY <1>10, Zenon DEF s
    <2>4. n \in 1 .. Len(proc[p].q)
      BY <1>4, <1>10, <2>1, <2>2, SeqIs, SMTT(30) DEF IsProc
    <2> QED BY <1>1, <1>2, <1>4, <1>6, <1>10, <2>2, <2>3, <2>4, PopStep, ZenonT(30)
  <1> QED BY <1>3, <1>7, <1>8, <1>9, <1>10, ZenonT(30)

-----------------------------------------------------------------------------
(***************************************************************************)
(* Operations that fork.                                                   *)
(***************************************************************************)
\* A record with another parent.
LEMMA ParentIs ==
    ASSUME NEW P, NEW z, NEW r, ProcOK(P, z, r), NEW n
    PROVE  ProcOK(P, z, [r EXCEPT !.par = n])
  <1> DEFINE s == [r EXCEPT !.par = n]
  <1>1. IsProc(r)
    BY Zenon DEF ProcOK
  <1>2. /\ IsProc(s) /\ s.st = r.st /\ s.q = r.q /\ s.fns = r.fns /\ s.base = r.base
        /\ s.mode = r.mode
    BY <1>1, Zenon DEF IsProc, IsFcn, ProcFields
  <1> HIDE DEF s
  <1>3. ShellOK(P, z, r) => ShellOK(P, z, s)
    BY <1>2, Zenon DEF ShellOK, ChildOK
  <1>4. ProcOK(P, z, s)
    BY <1>2, <1>3, Zenon DEF ProcOK
  <1> QED BY <1>4, Zenon DEF s

\* fork(), with what the two processes go on with.
LEMMA ForkStep ==
    ASSUME Ordered, FrameInv, NEW p \in Pids, prog' = prog, CanFork, NEW c, NEW s, Fork(p, c, s),
           ProcOK(prog, p, s), ProcOK(prog, NewPid, c)
    PROVE  FrameInv'
  <1> DEFINE z == NewPid
             d == [c EXCEPT !.par = p]
  <1>1. z \in Pids
    BY NewPidIs, Zenon
  <1>2. ProcOK(prog, z, d)
    BY ParentIs, Zenon
  <1>3. proc' = [proc EXCEPT ![p] = s, ![z] = d] /\ Budget
    BY DEF Fork, Budget, FrameInv
  <1> HIDE DEF z, d
  <1> QED BY <1>1, <1>2, <1>3, TwoStep, ZenonT(30)

\* Where an operation that forks takes the child.
Forks == {"Xasync", "Xsubshell", "Xpipefd", "Xpipe", "Xbackq"}
Inherits(f) == IF f \in {"Xasync", "Xsubshell"} THEN 0 ELSE 1

\* The code of the child begins after the operation and ends in Xexit.
LEMMA ForkCellIs ==
    ASSUME NEW P \in Progs, NEW c \in CodeNames(P), NEW a \in DOMAIN CodeIn(P, c),
           CodeIn(P, c)[a].f \in Forks
    PROVE  /\ Starts(CodeIn(P, c), ShapeIn(P, c), a + 1, Inherits(CodeIn(P, c)[a].f),
                     ShapeIn(P, c)[a].local, TRUE)
           /\ c \in DOMAIN P.code
           /\ CodeIn(P, c)[a].f = "Xbackq" /\ Calm(P) /\ P.errs > 0 => ~P.iflag
  <1>1. Agrees(CodeIn(P, c), ShapeIn(P, c), a)
    BY CodeIs, Zenon
  <1>2. c # BOOT
    BY OwnCodeIs, Zenon DEF CodeIn, Forks
  <1>3. c # DOT
    BY OwnCodeIs DEF CodeIn, BOOT, DOT, Forks
  <1>4. c \in DOMAIN P.code
    BY <1>2, <1>3, Zenon DEF CodeNames
  <1>5. CodeIn(P, c) = P.code[c]
    BY <1>4, LinesAre, ZenonT(30)
  <1>6. CodeIn(P, c)[a].f = "Xbackq" /\ Calm(P) /\ P.errs > 0 => ~P.iflag
    BY <1>4, <1>5, Zenon DEF Calm
  <1>7. Starts(CodeIn(P, c), ShapeIn(P, c), a + 1, Inherits(CodeIn(P, c)[a].f),
               ShapeIn(P, c)[a].local, TRUE)
    BY <1>1, Zenon DEF Agrees, Forks, Inherits
  <1> QED BY <1>4, <1>6, <1>7, ZenonT(30)

\* The thread of the child.
LEMMA ChildIs ==
    ASSUME FrameInv, NEW p \in Pids, proc[p].st = "rc", Here(p).f \in Forks,
           NEW j, j = Inherits(Here(p).f)
    PROVE  /\ ThreadOK(prog, Child(p, j)) /\ Child(p, j).code \in DOMAIN prog.code
           /\ ~Child(p, j).iflag /\ InChild(prog, Child(p, j)) /\ Child(p, j).pid = 0
  <1> DEFINE c == Top(p).code
             b == Next1(p)
             l == Top(p).local
             k == ShapeIn(prog, c)[Top(p).pc].local
  <1>1. /\ prog \in Progs /\ c \in CodeNames(prog) /\ Top(p).pc \in DOMAIN CodeIn(prog, c)
        /\ Here(p) = CodeIn(prog, c)[Top(p).pc] /\ ThreadOK(prog, Top(p))
        /\ ShapeIn(prog, c)[Top(p).pc] \in Shapes
    BY TopIs, Zenon
  <1>2. Starts(CodeIn(prog, c), ShapeIn(prog, c), b, j, k, TRUE) /\ c \in DOMAIN prog.code
    BY <1>1, ForkCellIs, ZenonT(30) DEF Next1
  <1>3. j \in Nat /\ k \in Int /\ l \in Int /\ k <= l
    BY <1>1 DEF Inherits, ThreadOK, Shapes
  <1>4. Child(p, j) = Started(c, b, l, j)
    BY Zenon DEF Child, Started
  <1> HIDE DEF b, c, l, k
  <1>5. /\ ThreadOK(prog, Started(c, b, l, j)) /\ Started(c, b, l, j).code = c
        /\ ~Started(c, b, l, j).iflag /\ InChild(prog, Started(c, b, l, j)) = TRUE
        /\ Started(c, b, l, j).pid = 0
    BY <1>1, <1>2, <1>3, StartIs, ZenonT(30)
  <1> QED BY <1>2, <1>4, <1>5, Zenon

\* A child that forgets the threads under it.
LEMMA AloneIs ==
    ASSUME FrameInv, NEW p \in Pids, proc[p].st = "rc", Here(p).f \in Forks,
           NEW j, j = Inherits(Here(p).f), NEW z
    PROVE  ProcOK(prog, z, Alone(p, j)) /\ ProcOK(prog, z, [Alone(p, j) EXCEPT !.to = 0])
  <1> DEFINE r == proc[p]
             u == Child(p, j)
             m == [r EXCEPT !.q = <<u>>, !.base = 0]
             a == Loop(m)
             b == [a EXCEPT !.to = 0]
  <1>1. IsProc(r) /\ ShellOK(prog, p, r)
    BY TopIs, ZenonT(30)
  <1>2. /\ ThreadOK(prog, u) /\ u.code \in DOMAIN prog.code /\ ~u.iflag /\ InChild(prog, u)
    BY ChildIs, Zenon
  <1> HIDE DEF u
  <1>3. IsSeq(<<u>>) /\ Len(<<u>>) = 1 /\ <<u>>[1] = u /\ <<u>> # <<>>
    <2>1. <<u>> \in Seq({u})
      OBVIOUS
    <2> QED BY <2>1, Zenon DEF IsSeq
  <1>4. IsProc(m) /\ m.st = r.st /\ m.q = <<u>> /\ m.base = 0 /\ m.fns = r.fns
    <2>1. PICK q : q = <<u>>
      BY Zenon
    <2>2. PICK n \in Nat : n = 0
      OBVIOUS
    <2>3. LET s == [r EXCEPT !.q = q, !.base = n]
          IN  IsProc(s) /\ s.st = r.st /\ s.q = q /\ s.base = n /\ s.fns = r.fns
      BY <1>1, <1>3, <2>1, ZenonT(30) DEF IsProc, IsFcn, ProcFields
    <2> QED BY <2>1, <2>2, <2>3, ZenonT(30)
  <1> HIDE DEF m
  <1>5. Same(m, a) /\ a.q = m.q /\ a.mode \in Running
    BY <1>4, LoopIs, ZenonT(30)
  <1> HIDE DEF a
  <1>6. Same(a, b) /\ b.q = a.q /\ b.mode = a.mode
    BY <1>5, Zenon DEF Same, IsProc, IsFcn, ProcFields
  <1> HIDE DEF b
  <1>7. ASSUME NEW s \in {a, b}  PROVE ProcOK(prog, z, s)
    <2>1. /\ IsProc(s) /\ s.q = <<u>> /\ s.base = 0 /\ s.fns = r.fns /\ s.mode # "parse"
      BY <1>4, <1>5, <1>6, ZenonT(30) DEF Same, Running
    <2>2. \A i \in 1 .. Len(s.q) : s.q[i] = u
      BY <1>3, <2>1
    <2>3. /\ Len(s.q) > s.base /\ s.q[s.base + 1] = u
          /\ \A i \in s.base + 1 .. Len(s.q) : s.q[i] = u
      BY <1>3, <2>1
    <2>4. ChildOK(prog, s)
      BY <1>2, <2>1, <2>2, <2>3, ZenonT(30) DEF ChildOK, InChild
    <2>5. ShellOK(prog, z, s)
      BY <1>1, <1>2, <1>3, <2>1, <2>2, <2>4, ZenonT(30) DEF ShellOK
    <2> QED BY <2>1, <2>5, ZenonT(30) DEF ProcOK
  <1> QED BY <1>7, Zenon DEF Alone, a, b, m, u

\* It is a process that is right.
LEMMA KeptIs ==
    ASSUME FrameInv, NEW p \in Pids, proc[p].st = "rc", Here(p).f = "Xbackq", NEW z
    PROVE  ProcOK(prog, z, Loop(Kept(proc[p], Child(p, 1), p)))
  <1> DEFINE r == proc[p]
             u == Child(p, 1)
             q == Append(r.q, u)
             n == Len(r.q)
             m == Kept(r, u, p)
             s == Loop(m)
  <1>1. IsProc(r) /\ ShellOK(prog, p, r) /\ IsSeq(r.q) /\ n \in Nat
    BY TopIs, Zenon
  <1>2. /\ ThreadOK(prog, u) /\ u.code \in DOMAIN prog.code /\ ~u.iflag /\ InChild(prog, u)
    <2>1. Here(p).f \in Forks /\ 1 = Inherits(Here(p).f)
      BY Zenon DEF Forks, Inherits
    <2> QED BY <2>1, ChildIs, ZenonT(30)
  <1>3. Calm(prog) /\ prog.errs > 0 => ~prog.iflag
    <2>1. /\ prog \in Progs /\ Top(p).code \in CodeNames(prog)
          /\ Top(p).pc \in DOMAIN CodeIn(prog, Top(p).code)
          /\ Here(p) = CodeIn(prog, Top(p).code)[Top(p).pc]
      BY TopIs, Zenon
    <2> QED BY <2>1, ForkCellIs, Zenon DEF Forks
  <1> HIDE DEF u
  <1>4. /\ IsSeq(q) /\ q # <<>> /\ Len(q) = n + 1 /\ q[n + 1] = u
        /\ \A i \in 1 .. n : q[i] = r.q[i]
    BY <1>1, AppendIs, ZenonT(30)
  <1>5. IsProc(m) /\ m.st = "rc" /\ m.q = q /\ m.base = n /\ m.fns = r.fns
    BY <1>1, <1>4, ZenonT(30) DEF Kept, Push, IsProc, IsFcn, ProcFields
  <1> HIDE DEF m, q, n
  <1>6. Same(m, s) /\ s.q = m.q /\ s.mode \in Running
    BY <1>5, LoopIs, ZenonT(30)
  <1> HIDE DEF s
  <1>7. IsProc(s) /\ s.q = q /\ s.base = n /\ s.fns = r.fns /\ s.mode # "parse"
    BY <1>5, <1>6, Zenon DEF Same, Running
  <1>8. \A i \in 1 .. Len(s.q) : s.q[i] = u \/ (i \in 1 .. n /\ s.q[i] = r.q[i])
    BY <1>1, <1>4, <1>7, SMTT(30)
  <1>9. \A i \in 1 .. n : ThreadOK(prog, r.q[i]) /\ (Calm(prog) /\ r.q[i].iflag => prog.iflag)
    BY <1>1, Zenon DEF ShellOK, n
  <1>10. /\ Len(s.q) > s.base /\ s.q[s.base + 1] = u
         /\ \A i \in s.base + 1 .. Len(s.q) : s.q[i] = u
    BY <1>1, <1>4, <1>7, SMTT(30)
  <1>11. Calm(prog) => ChildOK(prog, s)
    BY <1>2, <1>3, <1>7, <1>8, <1>9, <1>10, ZenonT(30) DEF ChildOK, InChild
  <1>12. ShellOK(prog, z, s)
    BY <1>1, <1>2, <1>4, <1>7, <1>8, <1>9, <1>11, ZenonT(30) DEF ShellOK
  <1>13. ProcOK(prog, z, s)
    BY <1>7, <1>12, ZenonT(30) DEF ProcOK
  <1> QED BY <1>13, Zenon DEF s, m, u

\* Every fork leaves two processes that are right.
LEMMA ForkOps ==
    ASSUME Ordered, FrameInv, NEW p \in Pids, prog' = prog,
           \/ SimpleFork(p) \/ Xasync(p) \/ Xsubshell(p) \/ Xpipefd(p) \/ Xpipe(p) \/ Xbackq(p)
    PROVE  FrameInv'
  <1> DEFINE r == proc[p]
             c == Top(p).code
             a == Top(p).pc
             z == NewPid
  <1>0. r.st = "rc" /\ CanFork /\ errs' = errs
    BY Zenon DEF SimpleFork, Xasync, Xsubshell, Xpipefd, Xpipe, Xbackq, External, Simple, At, Fork
  <1>1. Budget /\ prog \in Progs /\ ThreadOK(prog, Top(p)) /\ IsProc(r) /\ r.q # <<>>
    <2>1. errs \in Nat
      BY Zenon DEF FrameInv
    <2>2. Budget
      BY <1>0, <2>1 DEF Budget
    <2>3. prog \in Progs /\ ThreadOK(prog, Top(p)) /\ IsProc(r) /\ ShellOK(prog, p, r)
      BY <1>0, TopIs, ZenonT(30)
    <2> QED BY <2>2, <2>3, ZenonT(30) DEF ShellOK
  <1>2. Agrees(CodeIn(prog, c), ShapeIn(prog, c), a) /\ Here(p) = CodeIn(prog, c)[a]
    BY <1>0, TopIs, Zenon
  <1> HIDE DEF c, a
  <1>3. z \in Pids /\ z \in Int
    <2>1. z \in Pids
      BY <1>0, NewPidIs, Zenon
    <2> HIDE DEF z
    <2> QED BY <2>1, PidsAssumption
  <1> HIDE DEF z
  <1>4. CASE SimpleFork(p)
    <2> DEFINE b == Next1(p)
               u == Popped(Top(p), b)
               s == Waits(SetTop(r, u), "simple", z, <<>>)
               d == Exec(r, Here(p).c)
    <2>1. Fork(p, d, s) /\ Here(p).f = "Xsimple"
      BY <1>4, Zenon DEF SimpleFork, External, Simple, At, Popped, z
    <2>2. Leads(CodeIn(prog, c), ShapeIn(prog, c), a, b, -1, 0, 0)
      BY <1>2, <2>1, ZenonT(30) DEF Agrees, Next1, a
    <2> HIDE DEF b
    <2>3. ThreadOK(prog, u) /\ Alike(prog, Top(p), u)
      BY <1>1, <2>2, PoppedIs, ZenonT(30) DEF c, a
    <2> HIDE DEF u
    <2>4. ProcOK(prog, p, s)
      BY <1>0, <1>1, <2>3, WaitStep, ZenonT(30)
    <2>5. ProcOK(prog, NewPid, d)
      BY ExecIs, Zenon DEF ProcOK
    <2> QED BY <1>0, <2>1, <2>4, <2>5, ForkStep, ZenonT(30)
  <1>5. CASE Xasync(p) \/ Xsubshell(p)
    <2> DEFINE b == Here(p).a
               u == Jumped(Top(p), b)
               m == SetTop(r, u)
               n == [m EXCEPT !.apid = z]
               w == Waits(m, "wait", z, <<>>)
    <2>1. Here(p).f \in {"Xasync", "Xsubshell"}
      BY <1>5, Zenon DEF Xasync, Xsubshell, At
    <2>2. Fork(p, Alone(p, 0), Loop(n)) \/ Fork(p, Alone(p, 0), w)
      BY <1>5, Zenon DEF Xasync, Xsubshell, Behind, Jumped, z
    <2>3. Leads(CodeIn(prog, c), ShapeIn(prog, c), a, b, 0, 0, 0)
      BY <1>2, <2>1, ZenonT(30) DEF Agrees
    <2> HIDE DEF b
    <2>4. ThreadOK(prog, u) /\ Alike(prog, Top(p), u)
      BY <1>1, <1>3, <2>3, JumpedIs, ZenonT(30) DEF c, a
    <2> HIDE DEF u
    <2>5. ProcOK(prog, p, w)
      BY <1>0, <1>1, <2>4, WaitStep, ZenonT(30)
    <2>6. Same(r, m) /\ m.q = [r.q EXCEPT ![Len(r.q)] = u]
      BY <1>1, SetTopIs, ZenonT(30)
    <2> HIDE DEF m, w
    <2>7. IsProc(n) /\ n.st = m.st /\ n.base = m.base /\ n.fns = m.fns /\ n.q = m.q
      BY <2>6, ZenonT(30) DEF Same, IsProc, IsFcn, ProcFields
    <2> HIDE DEF n
    <2>8. Same(n, Loop(n)) /\ Loop(n).q = n.q /\ Loop(n).mode \in Running
      BY <2>7, LoopIs, Zenon
    <2>9. Keeps(prog, p, r, Loop(n))
      <3>1. IsProc(Loop(n)) /\ Loop(n).base = r.base /\ Loop(n).fns = r.fns
        BY <2>6, <2>7, <2>8, ZenonT(30) DEF Same
      <3>2. IsProc(r) /\ r.st = "rc" /\ ShellOK(prog, p, r)
        BY <1>0, TopIs, ZenonT(30)
      <3>3. Loop(n).mode # "parse"
        BY <2>8, Zenon DEF Running
      <3> QED BY <3>1, <3>2, <3>3, ZenonT(30) DEF Keeps, ShellOK
    <2>10. ShellOK(prog, p, Loop(n))
      <3>1. Loop(n).q = [r.q EXCEPT ![Len(r.q)] = u] /\ Top(p) = r.q[Len(r.q)]
        BY <2>6, <2>7, <2>8, ZenonT(30) DEF Top
      <3> QED BY <1>1, <2>4, <2>9, <3>1, TopKeeps, ZenonT(30)
    <2>11. ProcOK(prog, p, Loop(n))
      BY <2>9, <2>10, ZenonT(30) DEF ProcOK, Keeps
    <2>12. ProcOK(prog, NewPid, Alone(p, 0))
      <3>1. Here(p).f \in Forks /\ 0 = Inherits(Here(p).f)
        BY <2>1, Zenon DEF Forks, Inherits
      <3> QED BY <1>0, <3>1, AloneIs, ZenonT(30)
    <2> QED BY <1>0, <2>2, <2>5, <2>11, <2>12, ForkStep, ZenonT(30)
  <1>6. CASE Xpipefd(p)
    <2> DEFINE b == Here(p).a
               u == Opened(Top(p), b)
               m == SetTop(r, u)
               d == [Alone(p, 1) EXCEPT !.to = 0]
    <2>1. Fork(p, d, Loop(m)) /\ Here(p).f = "Xpipefd"
      BY <1>6, Zenon DEF Xpipefd, At, Opened
    <2>2. Leads(CodeIn(prog, c), ShapeIn(prog, c), a, b, 0, 1, 0)
      BY <1>2, <2>1, ZenonT(30) DEF Agrees
    <2> HIDE DEF b
    <2>3. ThreadOK(prog, u) /\ Alike(prog, Top(p), u)
      BY <1>1, <2>2, OpenedIs, ZenonT(30) DEF c, a
    <2> HIDE DEF u
    <2>4. Same(r, m) /\ m.q = [r.q EXCEPT ![Len(r.q)] = u]
      BY <1>1, SetTopIs, ZenonT(30)
    <2> HIDE DEF m
    <2>5. Same(m, Loop(m)) /\ Loop(m).q = m.q /\ Loop(m).mode \in Running
      BY <2>4, LoopIs, ZenonT(30) DEF Same
    <2>6. Same(r, Loop(m)) /\ Loop(m).q = [r.q EXCEPT ![Len(r.q)] = u] /\ Loop(m).mode # "parse"
      BY <2>4, <2>5, ZenonT(30) DEF Same, Running
    <2>7. ProcOK(prog, p, Loop(m))
      BY <1>0, <1>1, <2>3, <2>6, TopStep, ZenonT(30)
    <2>8. ProcOK(prog, NewPid, d)
      <3>1. Here(p).f \in Forks /\ 1 = Inherits(Here(p).f)
        BY <2>1, Zenon DEF Forks, Inherits
      <3> QED BY <1>0, <3>1, AloneIs, ZenonT(30)
    <2> QED BY <1>0, <2>1, <2>7, <2>8, ForkStep, ZenonT(30)
  <1>7. CASE Xpipe(p)
    <2> DEFINE b == Here(p).b
               e == Here(p).a
               l == Top(p).local
               u == Piped(Top(p), b, z)
               m == SetTop(r, u)
               t == Started(c, e, l, 1)
               d == [Alone(p, 1) EXCEPT !.to = 0]
    <2>1. Fork(p, d, Loop(Push(m, t))) /\ Here(p).f = "Xpipe"
      BY <1>7, Zenon DEF Xpipe, At, Piped, Started, c, z
    <2>2. /\ Leads(CodeIn(prog, c), ShapeIn(prog, c), a, b, 0, 0, 0)
          /\ Starts(CodeIn(prog, c), ShapeIn(prog, c), e, 1, ShapeIn(prog, c)[a].local, FALSE)
      BY <1>2, <2>1, ZenonT(30) DEF Agrees
    <2>3. /\ c \in CodeNames(prog) /\ c \in DOMAIN prog.code
          /\ ShapeIn(prog, c)[a].local \in Int /\ l \in Int /\ ShapeIn(prog, c)[a].local <= l
      <3>1. /\ c \in CodeNames(prog) /\ a \in DOMAIN CodeIn(prog, c)
            /\ ShapeIn(prog, c)[a] \in Shapes
        BY <1>0, TopIs, ZenonT(30) DEF c, a
      <3>2. c \in DOMAIN prog.code
        BY <1>1, <1>2, <2>1, <3>1, ForkCellIs, ZenonT(30) DEF Forks
      <3> QED BY <1>1, <3>1, <3>2, SMTT(30) DEF Shapes, ThreadOK, c, a
    <2> HIDE DEF b, e, l
    <2>4. ThreadOK(prog, u) /\ Alike(prog, Top(p), u)
      BY <1>1, <1>3, <2>2, JumpedIs, ZenonT(30) DEF c, a
    <2>5. ThreadOK(prog, t) /\ t.code = c /\ ~t.iflag
      <3>1. PICK j \in Nat : j = 1
        OBVIOUS
      <3> DEFINE k == ShapeIn(prog, c)[a].local
      <3>2. Starts(CodeIn(prog, c), ShapeIn(prog, c), e, j, k, FALSE) /\ k \in Int /\ k <= l
        BY <2>2, <2>3, <3>1, ZenonT(30)
      <3>3. t = Started(c, e, l, j)
        BY <3>1, Zenon
      <3> HIDE DEF k, t
      <3>4. ASSUME NEW f \in BOOLEAN, Starts(CodeIn(prog, c), ShapeIn(prog, c), e, j, k, f)
            PROVE  /\ ThreadOK(prog, Started(c, e, l, j)) /\ Started(c, e, l, j).code = c
                   /\ ~Started(c, e, l, j).iflag
        <4>1. /\ prog \in Progs /\ c \in CodeNames(prog) /\ j \in Nat /\ k \in Int
              /\ l \in Int /\ k <= l
          BY <1>1, <2>3, <3>2, ZenonT(30)
        <4> QED BY <3>4, <4>1, StartIs, SMTT(30)
      <3>5. /\ ThreadOK(prog, Started(c, e, l, j)) /\ Started(c, e, l, j).code = c
            /\ ~Started(c, e, l, j).iflag
        BY <3>2, <3>4, ZenonT(30)
      <3> QED BY <3>3, <3>5, ZenonT(30)
    <2> HIDE DEF u, t
    <2>6. Same(r, m) /\ m.q = [r.q EXCEPT ![Len(r.q)] = u] /\ m.mode = r.mode
      BY <1>1, SetTopIs, ZenonT(30)
    <2>7. r.mode # "parse"
      BY <1>7, Zenon DEF Xpipe, At
    <2> HIDE DEF m
    <2>8. ProcOK(prog, p, Loop(Push(m, t)))
      BY <1>0, <1>1, <2>3, <2>4, <2>5, <2>6, <2>7, CallStep, ZenonT(30)
    <2>9. ProcOK(prog, NewPid, d)
      <3>1. Here(p).f \in Forks /\ 1 = Inherits(Here(p).f)
        BY <2>1, Zenon DEF Forks, Inherits
      <3> QED BY <1>0, <3>1, AloneIs, ZenonT(30)
    <2> QED BY <1>0, <2>1, <2>8, <2>9, ForkStep, ZenonT(30)
  <1>8. CASE Xbackq(p)
    <2> DEFINE b == Here(p).a
               u == Popped(Top(p), b)
               s == Waits(SetTop(r, u), "read", z, <<>>)
               d == Loop(Kept(r, Child(p, 1), p))
    <2>1. Fork(p, d, s) /\ Here(p).f = "Xbackq"
      BY <1>8, Zenon DEF Xbackq, At, Popped, Kept, z
    <2>2. Leads(CodeIn(prog, c), ShapeIn(prog, c), a, b, -1, 0, 0)
      BY <1>2, <2>1, ZenonT(30) DEF Agrees
    <2> HIDE DEF b
    <2>3. ThreadOK(prog, u) /\ Alike(prog, Top(p), u)
      BY <1>1, <2>2, PoppedIs, Zenon DEF c, a
    <2> HIDE DEF u
    <2>4. ProcOK(prog, p, s)
      BY <1>0, <1>1, <2>3, WaitStep, ZenonT(30)
    <2>5. ProcOK(prog, NewPid, d)
      BY <1>0, <2>1, KeptIs, ZenonT(30)
    <2> QED BY <1>0, <2>1, <2>4, <2>5, ForkStep, ZenonT(30)
  <1> QED BY <1>4, <1>5, <1>6, <1>7, <1>8, ZenonT(30)

-----------------------------------------------------------------------------
(***************************************************************************)
(* The invariant holds, and what follows from it.                          *)
(***************************************************************************)
\* main() leaves the shell at the start of its command loop.
LEMMA FrameInit == Init => FrameInv
  <1> SUFFICES ASSUME Init PROVE FrameInv
    OBVIOUS
  <1> DEFINE t == [start(BOOT, 1, 0) EXCEPT !.iflag = prog.iflag]
             u == [start(DOT, 1, 0) EXCEPT !.argv = 2, !.redir = 1, !.iflag = prog.iflag]
             q == <<t, u>>
             r == [NoProc EXCEPT !.st = "rc", !.status = <<0>>, !.q = q]
  <1>1. /\ prog \in Progs /\ proc = [p \in Pids |-> IF p # Main THEN NoProc ELSE r]
        /\ errs = prog.errs
    BY Zenon DEF Init
  <1>2. prog.errs \in Nat /\ prog.iflag \in BOOLEAN
    BY <1>1, ProgsAssumption, Zenon
  <1>3. /\ IsFcn(t, ThreadFields) /\ t.code = BOOT /\ t.pc = 1 /\ t.iflag = prog.iflag
        /\ t.pid = 0 /\ t.next = 0 /\ t.argv = 0 /\ t.redir = 0 /\ t.local = 0
    BY Zenon DEF start, ThreadFields, IsFcn
  <1>4. /\ IsFcn(u, ThreadFields) /\ u.code = DOT /\ u.pc = 1 /\ u.iflag = prog.iflag
        /\ u.pid = 0 /\ u.next = 0 /\ u.argv = 2 /\ u.redir = 1 /\ u.local = 0
    BY ZenonT(30) DEF start, ThreadFields, IsFcn
  <1> HIDE DEF t, u
  <1>5. ThreadOK(prog, t)
    <2>1. 1 \in DOMAIN CodeIn(prog, BOOT) /\ ShapeIn(prog, BOOT)[1] = Held(0, 0, 0)
      BY OwnCodeIs, ZenonT(30) DEF CodeIn, ShapeIn
    <2> QED BY <1>2, <1>3, <2>1, SMTT(30) DEF ThreadOK, Held
  <1>6. ThreadOK(prog, u)
    <2>1. 1 \in DOMAIN CodeIn(prog, DOT) /\ ShapeIn(prog, DOT)[1] = Held(2, 1, 0)
      BY OwnCodeIs DEF CodeIn, ShapeIn, BOOT, DOT
    <2> QED BY <1>2, <1>4, <2>1, SMTT(30) DEF ThreadOK, Held
  <1>7. IsSeq(q) /\ Len(q) = 2 /\ q[1] = t /\ q[2] = u /\ q # <<>>
    <2>1. q \in Seq({t, u})
      OBVIOUS
    <2> QED BY <2>1, Zenon DEF IsSeq
  <1>8. IsProc(r) /\ r.st = "rc" /\ r.q = q /\ r.fns = NoProc.fns
    <2> HIDE DEF q
    <2> QED BY <1>7, NoProcIs, ZenonT(30) DEF IsProc, IsFcn, ProcFields
  <1> HIDE DEF q, r
  <1>9. \A i \in 1 .. Len(q) : q[i] = t \/ q[i] = u
    BY <1>7
  <1>10. \A f \in FnNames : r.fns[f] = NoFn
    BY <1>8, Zenon DEF NoProc
  <1>11. ShellOK(prog, Main, r)
    BY <1>3, <1>4, <1>5, <1>6, <1>7, <1>8, <1>9, <1>10, ZenonT(30) DEF ShellOK
  <1>12. ProcOK(prog, Main, r) /\ \A p \in Pids : ProcOK(prog, p, NoProc)
    BY <1>8, <1>11, NoProcIs, Zenon DEF ProcOK
  <1>13. IsFcn(proc, Pids) /\ \A p \in Pids : ProcOK(prog, p, proc[p])
    BY <1>1, <1>12, ZenonT(30) DEF IsFcn
  <1> QED BY <1>1, <1>2, <1>13, SMTT(30) DEF FrameInv

\* Every step keeps it.
LEMMA FrameNext == Ordered /\ FrameInv /\ [Next]_vars => FrameInv'
  <1> SUFFICES ASSUME Ordered, FrameInv, [Next]_vars PROVE FrameInv'
    OBVIOUS
  <1>1. CASE Next
    <2>1. prog' = prog
      BY <1>1, Zenon DEF Next
    <2>2. PICK p \in Pids : \/ Operation(p) \/ CommandEnds(p) \/ SyntaxError(p) \/ Xerror(p)
                            \/ \E i \in Sigs : Note(p, i)
      BY <1>1, Zenon DEF Next
    <2>3. CASE Operation(p)
      BY <2>1, <2>3, StackOps, TestOps, FnOps, EndOps, CallOps, WaitOps, LoopOps, TrapOp, ForkOps,
         ZenonT(30) DEF Operation
    <2>4. CASE CommandEnds(p)
      BY <2>1, <2>4, EndOps, ZenonT(30)
    <2>5. CASE SyntaxError(p) \/ Xerror(p)
      BY <2>1, <2>5, LoopOps, Zenon
    <2>6. CASE \E i \in Sigs : Note(p, i)
      BY <2>1, <2>6, NoteOp, Zenon
    <2> QED BY <2>2, <2>3, <2>4, <2>5, <2>6, ZenonT(30)
  <1>2. CASE UNCHANGED vars
    BY <1>2, Zenon DEF vars, FrameInv
  <1> QED BY <1>1, <1>2, Zenon

W == INSTANCE WellFoundedInduction

\* The natural numbers are well-ordered.
LEMMA OrderedIs == Ordered
  <1> SUFFICES ASSUME NEW T \in SUBSET Nat, T # {}
               PROVE  \E x \in T : \A y \in T : x <= y
    BY Zenon DEF Ordered
  <1>1. PICK x \in T : \A y \in T : ~(<<y, x>> \in W!OpToRel(<, Nat))
    BY W!NatLessThanWellFounded, W!WFMin, Zenon
  <1>2. \A y \in T : ~(y < x)
    BY <1>1, Zenon DEF W!OpToRel
  <1> QED BY <1>2

\* The invariant holds.
LEMMA FrameSafe == Spec => []FrameInv
  <1>1. FrameInv /\ [Next]_vars => FrameInv'
    BY FrameNext, OrderedIs, Zenon
  <1> QED BY <1>1, FrameInit, PTL DEF Spec

\* No operation of rc pops a list of words, a redirection or a local variable that its own
\* thread did not push, whatever the session, and wherever notes and errors come.
THEOREM NoOperationPanics == Spec => []NoPanic
  <1>1. FrameInv => NoPanic
    <2> SUFFICES ASSUME FrameInv, NEW p \in Pids, proc[p].st = "rc"
                 PROVE  /\ Top(p).pc \in DOMAIN Code(Top(p).code)
                        /\ LET n == Needs(Here(p).f)
                           IN  Top(p).argv >= n[1] /\ Top(p).redir >= n[2] /\ Top(p).local >= n[3]
      BY Zenon DEF NoPanic
    <2> DEFINE c == Top(p).code
               a == Top(p).pc
               x == ShapeIn(prog, c)[a]
               n == Needs(Here(p).f)
    <2>1. /\ a \in DOMAIN Code(c) /\ Here(p) = CodeIn(prog, c)[a] /\ x \in Shapes
          /\ Agrees(CodeIn(prog, c), ShapeIn(prog, c), a) /\ ThreadOK(prog, Top(p))
      BY TopIs, ZenonT(30)
    <2>2. x.argv >= n[1] /\ x.redir >= n[2] /\ x.local >= n[3]
      BY <2>1, ZenonT(30) DEF Agrees
    <2>3. n[1] \in Int /\ n[2] \in Int /\ n[3] \in Int
      BY SMTT(30) DEF Needs
    <2> HIDE DEF n
    <2>4. Top(p).argv >= n[1] /\ Top(p).redir >= n[2] /\ Top(p).local >= n[3]
      BY <2>1, <2>2, <2>3, SMTT(30) DEF ThreadOK, Shapes
    <2> QED BY <2>1, <2>4, ZenonT(30) DEF n
  <1> QED BY <1>1, FrameSafe, PTL

\* In a session in which no error can take a backquote's child to its parent's terminal
\* (Calm), no process but the shell itself ever reads commands.
THEOREM OnlyShellReads == Spec => [](Calm(prog) => OneReader)
  <1>1. FrameInv /\ Calm(prog) => OneReader
    <2> SUFFICES ASSUME FrameInv, Calm(prog), NEW p \in Pids \ {Main}, proc[p].st = "rc"
                 PROVE  proc[p].mode # "parse" /\ Here(p).f # "Xrdcmds"
      BY Zenon DEF OneReader
    <2>1. ChildOK(prog, proc[p]) /\ IsProc(proc[p]) /\ prog \in Progs
      BY TopIs, ZenonT(30) DEF ShellOK
    <2>2. Len(proc[p].q) \in proc[p].base + 1 .. Len(proc[p].q)
      <3>1. Len(proc[p].q) \in Nat
        BY TopIs, Zenon
      <3>2. proc[p].base \in Nat /\ Len(proc[p].q) > proc[p].base
        BY <2>1, Zenon DEF ChildOK, IsProc
      <3> QED BY <3>1, <3>2
    <2>3. Top(p).code \in DOMAIN prog.code
      BY <2>1, <2>2, ZenonT(30) DEF ChildOK, Top
    <2>4. Here(p).f = "Xrdcmds" => Top(p).code = DOT
      BY TopIs, CodeIs, ZenonT(30)
    <2> QED BY <2>1, <2>3, <2>4, LinesAre, ZenonT(30) DEF ChildOK
  <1> QED BY <1>1, FrameSafe, PTL

\* A shell that waits for a command or reads the output of a backquote is the parent of a
\* process that nobody has collected: Xsimple, which calls Waitfor until it succeeds, ends.
THEOREM WaitsForItsChild == Spec => []AwaitedIsChild
  <1> DEFINE F == Family(prog, proc)
  <1>1. Init => F
    BY FamilyInit, Zenon
  <1>2. FrameInv /\ F /\ [Next]_vars => F'
    BY FamilyNext, OrderedIs, ZenonT(30)
  <1>3. F => AwaitedIsChild
    BY Zenon DEF Family, Settled, Kin, AwaitedIsChild
  <1> HIDE DEF F
  <1>4. Spec => []F
    BY <1>1, <1>2, FrameSafe, PTL DEF Spec
  <1> QED BY <1>3, <1>4, PTL

\* As long as no new process gets the number that some shell still has in $apid, a
\* pipeline finds its left side, whatever its right side and the shell waited for before.
THEOREM PipelinesFindTheirChild ==
    Spec /\ [][Fresh(proc, proc')]_vars => []PipelineFindsChild
  <1> DEFINE F == Family(prog, proc)
             J == Pipelines(proc)
  <1>1. Init => F /\ J
    BY FamilyInit, Zenon
  <1>2. FrameInv /\ F /\ J /\ [Next]_vars /\ [Fresh(proc, proc')]_vars => F' /\ J'
    <2> SUFFICES ASSUME FrameInv, F, J, [Next]_vars, [Fresh(proc, proc')]_vars  PROVE F' /\ J'
      OBVIOUS
    <2>1. CASE Fresh(proc, proc')
      BY <2>1, FamilyNext, OrderedIs, ZenonT(30)
    <2>2. CASE UNCHANGED vars
      BY <2>2, Zenon DEF vars
    <2> QED BY <2>1, <2>2, ZenonT(30)
  <1>3. J => PipelineFindsChild
    <2> SUFFICES ASSUME J, NEW p \in Pids, NEW i \in proc[p].base + 1 .. Len(proc[p].q),
                        proc[p].q[i].pid > 0
                 PROVE  Kin(proc, p, proc[p].q[i].pid)
      BY Zenon DEF PipelineFindsChild, Kin
    <2>1. i \in Awaiting(proc[p])
      BY Zenon DEF Awaiting
    <2> QED BY <2>1, Zenon DEF Pipelines, Joined
  <1> HIDE DEF F, J
  <1>4. Spec /\ [][Fresh(proc, proc')]_vars => [](F /\ J)
    BY <1>1, <1>2, FrameSafe, PTL DEF Spec
  <1> QED BY <1>3, <1>4, PTL
=============================================================================
