--------------------------------- MODULE Rc ---------------------------------
(***************************************************************************)
(* The interpreter of rc: the stack machine of rc/exec.c, the processes it *)
(* forks and waits for (rc/processes.c, rc/simple.c, Waitfor in            *)
(* rc/goken.c), and the notes it takes (rc/notify_full.c, rc/trap.c).      *)
(* Code comes from RcCode.  Every rc process is one record: its threads    *)
(* (runq and the ->ret links under it, the last one running), $status,     *)
(* the pending notes, and what it is blocked in.  A command that was       *)
(* exec'ed is a process that ends with any status of Codes; the kernel's   *)
(* fork, wait, pipe end-of-file and reparenting are modelled as rc uses    *)
(* them.                                                                   *)
(***************************************************************************)
EXTENDS Integers, Sequences, FiniteSets, FiniteSetsExt

CONSTANTS
    Pids,       \* process numbers, 1 is the shell itself (mypid)
    Progs,      \* the sessions: code of each line, -i, absent commands, budgets
    Codes,      \* how an external command may end: 0..255, TEXT for a signal
    FnNames     \* names functions may be defined for

VARIABLES
    proc,       \* the processes
    prog,       \* the session being run
    out,        \* how each external command ended the last time it ran
    notes,      \* notes the terminal may still send
    errs        \* system calls that may still fail

vars == <<proc, prog, out, notes, errs>>

Main == 1
TEXT == -1      \* a status that is not a number: "error", "signal 2", ...
SIGHUP == 1
SIGINT == 2
Sigs == {SIGHUP, SIGINT}
signame(i) == IF i = SIGHUP THEN "sighup" ELSE "sigint"

WaitModes == {"simple", "wait"}

-----------------------------------------------------------------------------
(* $status: the components between the bars of a pipeline's status. *)

truestatus(s) == \A i \in DOMAIN s : s[i] = 0

\* Broken: the right side comes first.
Broken_concstatus(s, t) == t \o s
concstatus(s, t) == s \o t

\* Exit reads the digits of every component as one number ("" has none); the
\* kernel keeps eight bits of it.
Exit(s) ==
    LET Shift(k) == IF k = 0 THEN 1 ELSE IF k < 10 THEN 10 ELSE IF k < 100 THEN 100 ELSE 1000
        n[i \in 0..Len(s)] == IF i = 0 THEN 0 ELSE n[i - 1] * Shift(s[i]) + s[i]
    IN  IF \E i \in DOMAIN s : s[i] = TEXT THEN 1 ELSE n[Len(s)] % 256

-----------------------------------------------------------------------------
(* Threads and processes. *)

\* The field pid is not set: Xpipe sets it before Xpipewait looks at it.
start(c, pc, local) ==
    [code |-> c, pc |-> pc, argv |-> 0, redir |-> 0, local |-> local,
     pid |-> 0, pst |-> <<>>, iflag |-> FALSE, next |-> 0]

NoFn == [code |-> 0, pc |-> 0]

NoProc ==
    [st |-> "free", par |-> 0, q |-> <<>>, base |-> 0, status |-> <<>>, ifnot |-> FALSE,
     mode |-> "run", wpid |-> 0, keep |-> <<>>, trap |-> [i \in Sigs |-> 0], ntrap |-> 0,
     sig |-> SIGHUP, intr |-> FALSE, been |-> FALSE, fns |-> [f \in FnNames |-> NoFn],
     apid |-> 0, to |-> 0, bq |-> {}, code |-> 0, leaf |-> ""]

\* The loop that reads commands from a file (execdot), and the code under it.
cell(f) == [f |-> f, a |-> 0, b |-> 0, c |-> ""]
BOOT == 0
DOT == -1
bootstrap == <<cell("Xexit")>>
dotcmds == <<cell("Xmark"), cell("Xlocal"), cell("Xmark"), cell("Xlocal"), cell("Xrdcmds"),
             cell("Xunlocal"), cell("Xunlocal"), cell("Xreturn")>>
Code(c) == IF c = BOOT THEN bootstrap ELSE IF c = DOT THEN dotcmds ELSE prog.code[c]

Top(p) == proc[p].q[Len(proc[p].q)]
Here(p) == Code(Top(p).code)[Top(p).pc]
At(p, f) == proc[p].st = "rc" /\ proc[p].mode = "run" /\ Here(p).f = f

SetTop(r, t) == [r EXCEPT !.q[Len(r.q)] = t]
Push(r, t) == [r EXCEPT !.q = Append(@, t)]

\* The interpreter's loop: after every operation, dotrap if a note is pending.
Loop(r) == [r EXCEPT !.mode = IF r.ntrap # 0 THEN "trap" ELSE "run", !.sig = SIGHUP]

Step(p, r) == proc' = [proc EXCEPT ![p] = Loop(r)] /\ UNCHANGED <<out, notes, errs>>

\* The running thread goes on at pc with these lists, redirections and locals.
Goto(p, r, pc, argv, redir, local) ==
    Step(p, SetTop(r, [Top(p) EXCEPT !.pc = pc, !.argv = @ + argv, !.redir = @ + redir,
                                     !.local = @ + local]))

Next1(p) == Top(p).pc + 1

\* Process p ends with this exit code: its parent can wait for it, its own
\* children go to init, which waits for them.
Ended(P, p, code) ==
    [x \in Pids |->
        IF x = p
        THEN IF P[p].par = 0 /\ p # Main THEN NoProc
             ELSE [NoProc EXCEPT !.st = "zombie", !.par = P[p].par, !.code = code]
        ELSE IF P[x].par = p
        THEN IF P[x].st = "zombie" THEN NoProc ELSE [P[x] EXCEPT !.par = 0]
        ELSE P[x]]

Terminate(p, s) == proc' = Ended(proc, p, Exit(s))

\* while(!runq->iflag) Xreturn(): down to the command loop of a terminal; rc
\* exits when there is none.
Uncover(q) == SubSeq(q, 1, Max({0} \cup {i \in DOMAIN q : q[i].iflag}))

Unwind(p, r) ==
    IF Uncover(r.q) = <<>> THEN Terminate(p, r.status)
    ELSE proc' = [proc EXCEPT ![p] = Loop([r EXCEPT !.q = Uncover(@)])]

Return(p, r) ==
    IF Len(r.q) = 1 THEN Terminate(p, r.status)
    ELSE proc' = [proc EXCEPT ![p] = Loop([r EXCEPT !.q = SubSeq(@, 1, Len(@) - 1)])]

\* fork: the child is a copy of the shell with the threads q.
NewPid == Min({x \in Pids : proc[x].st = "free"})
CanFork == \E x \in Pids : proc[x].st = "free"
Fork(p, child, parent) ==
    /\ proc' = [proc EXCEPT ![p] = parent, ![NewPid] = [child EXCEPT !.par = p]]
    /\ UNCHANGED <<out, notes, errs>>
-----------------------------------------------------------------------------
(* Operations that do not leave the process. *)

Xmark(p) == At(p, "Xmark") /\ Goto(p, proc[p], Next1(p), 1, 0, 0)

Xpopm(p) == At(p, "Xpopm") /\ Goto(p, proc[p], Next1(p), -1, 0, 0)

Xdol(p) == At(p, "Xdol") /\ Goto(p, proc[p], Next1(p), -1, 0, 0)

Xassign(p) == At(p, "Xassign") /\ Goto(p, proc[p], Next1(p), -2, 0, 0)

Xlocal(p) == At(p, "Xlocal") /\ Goto(p, proc[p], Next1(p), -2, 0, 1)

Xunlocal(p) == At(p, "Xunlocal") /\ Goto(p, proc[p], Next1(p), 0, 0, -1)

Xread(p) == At(p, "Xread") /\ Goto(p, proc[p], Next1(p), -1, 1, 0)

Xdup(p) == At(p, "Xdup") /\ Goto(p, proc[p], Next1(p), 0, 1, 0)

Xpopredir(p) == At(p, "Xpopredir") /\ Goto(p, proc[p], Next1(p), 0, -1, 0)

Xjump(p) == At(p, "Xjump") /\ Goto(p, proc[p], Here(p).a, 0, 0, 0)

Xsettrue(p) ==
    At(p, "Xsettrue") /\ Goto(p, [proc[p] EXCEPT !.status = <<0>>], Next1(p), 0, 0, 0)

Xbang(p) ==
    /\ At(p, "Xbang")
    /\ Goto(p, [proc[p] EXCEPT !.status = IF truestatus(@) THEN <<TEXT>> ELSE <<0>>],
            Next1(p), 0, 0, 0)

\* ~ subject patterns: either answer is possible.
Xmatch(p) ==
    /\ At(p, "Xmatch")
    /\ \E s \in {<<0>>, <<TEXT>>} : Goto(p, [proc[p] EXCEPT !.status = s], Next1(p), -2, 0, 0)

Branch(p, r, cond) == Goto(p, r, IF cond THEN Next1(p) ELSE Here(p).a, 0, 0, 0)

Xtrue(p) == At(p, "Xtrue") /\ Branch(p, proc[p], truestatus(proc[p].status))

Xfalse(p) == At(p, "Xfalse") /\ Branch(p, proc[p], ~truestatus(proc[p].status))

Xif(p) ==
    At(p, "Xif") /\ Branch(p, [proc[p] EXCEPT !.ifnot = TRUE], truestatus(proc[p].status))

Xifnot(p) == At(p, "Xifnot") /\ Branch(p, proc[p], proc[p].ifnot)

Xwastrue(p) ==
    At(p, "Xwastrue") /\ Goto(p, [proc[p] EXCEPT !.ifnot = FALSE], Next1(p), 0, 0, 0)

\* The next pattern of a switch matches, or not.
Xcase(p) ==
    /\ At(p, "Xcase")
    /\ \E pc \in {Next1(p), Here(p).a} : Goto(p, proc[p], pc, -1, 0, 0)

\* Another word for the loop's variable, or none is left.
Xfor(p) ==
    /\ At(p, "Xfor")
    /\ \/ Goto(p, proc[p], Next1(p), 0, 0, 0)
       \/ Goto(p, proc[p], Here(p).a, -1, 0, 0)

Xfn(p) ==
    /\ At(p, "Xfn")
    /\ Goto(p, [proc[p] EXCEPT !.fns[Here(p).c] = [code |-> Top(p).code, pc |-> Next1(p)]],
            Here(p).a, -1, 0, 0)

Xdelfn(p) ==
    /\ At(p, "Xdelfn")
    /\ Goto(p, [proc[p] EXCEPT !.fns[Here(p).c] = NoFn], Next1(p), -1, 0, 0)

Xreturn(p) == At(p, "Xreturn") /\ Return(p, proc[p]) /\ UNCHANGED <<out, notes, errs>>

\* Broken: $* is not pushed for the handler.
Broken_Handler(r, f) == Push(r, start(r.fns[f].code, r.fns[f].pc, 0))

\* The thread of a note handler, or of fn sigexit: $* is its only local.
Handler(r, f) == Push(r, start(r.fns[f].code, r.fns[f].pc, 1))

\* Xexit, called for record r: fn sigexit runs first, once, and then the
\* operation that exits again.
Exits(p, r) ==
    IF p = Main /\ ~r.been /\ r.fns["sigexit"] # NoFn
    THEN proc' = [proc EXCEPT ![p] = Loop(Handler([r EXCEPT !.been = TRUE], "sigexit"))]
    ELSE Terminate(p, r.status)

Xexit(p) == At(p, "Xexit") /\ Exits(p, proc[p]) /\ UNCHANGED <<out, notes, errs>>

\* eflagok is left out: it is false only in rcmain, before the commands of the session.
Xeflag(p) ==
    /\ At(p, "Xeflag")
    /\ IF truestatus(proc[p].status) THEN Goto(p, proc[p], Next1(p), 0, 0, 0)
       ELSE Exits(p, proc[p]) /\ UNCHANGED <<out, notes, errs>>

-----------------------------------------------------------------------------
(* Commands. *)

\* The rest of the thread only closes redirections and exits.
exitnext(p) ==
    LET c == Code(Top(p).code)
    IN  \E n \in Next1(p)..Len(c) :
            c[n].f = "Xexit" /\ \A k \in Next1(p)..n - 1 : c[k].f = "Xpopredir"

Simple(p) == At(p, "Xsimple")
IsFn(p) == Here(p).c \in FnNames /\ proc[p].fns[Here(p).c] # NoFn
Builtins == {"exit", "false", "wait", "waitpid"}
External(p) == Simple(p) /\ ~IsFn(p) /\ Here(p).c \notin Builtins

execfunc(p) ==
    /\ Simple(p) /\ IsFn(p)
    /\ LET t == [Top(p) EXCEPT !.pc = Next1(p), !.argv = @ - 1]
           f == proc[p].fns[Here(p).c]
       IN  Step(p, Push(SetTop(proc[p], t), start(f.code, f.pc, t.local + 1)))

\* exit, and exit false.
execexit(p) ==
    /\ Simple(p) /\ ~IsFn(p) /\ Here(p).c \in {"exit", "false"}
    /\ Exits(p, IF Here(p).c = "false" THEN [proc[p] EXCEPT !.status = <<TEXT>>] ELSE proc[p])
    /\ UNCHANGED <<out, notes, errs>>

\* The process p waits for process w; keep is what Xpipewait appends after.
Waits(r, mode, w, keep) == [r EXCEPT !.mode = mode, !.wpid = w, !.keep = keep]

\* wait, and wait $apid (all children when $apid is not set).
execwait(p) ==
    /\ Simple(p) /\ ~IsFn(p) /\ Here(p).c \in {"wait", "waitpid"}
    /\ LET t == [Top(p) EXCEPT !.pc = Next1(p), !.argv = @ - 1]
           w == IF Here(p).c = "wait" \/ proc[p].apid = 0 THEN -1 ELSE proc[p].apid
       IN  proc' = [proc EXCEPT ![p] = Waits(SetTop(@, t), "wait", w, <<>>)]
    /\ UNCHANGED <<out, notes, errs>>

\* The image of a command replaces the shell's, whose standard output it keeps.
Exec(r, leaf) ==
    [NoProc EXCEPT !.st = "cmd", !.par = r.par, !.leaf = leaf, !.bq = {r.to} \ {0}]

\* A command as the last thing a child does needs no fork; when it cannot be
\* executed, the shell goes on to Xexit.
SimpleExec(p) ==
    /\ External(p) /\ exitnext(p)
    /\ IF Here(p).c \in prog.absent THEN Exits(p, proc[p])
       ELSE proc' = [proc EXCEPT ![p] = Exec(@, Here(p).c)]
    /\ UNCHANGED <<out, notes, errs>>

SimpleFork(p) ==
    /\ External(p) /\ ~exitnext(p) /\ CanFork
    /\ Fork(p, Exec(proc[p], Here(p).c),
            Waits(SetTop(proc[p], [Top(p) EXCEPT !.pc = Next1(p), !.argv = @ - 1]),
                  "simple", NewPid, <<>>))

\* An external command ends.
CommandEnds(p) ==
    /\ proc[p].st = "cmd"
    /\ \E c \in IF proc[p].leaf \in prog.absent THEN {1} ELSE Codes :
        /\ proc' = Ended(proc, p, c)
        /\ out' = [out EXCEPT ![proc[p].leaf] = c]
    /\ UNCHANGED <<notes, errs>>
-----------------------------------------------------------------------------
(* Operations that fork.  The child runs the code after the operation, up  *)
(* to its Xexit, in a thread of its own; the shell goes on behind it.      *)

Child(p, redir) ==
    [start(Top(p).code, Next1(p), Top(p).local) EXCEPT !.redir = redir]

\* Broken: it keeps them.
Broken_Alone(p, redir) == Loop([Push(proc[p], Child(p, redir)) EXCEPT !.base = Len(proc[p].q)])

\* The child forgets the threads under it (runq->ret = nil).
Alone(p, redir) == Loop([proc[p] EXCEPT !.q = <<Child(p, redir)>>, !.base = 0])

Behind(p) == SetTop(proc[p], [Top(p) EXCEPT !.pc = Here(p).a])

Xasync(p) ==
    /\ At(p, "Xasync") /\ CanFork
    /\ Fork(p, Alone(p, 0), Loop([Behind(p) EXCEPT !.apid = NewPid]))

Xsubshell(p) ==
    /\ At(p, "Xsubshell") /\ CanFork
    /\ Fork(p, Alone(p, 0), Waits(Behind(p), "wait", NewPid, <<>>))

Xpipefd(p) ==
    /\ At(p, "Xpipefd") /\ CanFork
    /\ Fork(p, [Alone(p, 1) EXCEPT !.to = 0],
            Loop(SetTop(proc[p], [Top(p) EXCEPT !.pc = Here(p).a, !.redir = @ + 1])))

\* The left side is the child's; the right side is a new thread of the shell,
\* which returns to Xpipewait.
Xpipe(p) ==
    /\ At(p, "Xpipe") /\ CanFork
    /\ Fork(p, [Alone(p, 1) EXCEPT !.to = 0],
            Loop(Push(SetTop(proc[p], [Top(p) EXCEPT !.pc = Here(p).b, !.pid = NewPid]),
                      [start(Top(p).code, Here(p).a, Top(p).local) EXCEPT !.redir = 1])))

Xpipewait(p) ==
    /\ At(p, "Xpipewait")
    /\ LET t == [Top(p) EXCEPT !.pc = Next1(p), !.pid = -1]
           s == proc[p].status
       IN  IF Top(p).pid = -1
           THEN Step(p, [SetTop(proc[p], t) EXCEPT !.status = concstatus(Top(p).pst, s)])
           ELSE /\ proc' = [proc EXCEPT ![p] = Waits(SetTop(@, t), "wait", Top(p).pid, s)]
                /\ UNCHANGED <<out, notes, errs>>

\* The child keeps the shell's threads under its own; the shell reads its
\* output up to the end of file, then waits for it.
Xbackq(p) ==
    /\ At(p, "Xbackq") /\ CanFork
    /\ Fork(p, Loop([Push(proc[p], Child(p, 1)) EXCEPT !.to = p, !.bq = @ \cup {p},
                                                        !.base = Len(proc[p].q)]),
            Waits(SetTop(proc[p], [Top(p) EXCEPT !.pc = Here(p).a, !.argv = @ - 1]),
                  "read", NewPid, <<>>))

\* No process has the pipe open for writing any more.
ReadEnd(p) ==
    /\ proc[p].st = "rc" /\ proc[p].mode = "read"
    /\ \A x \in Pids : p \notin proc[x].bq
    /\ proc' = [proc EXCEPT ![p].mode = "wait"]
    /\ UNCHANGED <<out, notes, errs>>

\* What follows Waitfor in the operation that called it.
Waited(r) == Loop([r EXCEPT !.status = concstatus(@, r.keep), !.keep = <<>>, !.wpid = 0])

\* Broken: the process waited for is remembered like the others, or none is.
Broken_Collected(r, z, s) ==
    LET W == {i \in 1..Len(r.q) - 1 : r.q[i].pid = z}
    IN  IF W = {} THEN r ELSE [r EXCEPT !.q[Max(W)].pid = -1, !.q[Max(W)].pst = s]
Broken_CollectedForgets(r, z, s) == IF z = r.wpid THEN Waited([r EXCEPT !.status = s]) ELSE r

\* The child z has ended with status s.  The one that is waited for sets
\* $status; another is remembered by the pipeline that will wait for it.
Collected(r, z, s) ==
    LET W == {i \in 1..Len(r.q) - 1 : r.q[i].pid = z}
    IN  IF z = r.wpid THEN Waited([r EXCEPT !.status = s])
        ELSE IF W = {} THEN r
        ELSE [r EXCEPT !.q[Max(W)].pid = -1, !.q[Max(W)].pst = s]

\* Waitfor: wait() returns the child z.
Waitfor(p, z) ==
    /\ proc[p].st = "rc" /\ proc[p].mode \in WaitModes
    /\ proc[z].st = "zombie" /\ proc[z].par = p
    /\ proc' = [proc EXCEPT ![z] = NoProc, ![p] = Collected(@, z, <<proc[z].code>>)]
    /\ UNCHANGED <<out, notes, errs>>

\* Broken: a wait that fails is tried again.
Broken_WaitforNone(p) ==
    /\ proc[p].st = "rc" /\ proc[p].mode = "wait"
    /\ \A x \in Pids : proc[x].par # p
    /\ UNCHANGED <<proc, out, notes, errs>>

\* There is no child left: Waitfor fails.  Xsimple would call it for ever.
WaitforNone(p) ==
    /\ proc[p].st = "rc" /\ proc[p].mode = "wait"
    /\ \A x \in Pids : proc[x].par # p
    /\ Step(p, Waited(proc[p]))

-----------------------------------------------------------------------------
(* The command loop. *)

Xrdcmds(p) ==
    /\ At(p, "Xrdcmds")
    /\ proc' = [proc EXCEPT ![p].mode = "parse", ![p].intr = FALSE]
    /\ UNCHANGED <<out, notes, errs>>

Parsing(p) == proc[p].st = "rc" /\ proc[p].mode = "parse"

\* yyparse compiled a line: notes that came meanwhile are dropped (ntrap = 0)
\* and its code runs in a new thread.
Parsed(p) ==
    /\ Parsing(p) /\ Top(p).next < Len(prog.code)
    /\ LET n == Top(p).next + 1
       IN  Step(p, Push([SetTop(proc[p], [Top(p) EXCEPT !.next = n]) EXCEPT !.ntrap = 0],
                        start(n, 1, Top(p).local)))

\* A syntax error: a script ends, a terminal goes on with the next line.
SyntaxError(p) ==
    /\ Parsing(p) /\ Top(p).next < Len(prog.code) /\ errs > 0
    /\ errs' = errs - 1
    /\ IF Top(p).iflag
       THEN proc' = [proc EXCEPT ![p] = Loop(SetTop(@, [Top(p) EXCEPT !.next = @ + 1]))]
       ELSE Return(p, proc[p])
    /\ UNCHANGED <<out, notes>>

\* End of file: at a terminal it may be a read that a note interrupted.
EndOfFile(p) ==
    /\ Parsing(p) /\ Top(p).next = Len(prog.code)
    /\ IF Top(p).iflag /\ proc[p].intr THEN proc' = [proc EXCEPT ![p] = Loop(@)]
       ELSE Return(p, proc[p])
    /\ UNCHANGED <<out, notes, errs>>
-----------------------------------------------------------------------------
(* Errors and notes. *)

\* Xerror: fork, pipe or open failed.  Xerror1: the name of a variable is not one word,
\* or a command has no words.
CanFail(p) ==
    \/ \E f \in {"Xasync", "Xsubshell", "Xpipefd", "Xpipe", "Xbackq", "Xread"} : At(p, f)
    \/ \E f \in {"Xassign", "Xlocal", "Xdol", "Xsimple"} : At(p, f)
Xerror(p) ==
    /\ CanFail(p) /\ errs > 0
    /\ errs' = errs - 1
    /\ Unwind(p, [proc[p] EXCEPT !.status = <<TEXT>>])
    /\ UNCHANGED <<out, notes>>

\* notifyf: count the note; a second interrupt is dropped while one is pending.  That rc
\* aborts when 32 are pending is left out: here it goes on.
Noted(r, i) ==
    IF i = SIGINT /\ r.trap[i] # 0 THEN [r EXCEPT !.intr = TRUE]
    ELSE [r EXCEPT !.intr = TRUE, !.trap[i] = @ + 1, !.ntrap = @ + 1]

\* What a blocked system call that returns early makes of the operation; a
\* wait in Xsimple is called again, a read of a file is not interrupted.
Interrupted(p, r) ==
    CASE r.mode = "wait" -> Waited(r)
      [] r.mode = "read" -> [r EXCEPT !.mode = "wait"]
      [] r.mode = "parse" /\ Top(p).iflag -> Loop(r)
      [] OTHER -> r

Note(p, i) ==
    /\ proc[p].st = "rc" /\ notes > 0
    /\ notes' = notes - 1
    /\ \E r \in {Noted(proc[p], i), Interrupted(p, Noted(proc[p], i))} :
        proc' = [proc EXCEPT ![p] = r]
    /\ UNCHANGED <<out, errs>>

\* One turn of dotrap's loops: the next pending note from sig on, the end of
\* the inner loop when there is none.
dotrap(p) ==
    LET r == proc[p]
        S == {i \in Sigs : i >= r.sig /\ r.trap[i] > 0}
        i == Min(S)
        t == [r EXCEPT !.sig = i, !.trap[i] = @ - 1, !.ntrap = @ - 1]
    IN  /\ r.st = "rc" /\ r.mode = "trap"
        /\ IF S = {} THEN proc' = [proc EXCEPT ![p] = Loop(r)]
           ELSE IF p # Main THEN Terminate(p, r.status)
           ELSE IF r.fns[signame(i)] # NoFn
                THEN proc' = [proc EXCEPT ![p] = Handler(t, signame(i))]
           ELSE IF i # SIGINT \/ Uncover(r.q) = <<>> THEN Terminate(p, r.status)
           ELSE proc' = [proc EXCEPT ![p] = [t EXCEPT !.q = Uncover(@)]]
        /\ UNCHANGED <<out, notes, errs>>

-----------------------------------------------------------------------------
Names(P) == UNION {{P.code[i][j].c : j \in DOMAIN P.code[i]} : i \in DOMAIN P.code}

\* main, and the execdot it starts with.
Init ==
    /\ prog \in Progs
    /\ proc = [p \in Pids |-> IF p # Main THEN NoProc ELSE
                 [NoProc EXCEPT !.st = "rc", !.status = <<0>>,
                    !.q = <<[start(BOOT, 1, 0) EXCEPT !.iflag = prog.iflag],
                            [start(DOT, 1, 0) EXCEPT !.argv = 2, !.redir = 1,
                                                     !.iflag = prog.iflag]>>]]
    /\ out = [c \in Names(prog) |-> -2]
    /\ notes = prog.notes
    /\ errs = prog.errs

Operation(p) ==
    \/ Xmark(p) \/ Xpopm(p) \/ Xdol(p) \/ Xassign(p) \/ Xlocal(p) \/ Xunlocal(p)
    \/ Xread(p) \/ Xdup(p) \/ Xpopredir(p) \/ Xjump(p) \/ Xsettrue(p) \/ Xbang(p)
    \/ Xmatch(p) \/ Xtrue(p) \/ Xfalse(p) \/ Xif(p) \/ Xifnot(p) \/ Xwastrue(p)
    \/ Xcase(p) \/ Xfor(p) \/ Xfn(p) \/ Xdelfn(p) \/ Xreturn(p) \/ Xexit(p) \/ Xeflag(p)
    \/ execfunc(p) \/ execexit(p) \/ execwait(p) \/ SimpleExec(p) \/ SimpleFork(p)
    \/ Xasync(p) \/ Xsubshell(p) \/ Xpipefd(p) \/ Xpipe(p) \/ Xpipewait(p) \/ Xbackq(p)
    \/ ReadEnd(p) \/ (\E z \in Pids : Waitfor(p, z)) \/ WaitforNone(p)
    \/ Xrdcmds(p) \/ Parsed(p) \/ EndOfFile(p) \/ dotrap(p)

Next ==
    /\ \E p \in Pids : \/ Operation(p) \/ CommandEnds(p) \/ SyntaxError(p) \/ Xerror(p)
                       \/ \E i \in Sigs : Note(p, i)
    /\ UNCHANGED prog

Spec == Init /\ [][Next]_vars

\* As long as a process can go on or a command can end, something happens.
FairSpec ==
    Spec /\ WF_vars((\E p \in Pids : Operation(p) \/ CommandEnds(p)) /\ UNCHANGED prog)
-----------------------------------------------------------------------------
(* Properties. *)

\* What an operation pops: lists of words, redirections of its own thread,
\* local variables.
Needs(f) ==
    CASE f \in {"Xpopm", "Xsimple", "Xread", "Xfn", "Xdelfn", "Xfor"} -> <<1, 0, 0>>
      [] f \in {"Xassign", "Xlocal", "Xmatch", "Xdol", "Xbackq", "Xcase"} -> <<2, 0, 0>>
      [] f = "Xpopredir" -> <<0, 1, 0>>
      [] f = "Xunlocal" -> <<0, 0, 1>>
      [] OTHER -> <<0, 0, 0>>

\* The stacks of the machine and the code the compiler emits agree, through
\* loops, switches, functions and note handlers: no operation pops what its
\* own thread did not push (poplist, popword, Xpopredir and Xunlocal panic, or
\* pop what belongs to the caller).
NoPanic ==
    \A p \in Pids : proc[p].st = "rc" /\ proc[p].mode = "run" =>
        /\ Top(p).pc \in DOMAIN Code(Top(p).code)
        /\ LET n == Needs(Here(p).f)
           IN  Top(p).argv >= n[1] /\ Top(p).redir >= n[2] /\ Top(p).local >= n[3]

\* A process that waits for a certain process is its parent, and nobody has
\* collected that process before (Xsimple calls Waitfor until it succeeds, so
\* it would never return); "wait $apid" may name a process that is gone.
AwaitedIsChild ==
    \A p \in Pids : proc[p].st = "rc" /\ proc[p].mode \in {"simple", "read"} =>
        proc[proc[p].wpid].par = p /\ proc[proc[p].wpid].st # "free"

\* A pipeline that has still to wait for its left side finds it: Waitfor may
\* collect it in another operation of a later thread, and then remembers its
\* status in the pipeline's own thread (pid = -1).
PipelineFindsChild ==
    \A p \in Pids : \A i \in proc[p].base + 1..Len(proc[p].q) :
        LET f == proc[p].q[i]
        IN  f.pid > 0 => proc[f.pid].par = p /\ proc[f.pid].st # "free"

\* Only the shell itself reads commands: a child that runs the code of a
\* pipeline, a subshell or a backquote exits at the end of it.
OneReader ==
    \A p \in Pids \ {Main} : proc[p].st = "rc" =>
        proc[p].mode # "parse" /\ Here(p).f # "Xrdcmds"

\* A session without a loop always ends, whatever its children do and whenever a note or an
\* error comes: it never waits for itself or for a process that is gone.
Ends == prog.finite => <>(proc[Main].st = "zombie")

=============================================================================
