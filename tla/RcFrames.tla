------------------------------ MODULE RcFrames ------------------------------
(***************************************************************************)
(* What the compiler of rc promises the interpreter.  Nothing at run time  *)
(* says how many lists, redirections and locals a thread holds when it     *)
(* reaches a cell, or that a child never runs into the code of its parent: *)
(* outcode() emits cells such that one can tell from the code alone.       *)
(* Shape(c) is what one can tell of the code c, cell by cell, and WellMade *)
(* that it agrees with every operation of Rc and every way to start a      *)
(* thread.                                                                 *)
(***************************************************************************)
EXTENDS Rc

CONSTANT Shape(_)   \* Shape(c)[a]: what a thread holds at least at cell a of c

Shapes == [argv : Nat, redir : Nat, local : Nat, child : BOOLEAN]
Cells == [f : STRING, a : Nat, b : Nat, c : STRING]

\* A thread at cell a goes on at cell b with i lists, j redirections and k locals more.
Leads(c, s, a, b, i, j, k) ==
    /\ b \in DOMAIN c /\ s[b].child = s[a].child
    /\ s[b].argv <= s[a].argv + i /\ s[b].redir <= s[a].redir + j
    /\ s[b].local <= s[a].local + k

\* A thread begins at cell b with j redirections and k locals.
Starts(c, s, b, j, k, child) ==
    /\ b \in DOMAIN c /\ s[b].child = child
    /\ s[b].argv = 0 /\ s[b].redir <= j /\ s[b].local <= k

\* Cell a of the code c agrees with the cells it leads to.  A thread with
\* the flag child is the first one of a process that was forked.
Agrees(c, s, a) ==
    LET f == c[a].f
        x == s[a]
        n == Needs(f)
    IN  /\ x.argv >= n[1] /\ x.redir >= n[2] /\ x.local >= n[3]
        /\ f = "Xmark" => Leads(c, s, a, a + 1, 1, 0, 0)
        /\ f \in {"Xpopm", "Xdol", "Xdelfn", "Xsimple"} => Leads(c, s, a, a + 1, -1, 0, 0)
        /\ f \in {"Xassign", "Xmatch"} => Leads(c, s, a, a + 1, -2, 0, 0)
        /\ f = "Xlocal" => Leads(c, s, a, a + 1, -2, 0, 1)
        /\ f = "Xunlocal" => Leads(c, s, a, a + 1, 0, 0, -1)
        /\ f = "Xread" => Leads(c, s, a, a + 1, -1, 1, 0)
        /\ f = "Xdup" => Leads(c, s, a, a + 1, 0, 1, 0)
        /\ f = "Xpopredir" => Leads(c, s, a, a + 1, 0, -1, 0)
        /\ f \in {"Xsettrue", "Xbang", "Xwastrue", "Xeflag", "Xpipewait"} => Leads(c, s, a, a + 1, 0, 0, 0)
        /\ f \in {"Xtrue", "Xfalse", "Xif", "Xifnot"} =>
               Leads(c, s, a, a + 1, 0, 0, 0) /\ Leads(c, s, a, c[a].a, 0, 0, 0)
        /\ f = "Xjump" => Leads(c, s, a, c[a].a, 0, 0, 0)
        /\ f = "Xcase" => Leads(c, s, a, a + 1, -1, 0, 0) /\ Leads(c, s, a, c[a].a, -1, 0, 0)
        /\ f = "Xfor" => Leads(c, s, a, a + 1, 0, 0, 0) /\ Leads(c, s, a, c[a].a, -1, 0, 0)
        /\ f = "Xfn" => Leads(c, s, a, c[a].a, -1, 0, 0) /\ Starts(c, s, a + 1, 0, 1, FALSE)
        /\ f \in {"Xfn", "Xdelfn"} => c[a].c \in FnNames
        /\ f \in {"Xasync", "Xsubshell"} =>
               Leads(c, s, a, c[a].a, 0, 0, 0) /\ Starts(c, s, a + 1, 0, x.local, TRUE)
        /\ f = "Xpipefd" => Leads(c, s, a, c[a].a, 0, 1, 0) /\ Starts(c, s, a + 1, 1, x.local, TRUE)
        /\ f = "Xbackq" => Leads(c, s, a, c[a].a, -1, 0, 0) /\ Starts(c, s, a + 1, 1, x.local, TRUE)
        /\ f = "Xpipe" =>
               /\ Starts(c, s, a + 1, 1, x.local, TRUE) /\ Starts(c, s, c[a].a, 1, x.local, FALSE)
               /\ Leads(c, s, a, c[a].b, 0, 0, 0) /\ c[c[a].b].f = "Xpipewait"
        /\ f = "Xreturn" => ~x.child

\* The code of a line.
WellMade(c) ==
    /\ c \in Seq(Cells) /\ c # <<>> /\ Shape(c) \in [DOMAIN c -> Shapes]
    /\ Shape(c)[1] = [argv |-> 0, redir |-> 0, local |-> 0, child |-> FALSE]
    /\ \A a \in DOMAIN c : c[a].f # "Xrdcmds" /\ Agrees(c, Shape(c), a)

ASSUME PidsAssumption == Pids \subseteq Nat \ {0} /\ Main \in Pids
ASSUME FnNamesAssumption == {"sighup", "sigint", "sigexit"} \subseteq FnNames
ASSUME ProgsAssumption ==
    \A P \in Progs : /\ P.code \in Seq(Seq(Cells)) /\ P.iflag \in BOOLEAN
                     /\ P.notes \in Nat /\ P.errs \in Nat
ASSUME CompilerAssumption == \A P \in Progs : \A k \in DOMAIN P.code : WellMade(P.code[k])
=============================================================================
