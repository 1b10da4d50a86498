-------------------------------- MODULE MCRc --------------------------------
(***************************************************************************)
(* Sessions for Rc, and what a command line means, read off its tree and   *)
(* the ends of its external commands.                                      *)
(***************************************************************************)
EXTENDS RcFrames, RcCode, SequencesExt

MCPids == 1..6
MCCodes == {0, 1}
MCFnNames == {"f", "sighup", "sigint", "sigexit"}

L(c) == Tree("SIMPLE", Nil, Nil, c)
Two(type, l, r) == Tree(type, l, r, "")
One(type, l) == Tree(type, l, Nil, "")
Under(type, r) == Tree(type, Nil, r, "")
Arg(c, type, t) == Tree("SIMPLE", IF type = "BACKQ" THEN Under(type, t) ELSE One(type, t), Nil, c)

Binary == {";", "ANDAND", "OROR", "IF", "PIPE"}

\* The unary forms: u applied to t, with x the name of a further command.
Unary(t, x) ==
    {One("BANG", t), One("SUBSHELL", t), One("&", t), Under("REDIR", t), Under("=", t),
     Arg(x, "BACKQ", t)}

Nested ==
    {Two(f, Two(g, L("a"), L("b")), L("c")) : f, g \in Binary}
    \cup {Two(f, L("a"), Two(g, L("b"), L("c"))) : f, g \in Binary}
    \cup UNION {Unary(Two(f, L("a"), L("b")), "c") : f \in Binary}
    \cup UNION {{Two(f, u, L("b")) : u \in Unary(L("a"), "c")} : f \in Binary}
    \cup UNION {{Two(f, L("a"), u) : u \in Unary(L("b"), "c")} : f \in Binary}
    \cup {Two(";", Two("IF", L("a"), L("b")), One("NOT", L("c")))}

Balanced == {Two(f, Two(g, L("a"), L("b")), Two(h, L("c"), L("d"))) : f, g, h \in Binary}

Session(lines, e, i, n, x) ==
    [code |-> [k \in DOMAIN lines |-> compile(lines[k], e)], tree |-> lines, e |-> e,
     iflag |-> i, notes |-> n, errs |-> x, absent |-> {"no"}, exact |-> FALSE]

\* One line, no note and no error.
Quiet ==
    LET quiet(t, e) == [Session(<<t>>, e, FALSE, 0, 0) EXCEPT !.exact = TRUE]
    IN  {quiet(t, e) : t \in Nested, e \in BOOLEAN} \cup {quiet(t, FALSE) : t \in Balanced}

\* Control structures around every way to start a process, and a function.
Bodies ==
    {L("a"), Two("PIPE", L("a"), L("f")), Arg("a", "BACKQ", L("b")), 
     Two("IF", One("TWIDDLE", Nil), L("exit")), Under("DUP", One("SUBSHELL", L("f")))}

Around(t) ==
    {Two("WHILE", Nil, Two(";", t, L("false"))),
     Tree("SWITCH", Nil, Two(";", t, Two(";", L("c"), Nil)), ""), Under("=", t)}
Loops(t) == {Under("FOR", t), Two("WHILE", L("c"), t)}

Define(f, t) == Tree("FN", Nil, t, f)

Structured ==
    {Session(<<Define("f", L("d")), t>>, FALSE, FALSE, 0, 0) : 
        t \in UNION {Around(b) \cup Loops(b) : b \in Bodies} \cup Around(Arg("a", "PIPEFD", L("b")))}
    \cup {Session(<<Two(";", Define("f", t), L("f")), Define("f", Nil)>>, TRUE, FALSE, 0, 0) :
            t \in Bodies \ {Two("PIPE", L("a"), L("f")), Under("DUP", One("SUBSHELL", L("f")))}}
    \cup {Session(<<Under("=", Nil), Two("PIPE", L("no"), One("SUBSHELL", L("no")))>>, FALSE, FALSE, 0, 0)}

\* Jobs in the background, collected by wait or while another is waited for.
Job(c) == One("&", L(c))
Jobs ==
    {Session(<<Two(";", Job("a"), t), L(w)>>, FALSE, FALSE, 0, 0) :
        t \in {L("b"), Job("b"), Two("PIPE", L("b"), L("wait")), Arg("b", "BACKQ", Job("c"))},
        w \in {"wait", "waitpid", "d"}}

\* A note or an error in the middle, with and without a terminal or a handler.
Disturbed ==
    {Session(<<h, t>>, FALSE, i, n, 1 - n) :
        h \in {Define("sigint", L("h")), Define("sighup", Nil), Define("sigexit", L("h"))},
        t \in {L("a"), L("exit"), Two("PIPE", L("a"), L("b")),
               One("SUBSHELL", Two(";", L("a"), L("b"))), Two(";", Job("a"), L("wait"))},
        i \in BOOLEAN, n \in {0, 1}}

\* Only Structured has sessions that may loop for ever.
Sessions ==
    LET finite == Quiet \cup Jobs \cup Disturbed
    IN  {P @@ [finite |-> TRUE] : P \in finite} \cup {P @@ [finite |-> FALSE] : P \in Structured}

-----------------------------------------------------------------------------
\* What each cell holds at least, found by following the code from its beginning.
Unseen == [argv |-> -1, redir |-> 0, local |-> 0, child |-> FALSE]
Meet(x, y) ==
    IF x = Unseen THEN y
    ELSE [argv |-> Min({x.argv, y.argv}), redir |-> Min({x.redir, y.redir}),
          local |-> Min({x.local, y.local}), child |-> x.child]
RECURSIVE Follow(_, _, _)
Follow(c, s, todo) ==
    IF todo = {} THEN s
    ELSE LET e == CHOOSE e \in todo : TRUE
             a == e[1]
             x == Meet(s[a], e[2])
             f == c[a].f
             Go(b, i, j, k) ==
                 <<b, [argv |-> x.argv + i, redir |-> x.redir + j, local |-> x.local + k,
                       child |-> x.child]>>
             New(b, j, k, child) ==
                 <<b, [argv |-> 0, redir |-> j, local |-> k, child |-> child]>>
             more ==
                 CASE f = "Xmark" -> {Go(a + 1, 1, 0, 0)}
                   [] f \in {"Xpopm", "Xdol", "Xdelfn", "Xsimple"} -> {Go(a + 1, -1, 0, 0)}
                   [] f \in {"Xassign", "Xmatch"} -> {Go(a + 1, -2, 0, 0)}
                   [] f = "Xlocal" -> {Go(a + 1, -2, 0, 1)}
                   [] f = "Xunlocal" -> {Go(a + 1, 0, 0, -1)}
                   [] f = "Xread" -> {Go(a + 1, -1, 1, 0)}
                   [] f = "Xdup" -> {Go(a + 1, 0, 1, 0)}
                   [] f = "Xpopredir" -> {Go(a + 1, 0, -1, 0)}
                   [] f \in {"Xtrue", "Xfalse", "Xif", "Xifnot"} ->
                        {Go(a + 1, 0, 0, 0), Go(c[a].a, 0, 0, 0)}
                   [] f = "Xjump" -> {Go(c[a].a, 0, 0, 0)}
                   [] f = "Xcase" -> {Go(a + 1, -1, 0, 0), Go(c[a].a, -1, 0, 0)}
                   [] f = "Xfor" -> {Go(a + 1, 0, 0, 0), Go(c[a].a, -1, 0, 0)}
                   [] f = "Xfn" -> {Go(c[a].a, -1, 0, 0), New(a + 1, 0, 1, FALSE)}
                   [] f \in {"Xasync", "Xsubshell"} ->
                        {Go(c[a].a, 0, 0, 0), New(a + 1, 0, x.local, TRUE)}
                   [] f = "Xpipefd" -> {Go(c[a].a, 0, 1, 0), New(a + 1, 1, x.local, TRUE)}
                   [] f = "Xbackq" -> {Go(c[a].a, -1, 0, 0), New(a + 1, 1, x.local, TRUE)}
                   [] f = "Xpipe" -> {Go(c[a].b, 0, 0, 0), New(a + 1, 1, x.local, TRUE),
                                      New(c[a].a, 1, x.local, FALSE)}
                   [] f \in {"Xreturn", "Xexit"} -> {}
                   [] OTHER -> {Go(a + 1, 0, 0, 0)}
             t == [s EXCEPT ![a] = x]
         IN  Follow(c, t, {d \in todo \cup more : Meet(t[d[1]], d[2]) # t[d[1]]})

MCShape(c) ==
    Follow(c, [a \in DOMAIN c |-> Unseen],
           {<<1, [argv |-> 0, redir |-> 0, local |-> 0, child |-> FALSE]>>})

-----------------------------------------------------------------------------
\* The meaning of tree t for a shell in state z: its status s, whether the
\* last if was not taken (n), whether it has exited (x), the commands that
\* were run to their end (ran) and those left running (bg).
RECURSIVE Eval(_, _, _), Leaves(_)

Leaves(t) ==
    CASE t.type = "nil" -> {}
      [] t.type = "SIMPLE" -> {t.str} \cup Leaves(t.c0)
      [] OTHER -> Leaves(t.c0) \cup Leaves(t.c1)

Check(z, e) == [z EXCEPT !.x = e /\ ~truestatus(z.s)]

Eval(t, e, z) ==
    LET Sub(c, f) ==      \* t's child c, run by a process of its own
            LET r == Eval(c, f, z) IN [z EXCEPT !.s = <<Exit(r.s)>>, !.ran = r.ran, !.bg = r.bg]
        l == Eval(t.c0, FALSE, z)
    IN  IF z.x THEN z ELSE
        CASE t.type = "nil" -> z
          [] t.type = "SIMPLE" ->
               LET y == IF t.c0.type = "BACKQ" THEN Sub(t.c0.c1, FALSE) ELSE z
               IN  Check([y EXCEPT !.s = <<out[t.str]>>, !.ran = @ \cup {t.str}], e)
          [] t.type = ";" -> Eval(t.c1, e, Eval(t.c0, e, z))
          [] t.type = "ANDAND" -> IF truestatus(l.s) /\ ~l.x THEN Eval(t.c1, e, l) ELSE l
          [] t.type = "OROR" -> IF truestatus(l.s) \/ l.x THEN l ELSE Eval(t.c1, e, l)
          [] t.type = "IF" ->
               IF ~truestatus(l.s) THEN [l EXCEPT !.n = TRUE]
               ELSE [Eval(t.c1, e, [l EXCEPT !.n = TRUE]) EXCEPT !.n = FALSE]
          [] t.type = "NOT" -> IF z.n THEN Eval(t.c0, e, z) ELSE z
          [] t.type = "BANG" ->
               LET r == Eval(t.c0, e, z)
               IN  IF r.x THEN r ELSE [r EXCEPT !.s = IF truestatus(@) THEN <<TEXT>> ELSE <<0>>]
          [] t.type = "PIPE" ->
               LET c == Sub(t.c0, e)
                   r == Eval(t.c1, e, z)
               IN  [r EXCEPT !.s = IF r.x THEN r.s ELSE c.s \o r.s,
                             !.ran = IF r.x THEN r.ran ELSE @ \cup c.ran,
                             !.bg = IF r.x THEN @ \cup Leaves(t.c0) ELSE @ \cup c.bg]
          [] t.type = "SUBSHELL" -> Check(Sub(t.c0, e), e)
          [] t.type = "&" -> [z EXCEPT !.bg = @ \cup Leaves(t.c0)]
          [] t.type \in {"REDIR", "="} -> Eval(t.c1, e, z)

Meaning(k) ==
    FoldLeft(LAMBDA z, t : Eval(t, prog.e, z),
             [s |-> <<0>>, n |-> FALSE, x |-> FALSE, ran |-> {}, bg |-> {}],
             SubSeq(prog.tree, 1, k))
-----------------------------------------------------------------------------
Quiescent == notes = prog.notes /\ errs = prog.errs

Ran == {c \in DOMAIN out : out[c] # -2}

\* Between two lines and at the end, $status (the exit code, at the end) is
\* what the lines mean, with the concatenated status of a pipeline, the ends
\* of subshells and backquotes, if and if not, && and ||, and -e; and the
\* commands that ran are those the lines call for.  In between, the processes
\* of pipelines, of & and of backquotes end in any order, and any of them may
\* be collected while the shell waits for another.
MeansWhatItSays ==
    prog.exact /\ Quiescent =>
        /\ Parsing(Main) =>
            LET z == Meaning(Top(Main).next)
            IN  /\ proc[Main].status = z.s /\ ~z.x
                /\ z.ran \subseteq Ran /\ Ran \subseteq z.ran \cup z.bg
        /\ proc[Main].st = "zombie" => proc[Main].code = Exit(Meaning(Len(prog.tree)).s)

=============================================================================
