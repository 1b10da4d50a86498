----------------------------- MODULE MCMkGraph -----------------------------
(***************************************************************************)
(* MkGraph for TLC: small mkfiles about a program "x" with intermediate    *)
(* files x.a, x.b and x.c.                                                 *)
(***************************************************************************)
EXTENDS MkGraph

T(s) == [pre |-> s, pat |-> "", suf |-> <<>>]
P(s) == [pre |-> <<>>, pat |-> "%", suf |-> s]
A(s) == [pre |-> <<>>, pat |-> "&", suf |-> s]
Decl(targets, prereqs, recipe, attr) ==
    [targets |-> targets, all |-> targets, prereqs |-> prereqs, recipe |-> recipe, attr |-> attr]

x == <<"x">>
xa == <<"x", ".a">>
xb == <<"x", ".b">>
xc == <<"x", ".c">>
a == <<".a">>
b == <<".b">>
c == <<".c">>

MCDotted == {".a", ".b", ".c"}

\* Metarules; the number is the recipe.
Metas ==
    { Decl(<<P(<<>>)>>, <<P(a)>>, 1, {}),
      Decl(<<P(<<>>)>>, <<P(a), P(c)>>, 2, {"NOVIRT"}),
      Decl(<<A(<<>>)>>, <<P(b)>>, 3, {"VIR"}),
      Decl(<<P(a)>>, <<P(b)>>, 4, {}),
      Decl(<<P(a), P(b)>>, <<P(c)>>, 5, {"DEL"}),
      Decl(<<P(b)>>, <<>>, 6, {}),
      Decl(<<P(<<>>)>>, <<T(xc)>>, 0, {"NOREC"}),
      Decl(<<P(a)>>, <<P(a), T(x)>>, 7, {}) }

\* Rules for one target.
Regulars ==
    { Decl(<<T(x)>>, <<T(xa)>>, 11, {}),
      Decl(<<T(x)>>, <<T(xa)>>, 12, {"VIR"}),
      Decl(<<T(x), T(xa)>>, <<T(xb)>>, 0, {}),
      Decl(<<T(x)>>, <<>>, 13, {}),
      Decl(<<T(xa)>>, <<>>, 0, {}),
      Decl(<<T(xb), P(a)>>, <<T(xc)>>, 14, {"DEL"}),
      Decl(<<T(xb)>>, <<T(xa)>>, 15, {}),
      Decl(<<T(xb)>>, <<T(xc)>>, 16, {"REGEXP"}) }

Lists(S, n) == UNION {[1 .. k -> S] : k \in 1 .. n}
MCMkfiles == Lists(Metas \cup Regulars, 3)
MCFileSets == {{}, {xa}, {xb}, {xc}, {x, xc}}
MCGoals == {x, xa}

\* Three ways from %, two of which need a source that may not exist.
MetaMkfiles ==
    {<<Decl(<<P(<<>>)>>, <<P(a)>>, 1, {}), Decl(<<P(a)>>, <<P(c)>>, 2, {}),
       Decl(<<P(<<>>)>>, <<P(c)>>, 3, {}), Decl(<<P(<<>>)>>, <<P(b)>>, 4, {})>>}
=============================================================================
