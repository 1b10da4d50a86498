-------------------------------- MODULE MCMk --------------------------------
(***************************************************************************)
(* Mk for TLC.                                                             *)
(***************************************************************************)
EXTENDS Mk, SequencesExt, TLC

\* A rule is [t |-> targets, p |-> prerequisites]; the arcs of a node are those of the
\* rules for it, in order.
RuleArcs(r, pre) == IF pre = <<>> THEN <<[n |-> nil, r |-> r]>>
                    ELSE [i \in 1 .. Len(pre) |-> [n |-> pre[i], r |-> r]]
ArcsOf(rules, n) ==
    FoldLeft(LAMBDA as, r : IF n \in Range(rules[r].t)
                            THEN as \o RuleArcs(r, rules[r].p) ELSE as,
             <<>>, [r \in 1 .. Len(rules) |-> r])
Rule(t, p) == [t |-> t, p |-> p]

\* The graph of a list of rules, of which those in norecipe have no recipe.
Graph(rules, norecipe, virtual, delete, nattr, targets) ==
    [arcs |-> [n \in Node |-> ArcsOf(rules, n)],
     all |-> [r \in 1 .. Len(rules) |-> rules[r].t],
     recipe |-> (1 .. Len(rules)) \ norecipe,
     VIRTUAL |-> virtual, DELETE |-> delete, NORECIPE |-> nattr, targets |-> targets, options |-> {{}}]

\* All graphs on the nodes 1..N in which node 1 is a source file, every other node has
\* a rule of its own with a recipe, all nodes are needed for the target N, and no arc
\* joins two nodes that a longer path joins.
Sorted(S) == SetToSortSeq(S, LAMBDA a, b : a < b)
Below(f, p) == LET below[m \in Node] ==
                      IF m = 1 THEN {} ELSE f[m] \cup UNION {below[q] : q \in f[m]}
               IN  below[p]
Prerequisites == {f \in [2 .. N -> SUBSET (1 .. N - 1)] :
                    /\ \A n \in 2 .. N : \A p \in f[n] : p < n
                    /\ \A p \in 1 .. N - 1 : \E n \in 2 .. N : p \in f[n]
                    /\ \A n \in 2 .. N : \A p, q \in f[n] : q \notin Below(f, p)}
AllGraphs ==
    {Graph([i \in 1 .. N - 1 |-> Rule(<<i + 1>>, Sorted(f[i + 1]))], {}, {}, {}, {}, <<N>>)
        : f \in Prerequisites}

Symmetry == Permutations(Pid)

\* Graphs with the other features of a mkfile.
Features ==
  { \* all:V: a b    a:D: c    b:D: c      (all has no recipe)
    Graph(<<Rule(<<4>>, <<2, 3>>), Rule(<<2>>, <<1>>), Rule(<<3>>, <<1>>)>>,
          {1}, {4}, {2, 3}, {}, <<4>>),
    \* y.c y.h:D: y    prog: y.c    prog: y.h   (no recipe)
    Graph(<<Rule(<<2, 3>>, <<1>>), Rule(<<4>>, <<2>>), Rule(<<4>>, <<3>>)>>,
          {3}, {}, {2, 3}, {}, <<4>>),
    \* a:      b:      c: a     prog: b c
    Graph(<<Rule(<<1>>, <<>>), Rule(<<2>>, <<>>), Rule(<<3>>, <<1>>), Rule(<<4>>, <<2, 3>>)>>,
          {}, {}, {}, {}, <<4>>),
    \* b: a (no recipe)   prog: b
    Graph(<<Rule(<<2>>, <<1>>), Rule(<<3, 4>>, <<2>>)>>, {1}, {}, {}, {}, <<4>>) }

\* And one with the N attribute.    h:N: c    b: h    test:V: b
AllFeatures == Features \cup
  { Graph(<<Rule(<<2>>, <<1>>), Rule(<<3>>, <<2>>), Rule(<<4>>, <<3>>)>>,
          {1}, {4}, {}, {2}, <<4>>) }

\* Two targets, made one after the other, with a common prerequisite.
TwoTargets ==
  { Graph(<<Rule(<<2>>, <<1>>), Rule(<<3>>, <<2>>), Rule(<<4>>, <<2, 3>>)>>,
          {}, {}, {}, {}, <<3, 4>>),
    Graph(<<Rule(<<2>>, <<1>>), Rule(<<3>>, <<2>>), Rule(<<4>>, <<2>>)>>,
          {3}, {4}, {2}, {}, <<4, 3>>) }

\* The graphs with features, for mk -n and mk -t, and some for mk -a.
Optioned == {[x EXCEPT !.options = {{"n"}, {"t"}}] : x \in AllFeatures}
    \cup {[x EXCEPT !.options = {{"a"}}] : x \in {y \in AllFeatures : y.VIRTUAL # {} \/ Len(y.all) = 2}}

ManyGraphs == AllGraphs \cup AllFeatures \cup TwoTargets \cup Optioned

\* y.c y.h: y    y.h: d    d: y    prog: y.c y.h
SiblingPrereq ==
  { Graph(<<Rule(<<3, 4>>, <<1>>), Rule(<<4>>, <<2>>), Rule(<<2>>, <<1>>), Rule(<<5>>, <<3, 4>>)>>,
          {2}, {}, {}, {}, <<5>>) }

\* %.a %.b: %.c    x.b: x.d    r: x.b x.a      The second rule overrides the first for x.b.
Override ==
  { [Graph(<<Rule(<<3, 4>>, <<1>>), Rule(<<4>>, <<2>>), Rule(<<5>>, <<4, 3>>)>>,
           {}, {}, {}, {}, <<5>>)
       EXCEPT !.arcs[4] = RuleArcs(2, <<2>>)] }

\* y.c y.h: y    s: y.h    prog: y.c y.h      and mk -s prog s
PartOfTargets ==
  { Graph(<<Rule(<<2, 3>>, <<1>>), Rule(<<4>>, <<3>>), Rule(<<5>>, <<2, 3>>)>>,
          {}, {}, {}, {}, <<5, 4>>) }

\* c:     a: c    b: c     and mk -k a b
NoPrereqs ==
  { Graph(<<Rule(<<1>>, <<>>), Rule(<<2>>, <<1>>), Rule(<<3>>, <<1>>)>>,
          {}, {}, {}, {}, <<2, 3>>) }
=============================================================================
