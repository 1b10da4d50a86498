------------------------------- MODULE MkGraph -------------------------------
(***************************************************************************)
(* How mk builds the graph of a target from the rules of a mkfile          *)
(* (mk/rule.c, mk/match.c, mk/graph.c): addrule enters each rule, then     *)
(* graph() applies the rules to the target and to all it needs, looks for  *)
(* cycles, prunes the metarules that lead nowhere, lets regular rules      *)
(* override metarules, and spreads the attributes of rules over nodes.     *)
(* Module Mk evaluates such a graph.                                       *)
(*                                                                         *)
(* A name is a sequence of parts ("x", ".c"), a part with a leading dot    *)
(* being what the pattern & does not match.  A template is a name with at  *)
(* most one pattern: [pre, pat, suf], where pat is "%", "&" or "".         *)
(***************************************************************************)
EXTENDS Naturals, Sequences, SequencesExt, FiniteSets, TLC

CONSTANTS
    Mkfiles,    \* lists of declarations [targets, all, prereqs, recipe, attr]
    FileSets,   \* the sets of names of the files that may exist
    Goals,      \* the targets mk may be asked for
    Dotted,     \* the parts of a name that hold a dot
    nreps       \* how often a rule may be used on the way to a node ($NREP)

ASSUME NrepsAssumption == nreps \in Nat \ {0}

VARIABLES
    mkfile,     \* the declarations of the mkfile
    todo,       \* declarations not entered yet
    rules,      \* rules in the order of their numbers
    chain,      \* target |-> numbers of its rules, in the order they are tried
    metarules,  \* numbers of the metarules
    files,      \* the files that exist
    goal,
    phase,      \* what graph() does next, or how it ended
    node        \* name |-> [flags, time, arcs]

vars == <<mkfile, todo, rules, chain, metarules, files, goal, phase, node>>

nil == <<>>     \* no node: the arc of a rule without prerequisites

-----------------------------------------------------------------------------
(* mk/match.c *)

Name(t) == t.pre \o t.suf
Plain(t) == t.pat = ""

match(name, t) ==
    LET k == Len(t.pre)
        n == Len(name) - k - Len(t.suf)
        stem == SubSeq(name, k + 1, k + n)
    IN  /\ ~Plain(t) /\ n >= 0
        /\ IsPrefix(t.pre, name) /\ IsSuffix(t.suf, name)
        /\ t.pat = "&" => Range(stem) \cap Dotted = {}

Stem(name, t) == SubSeq(name, Len(t.pre) + 1, Len(name) - Len(t.suf))

subst(stem, t) == IF Plain(t) THEN Name(t) ELSE t.pre \o stem \o t.suf

-----------------------------------------------------------------------------
(* mk/rule.c *)

empty_recipe(r) == r.recipe = 0
empty_prereqs(r) == r.prereqs = <<>>
META(r) == "META" \in r.attr

Chain(t) == IF t \in DOMAIN chain THEN chain[t] ELSE <<>>

\* The rule of the declaration d for one of its targets.
NewRule(d, t) ==
    [target |-> t, prereqs |-> d.prereqs, recipe |-> d.recipe, alltargets |-> d.targets,
     attr |-> d.attr \cup IF Plain(t) /\ "REGEXP" \notin d.attr THEN {} ELSE {"META"}]

rcmp(i, t, prereqs) == rules[i].target = t /\ rules[i].prereqs = prereqs

\* Broken: the chain of the target is lost.
Broken_Link(c, n) == <<n>>
Link(c, n) == IF c = <<>> THEN <<n>> ELSE <<Head(c), n>> \o Tail(c)

\* addrule: a rule with the same target and prerequisites is replaced, and
\* keeps its place; another one goes second in the chain of its target.
addrule ==
    /\ phase = "parse" /\ todo # <<>>
    /\ LET d == Head(todo)
           t == Head(d.targets)
           r == NewRule([d EXCEPT !.targets = d.all], t)
           c == Chain(t)
           n == Len(rules) + 1
           same == SelectSeq([i \in 1 .. n - 1 |-> i], LAMBDA i : rcmp(i, t, d.prereqs))
       IN  /\ IF same # <<>>
              THEN /\ rules' = [rules EXCEPT ![Head(same)] = r]
                   /\ UNCHANGED <<chain, metarules>>
              ELSE /\ rules' = Append(rules, r)
                   /\ chain' = (t :> Link(c, n)) @@ chain
                   /\ metarules' = IF META(r) THEN Append(metarules, n) ELSE metarules
           /\ todo' = IF Len(d.targets) = 1 THEN Tail(todo)
                      ELSE <<[d EXCEPT !.targets = Tail(@)]>> \o Tail(todo)
    /\ UNCHANGED <<mkfile, files, goal, phase, node>>

-----------------------------------------------------------------------------
(* mk/graph.c: applyrules *)

newnode(name) ==
    [flags |-> IF name \in files THEN {"PROBABLE"} ELSE {}, time |-> name \in files, arcs |-> <<>>]

newarc(n, r, stem) == [n |-> n, r |-> r, stem |-> stem]

RECURSIVE applyrules(_, _, _)

\* The arcs of rule r for a target with this stem, after the graph has grown
\* by what its prerequisites need.
Apply(G, target, r, stem, cnt) ==
    LET up == [cnt EXCEPT ![r] = @ + 1]
    IN  IF empty_prereqs(rules[r])
        THEN [G EXCEPT ![target].arcs = Append(@, newarc(nil, r, stem))]
        ELSE FoldLeft(LAMBDA H, t :
                        LET K == applyrules(subst(stem, t), up, H)
                        IN  [K EXCEPT ![target].arcs = Append(@, newarc(subst(stem, t), r, stem))],
                      G, rules[r].prereqs)

NoEffect(r) == empty_recipe(r) /\ empty_prereqs(r)

ApplyRegular(G, target, r, cnt) ==
    IF NoEffect(rules[r]) \/ cnt[r] >= nreps THEN G
    ELSE Apply([G EXCEPT ![target].flags = @ \cup {"PROBABLE"}], target, r, <<>>, cnt)

\* A rule with the R attribute is matched, and then nothing is done with it.
ApplyMeta(G, target, r, cnt) ==
    LET as == G[target].arcs
        R == rules[r]
    IN  IF \/ NoEffect(R)
           \/ "NOVIRT" \in R.attr /\ as # <<>> /\ "VIR" \in rules[Last(as).r].attr
           \/ "REGEXP" \in R.attr
           \/ ~match(target, R.target)
           \/ cnt[r] >= nreps
        THEN G
        ELSE Apply(G, target, r, Stem(target, R.target), cnt)

\* Graph G after target has been looked up, or added with all it needs.
applyrules(target, cnt, G) ==
    IF target \in DOMAIN G THEN G
    ELSE LET plain == [pre |-> target, pat |-> "", suf |-> <<>>]
             regular == FoldLeft(LAMBDA H, r : ApplyRegular(H, target, r, cnt),
                                 (target :> newnode(target)) @@ G, Chain(plain))
         IN  FoldLeft(LAMBDA H, r : ApplyMeta(H, target, r, cnt), regular, metarules)

-----------------------------------------------------------------------------
(* mk/graph.c: the passes over the graph *)

Succ(G, n) == {a.n : a \in Range(G[n].arcs)} \ {nil}

RECURSIVE Closure(_, _)
Closure(G, S) == LET T == S \cup UNION {Succ(G, n) : n \in S}
                 IN  IF T = S THEN S ELSE Closure(G, T)

\* Broken: the flag CYCLE is never cleared, so that a node reached twice is a cycle.
Broken_cyclechk(G, n, path) ==
    \E m \in Closure(G, {n}) : \E p, q \in Closure(G, {n}) :
        p # q /\ m \in Succ(G, p) \cap Succ(G, q)

\* The nodes with the flag CYCLE are those on the path to n.
RECURSIVE cyclechk(_, _, _)
cyclechk(G, n, path) ==
    n \in path \/ \E p \in Succ(G, n) : cyclechk(G, p, path \cup {n})

\* enum Node_flag, for the conversion of `flags & flag' to bool, which has 8 bits.
Bit == [READY |-> 4, PROBABLE |-> 256, VACUOUS |-> 512]
\* Broken: a node visited before is vacuous.
Broken_AsBool(flags, f) == "READY" \in flags
AsBool(flags, f) == f \in flags /\ Bit[f] % 256 # 0

\* The graph after vacuous(n), and what it returns.  The rules in `keep' have an arc
\* that stays, which keeps their other arcs.
RECURSIVE vacuous(_, _)
vacuous(G, n) ==
    IF "READY" \in G[n].flags THEN [g |-> G, vac |-> AsBool(G[n].flags, "VACUOUS")]
    ELSE LET arc(s, a) ==
                LET v == IF a.n = nil THEN [g |-> s.g, vac |-> FALSE] ELSE vacuous(s.g, a.n)
                IN  [g |-> v.g, keep |-> s.keep \cup IF v.vac /\ META(rules[a.r]) THEN {} ELSE {a.r}]
             s == FoldLeft(arc, [g |-> [G EXCEPT ![n].flags = @ \cup {"READY"}], keep |-> {}],
                           G[n].arcs)
             vac == "PROBABLE" \notin G[n].flags /\ s.keep = {}
         IN  [g |-> [s.g EXCEPT ![n].arcs = SelectSeq(@, LAMBDA a : a.r \in s.keep),
                                ![n].flags = IF vac THEN @ \cup {"VACUOUS"} ELSE @],
              vac |-> vac]

\* Broken: nothing goes, nothing is reported.
Broken_Resolve(as) == [master |-> 0, gone |-> {}, error |-> FALSE]

\* ambiguous() on the arcs of one node: which arc is the master, which ones go, and
\* whether two recipes are left.
Resolve(as) ==
    LET arc(s, i) ==
            LET r == rules[as[i].r]
                m == rules[as[s.master].r]
            IN  CASE empty_recipe(r) -> s
                  [] ~empty_recipe(r) /\ s.master = 0 -> [s EXCEPT !.master = i]
                  [] OTHER ->
                     CASE r.recipe = m.recipe -> s
                       [] r.recipe # m.recipe /\ META(m) /\ ~META(r) ->
                            [s EXCEPT !.master = i, !.gone = @ \cup {s.master}]
                       [] r.recipe # m.recipe /\ ~META(m) /\ META(r) ->
                            [s EXCEPT !.gone = @ \cup {i}]
                       [] OTHER -> [s EXCEPT !.error = TRUE]
    IN  FoldLeft(arc, [master |-> 0, gone |-> {}, error |-> FALSE], [i \in 1 .. Len(as) |-> i])

togo(as, gone) ==
    LET left == SelectSeq([i \in 1 .. Len(as) |-> i], LAMBDA i : i \notin gone)
    IN  [k \in 1 .. Len(left) |-> as[left[k]]]

Flag == [VIR |-> "VIRTUAL", DEL |-> "DELETE", NOREC |-> "NORECIPE"]

FlagsOf(n) ==
    LET attrs == UNION {rules[a.r].attr : a \in Range(n.arcs)}
    IN  n.flags \cup {Flag[x] : x \in attrs \cap DOMAIN Flag}

\* Broken: a virtual node keeps the time of the file of that name.
Broken_Attributes(n) == [n EXCEPT !.flags = FlagsOf(n)]

\* attribute() on one node: the attributes of its rules become flags, and a virtual
\* node has no time.
Attributes(n) ==
    [n EXCEPT !.flags = FlagsOf(n), !.time = @ /\ "VIRTUAL" \notin FlagsOf(n)]

-----------------------------------------------------------------------------
(* mk/graph.c: graph() *)

Init ==
    /\ mkfile \in Mkfiles /\ todo = mkfile
    /\ rules = <<>> /\ chain = <<>> /\ metarules = <<>>
    /\ files \in FileSets /\ goal \in Goals
    /\ phase = "parse" /\ node = <<>>

Applied == applyrules(goal, [r \in 1 .. Len(rules) |-> 0], <<>>)

ApplyRules ==
    /\ phase = "parse" /\ todo = <<>>
    /\ node' = Applied
    /\ phase' = "cyclechk"

Cyclechk ==
    /\ phase = "cyclechk"
    /\ phase' = IF cyclechk(node, goal, {}) THEN "cycle" ELSE "vacuous"
    /\ UNCHANGED node

\* The root is made PROBABLE first.
Vacuous ==
    /\ phase = "vacuous"
    /\ node' = vacuous([node EXCEPT ![goal].flags = @ \cup {"PROBABLE"}], goal).g
    /\ phase' = "ambiguous"

\* The prerequisites are looked at before arcs go.
Ambiguous ==
    /\ phase = "ambiguous"
    /\ LET seen == Closure(node, {goal})
       IN  IF \E n \in seen : Resolve(node[n].arcs).error
           THEN phase' = "exit" /\ UNCHANGED node
           ELSE /\ phase' = "attribute"
                /\ node' = [n \in DOMAIN node |->
                             IF n \in seen
                             THEN [node[n] EXCEPT !.arcs = togo(@, Resolve(@).gone)]
                             ELSE node[n]]

Attribute ==
    /\ phase = "attribute"
    /\ node' = [n \in DOMAIN node |->
                  IF n \in Closure(node, {goal}) THEN Attributes(node[n]) ELSE node[n]]
    /\ phase' = "done"

graph == /\ ApplyRules \/ Cyclechk \/ Vacuous \/ Ambiguous \/ Attribute
         /\ UNCHANGED <<mkfile, todo, rules, chain, metarules, files, goal>>

Next == addrule \/ graph

Spec == Init /\ [][Next]_vars

-----------------------------------------------------------------------------
(***************************************************************************)
(* Properties.                                                             *)
(***************************************************************************)
Reached == IF node = <<>> THEN {} ELSE Closure(node, {goal})

\* cyclechk() stops mk exactly when some node needs itself: a path of recursive calls
\* comes back to a node if and only if a node is among the nodes it leads to.
CycleFound ==
    phase \in {"cycle", "vacuous"} =>
        (phase = "cycle" <=> \E n \in Reached : n \in Closure(node, Succ(node, n)))

\* The declarations of regular rules for a target that count: of those with the same
\* prerequisites, the last one.
Declared(n) ==
    LET for(d) == \E t \in Range(d.all) : Plain(t) /\ Name(t) = n
        last(i) == ~ \E j \in i + 1 .. Len(mkfile) :
                        for(mkfile[j]) /\ mkfile[j].prereqs = mkfile[i].prereqs
    IN  {mkfile[i] : i \in {k \in 1 .. Len(mkfile) :
                             for(mkfile[k]) /\ last(k) /\ "REGEXP" \notin mkfile[k].attr}}

\* However the rules for a target are spread over the mkfile, the finished graph has
\* an arc to every prerequisite any of them names, with the recipe given last for
\* that list: neither the order of addrule()'s chains, nor the pruning of vacuous
\* rules, nor the resolution of ambiguities loses a regular rule (mk.ms:934).
RegularRulesKept ==
    phase = "done" =>
        \A n \in Reached : \A d \in Declared(n) : \A p \in Range(d.prereqs) :
            \E a \in Range(node[n].arcs) :
                a.n = Name(p) /\ rules[a.r].prereqs = d.prereqs /\ rules[a.r].recipe = d.recipe

Recipes(n) == {rules[a.r].recipe : a \in Range(node[n].arcs)} \ {0}

\* When graph() returns there is one way to build each target (mk.ms:891): ambiguous()
\* has left a node at most one recipe, and if a rule names the target then it is the
\* recipe of such a rule, not that of a metarule.
OneRecipe ==
    phase = "done" =>
        \A n \in Reached :
            LET own == {d.recipe : d \in Declared(n)} \ {0}
            IN  Cardinality(Recipes(n)) <= 1 /\ (own # {} => Recipes(n) = own)

\* Nodes that exist or can be derived: a file, a target of a regular rule, the goal,
\* or a target that an arc of a metarule leads from to such a node, or to none.
RECURSIVE Derivable(_, _)
Derivable(G, S) ==
    LET T == S \cup {n \in DOMAIN G : \E a \in Range(G[n].arcs) : a.n \in S \cup {nil}}
    IN  IF T = S THEN S ELSE Derivable(G, T)
CanBeMade(G) == Derivable(G, {goal} \cup {n \in DOMAIN G : "PROBABLE" \in G[n].flags})

\* vacuous() prunes only what leads nowhere: a metarule one of whose prerequisites
\* exists or can be derived keeps all of its arcs, however many other rules share
\* those prerequisites and whatever the order in which the nodes are visited.
PrunesOnlyVacuous ==
    phase = "ambiguous" =>
        LET before == Applied
            can == CanBeMade(before) \cup {nil}
        IN  \A n \in Reached : \A a, b \in Range(before[n].arcs) :
                a.r = b.r /\ b.n \in can => a \in Range(node[n].arcs)

\* "A rule applies to a target only when its prerequisites exist or can be derived"
\* (mk.ms:1060): after vacuous(), a metarule that still has arcs has a prerequisite
\* that does.
AppliesOnlyIfDerivable ==
    phase = "ambiguous" =>
        LET can == CanBeMade(Applied) \cup {nil}
        IN  \A n \in Reached : \A a \in Range(node[n].arcs) :
                META(rules[a.r]) => \E b \in Range(node[n].arcs) : b.r = a.r /\ b.n \in can

\* In the finished graph a node has the flags of the V, D and N attributes exactly of
\* the rules that still lead from it, and a virtual node's file, should one exist, has no
\* time.  A rule that vacuous() or ambiguous() took away leaves no trace on a node that is
\* still used (attribute() runs last and never clears a flag).
FlagsOfKeptRules ==
    phase = "done" =>
        \A n \in Reached :
            LET kept == UNION {rules[a.r].attr : a \in Range(node[n].arcs)}
            IN  /\ \A x \in {"VIR", "DEL", "NOREC"} : Flag[x] \in node[n].flags <=> x \in kept
                /\ node[n].time = (n \in files /\ "VIR" \notin kept)
=============================================================================
