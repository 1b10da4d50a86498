---------------------------- MODULE MkWorkProofs ----------------------------
(***************************************************************************)
(* Proofs about the evaluation of a dependency graph by mk, for every      *)
(* graph, every number of processes and every order in which the recipes   *)
(* end.                                                                    *)
(***************************************************************************)
EXTENDS Mk, TLAPS

\* Time for a leaf: in a module of this size tlapm itself is busy for seconds at a time.
USE SMTT(20), ZenonT(20)

-----------------------------------------------------------------------------
(***************************************************************************)
(* Sequences.                                                              *)
(***************************************************************************)
IsSeq(q) == \E S : q \in Seq(S)

\* What is used of a sequence.
LEMMA SeqIs ==
    ASSUME NEW q, IsSeq(q)
    PROVE  Len(q) \in Nat /\ DOMAIN q = 1 .. Len(q) /\ (q = <<>> <=> Len(q) = 0)
  <1>1. PICK S : q \in Seq(S)
    BY Zenon DEF IsSeq
  <1> QED BY <1>1

\* A call is pushed, a job is added.
LEMMA AppendIs ==
    ASSUME NEW q, NEW t, IsSeq(q)
    PROVE  /\ IsSeq(Append(q, t)) /\ Len(Append(q, t)) = Len(q) + 1
           /\ Append(q, t) # <<>>
           /\ \A i \in 1 .. Len(q) : Append(q, t)[i] = q[i]
           /\ Append(q, t)[Len(q) + 1] = t
  <1>1. PICK S : q \in Seq(S)
    BY ZenonT(30) DEF IsSeq
  <1>2. q \in Seq(S \cup {t})
    BY <1>1
  <1>3. Append(q, t) \in Seq(S \cup {t}) /\ Len(q) \in Nat
    BY <1>1, <1>2
  <1> QED BY <1>2, <1>3 DEF IsSeq

-----------------------------------------------------------------------------
(***************************************************************************)
(* The scheduler.  Every step of the evaluation that changes its variables *)
(* is one of its actions, and what it relies on, that no job is run twice  *)
(* and that run() and waitup() are called by mk() alone, is so.            *)
(***************************************************************************)
\* The bound on the number of jobs is large enough.
Bounded == Len(job) <= MaxJobs
JobSeq == IsSeq(job)

\* The options do not change.
LEMMA OptsFixed == [Next]_vars => UNCHANGED <<g, opts>> /\ dry' = dry
  <1>1. [Next]_vars => UNCHANGED <<g, opts>>
    BY Zenon DEF Next, MkStep, Work, WorkSeen, WorkLeaf, WorkArc, WorkBack, WorkNotReady,
           WorkUpToDate, DoNoRecipe, DoRecipe, TouchFails, MkStart, MkExits, MkLoop, MkWorked,
           MkEmpty, MkAfter, MkDrain, MkReturn, MkReap, MkEndUpdate, MkNoChild, MkExit,
           RecipeEnds, nodeVars, vars
  <1> QED BY <1>1, Zenon DEF dry, nflag, tflag

\* A step of the evaluation that leaves the scheduler alone.
LEMMA Stutters == UNCHANGED schedVars => UNCHANGED R!vars
  BY Zenon DEF schedVars, R!vars, R!queueVars, R!slotVars

\* Each step is one of the scheduler, or leaves it alone.
LEMMA SchedStep ==
    JobSeq /\ Bounded' /\ [Next]_vars => [R!OptNext]_R!optVars /\ JobSeq'
  <1> SUFFICES ASSUME IsSeq(job), Bounded', [Next]_vars
               PROVE  (R!Next \/ UNCHANGED R!vars) /\ IsSeq(job')
    BY OptsFixed, Zenon DEF R!OptNext, R!optVars, JobSeq
  <1>1. CASE WorkSeen \/ WorkArc \/ WorkBack \/ WorkNotReady \/ WorkUpToDate
             \/ MkStart \/ MkLoop \/ MkReturn
    BY <1>1, Stutters, Zenon
       DEF WorkSeen, WorkArc, WorkBack, WorkNotReady, WorkUpToDate, MkStart, MkLoop, MkReturn
  <1>2. CASE WorkLeaf \/ DoNoRecipe \/ TouchFails \/ MkEmpty \/ MkDrain \/ MkWorked \/ MkAfter
             \/ MkExits
    BY <1>2, Stutters, Zenon
       DEF WorkLeaf, DoNoRecipe, TouchFails, MkEmpty, MkDrain, MkWorked, MkAfter, MkExits, mkVars,
           R!Next
  <1>3. CASE DoRecipe
    <2>1. IsSeq(job') /\ Len(job') = Len(job) + 1
      BY <1>3, AppendIs, Zenon DEF DoRecipe
    <2>2. Len(job) + 1 \in Job
      BY <2>1, SeqIs, MaxJobsAssumption DEF Job, Bounded
    <2> QED BY <1>3, <2>1, <2>2, Zenon DEF DoRecipe, R!Next
  <1>4. CASE (\E p \in Pid : MkReap(p)) \/ MkEndUpdate \/ MkNoChild \/ MkExit
    BY <1>4, Zenon DEF MkReap, MkEndUpdate, MkNoChild, MkExit, R!Next, mkVars
  <1>5. ASSUME NEW p \in Pid, NEW st \in R!Status, RecipeEnds(p, st)
        PROVE  R!Next /\ IsSeq(job')
    BY <1>5, Zenon DEF RecipeEnds, R!Next, mkVars
  <1>6. CASE UNCHANGED vars
    BY <1>6, Stutters, Zenon DEF vars, mkVars
  <1> QED BY <1>1, <1>2, <1>3, <1>4, <1>5, <1>6, Zenon DEF Next, MkStep, Work

\* What module MkRun says of the scheduler therefore holds of the evaluation.
LEMMA UsesTheScheduler == Spec /\ []Bounded => R!Spec
  <1>1. Init => R!Init /\ JobSeq
    BY <<>> \in Seq({}), ZenonT(30) DEF Init, JobSeq, IsSeq
  <1> QED BY <1>1, SchedStep, PTL DEF Spec, R!Spec

-----------------------------------------------------------------------------
(***************************************************************************)
(* The graph x and the stack s of the activations of work().               *)
(***************************************************************************)
PrereqsOf(x, n) == {x.arcs[n][i].n : i \in 1 .. Len(x.arcs[n])} \ {nil}
ReachOf(x, n) ==
    {m \in Node : \A S \in SUBSET Node :
                     n \in S /\ (\A y \in S : PrereqsOf(x, y) \subseteq S) => m \in S}

WorkFrame == [node : Node, at : {"enter", "arc", "back"}, i : Nat \ {0},
              ready : BOOLEAN, weoutofdate : BOOLEAN]

\* The node an activation has called work() for, and those it is done with.
Child(x, f) == x.arcs[f.node][f.i].n
Visited(x, f) ==
    {x.arcs[f.node][k].n : k \in {j \in 1 .. Len(x.arcs[f.node]) : j < f.i}} \ {nil}

\* The stack is a path of the graph from rt.
FrameOK(x, rt, f) ==
    /\ f.node \in ReachOf(x, rt)
    /\ f.at = "enter" => f.i = 1
    /\ f.at = "back" => f.i <= Len(x.arcs[f.node]) /\ Child(x, f) # nil
PathOK(x, rt, s) ==
    /\ \A k \in 1 .. Len(s) : FrameOK(x, rt, s[k])
    /\ s # <<>> => s[1].node = rt
    /\ \A k \in 1 .. Len(s) - 1 : s[k].at = "back" /\ s[k + 1].node = Child(x, s[k])
    /\ \A k, l \in 1 .. Len(s) : k < l => s[l].node < s[k].node

\* Prerequisites that were found made are not worked on again further up the stack.
Settled(x, md, s) ==
    \A k \in 1 .. Len(s) : s[k].ready =>
        /\ \A p \in Visited(x, s[k]) : "NOTMADE" \notin md[p]
        /\ \A l \in k + 1 .. Len(s) : s[l].at # "enter" => s[l].node \notin Visited(x, s[k])

\* A node that is to be made is out of date, now as when work() found it so.
Old(x, all, tm, f) ==
    \/ all \/ tm[f.node] = 0
    \/ \E p \in Visited(x, f) : outofdate(tm, f.node, p)
Reasons(x, all, tm, s) ==
    \A k \in 1 .. Len(s) : s[k].ready /\ s[k].weoutofdate => Old(x, all, tm, s[k])

\* A round of work() that starts nothing has met a node that is being made.
Stuck(x, rt, md) == \E m \in ReachOf(x, rt) : "BEINGMADE" \in md[m]
Blocked(x, rt, md, s) ==
    /\ \A k \in 1 .. Len(s) : /\ s[k].at # "enter" => md[s[k].node] = NOTMADE
                              /\ ~s[k].ready => Stuck(x, rt, md)
    /\ s # <<>> /\ s[Len(s)].at = "back" /\ "NOTMADE" \in md[Child(x, s[Len(s)])]
          => Stuck(x, rt, md)
    /\ s = <<>> /\ "NOTMADE" \in md[rt] => Stuck(x, rt, md)

\* The operators of module Mk are these, for its graph.
LEMMA GraphIs == \A n : Prereqs(n) = PrereqsOf(g, n) /\ Reach(n) = ReachOf(g, n)
  BY Zenon DEF Prereqs, PrereqsOf, Reach, ReachOf, Arcs

\* The next target.
LEMMA TargetsAre ==
    ASSUME NEW x \in Graphs, NEW i \in 0 .. Len(x.targets), i < Len(x.targets)
    PROVE  i + 1 \in 0 .. Len(x.targets) /\ i + 1 # 0 /\ x.targets[i + 1] \in Node
  <1>1. x.targets \in Seq(Node)
    BY GraphsAssumption, Zenon DEF IsGraph
  <1>2. Len(x.targets) \in Nat
    BY <1>1
  <1> QED BY <1>1, <1>2

\* The arcs of a node.
LEMMA ArcsAre ==
    ASSUME NEW x \in Graphs, NEW n \in Node
    PROVE  /\ n \in Nat \ {0} /\ Len(x.arcs[n]) \in Nat
           /\ \A i \in 1 .. Len(x.arcs[n]) :
                /\ x.arcs[n][i].n \in 0 .. n - 1
                /\ x.arcs[n][i].n # nil => x.arcs[n][i].n \in Node
                /\ n \in Range(x.all[x.arcs[n][i].r])
  <1>1. IsGraph(x)
    BY GraphsAssumption, Zenon
  <1>2. n \in Nat \ {0} /\ n <= N /\ N \in Nat
    BY NAssumption DEF Node
  <1>3. Len(x.arcs[n]) \in Nat
    BY <1>1 DEF IsGraph
  <1>4. ASSUME NEW i \in 1 .. Len(x.arcs[n])
        PROVE  /\ x.arcs[n][i].n \in 0 .. n - 1
               /\ \E k \in 1 .. Len(x.all[x.arcs[n][i].r]) : x.all[x.arcs[n][i].r][k] = n
               /\ x.arcs[n][i].r \in DOMAIN x.all /\ x.all \in Seq(Seq(Node))
    <2> DEFINE A == [n : Node \cup {nil}, r : DOMAIN x.all]
    <2>1. x.arcs[n] \in Seq(A) /\ x.all \in Seq(Seq(Node))
      BY <1>1, Zenon DEF IsGraph
    <2>2. x.arcs[n][i] \in A
      <3> HIDE DEF A
      <3> QED BY <2>1
    <2>3. x.arcs[n][i].r \in DOMAIN x.all
      BY <2>2, Zenon
    <2>4. /\ x.arcs[n][i].n \in 0 .. n - 1
          /\ \E k \in 1 .. Len(x.all[x.arcs[n][i].r]) : x.all[x.arcs[n][i].r][k] = n
      BY <1>1, Zenon DEF IsGraph
    <2> QED BY <2>1, <2>3, <2>4, ZenonT(30)
  <1>5. ASSUME NEW i \in 1 .. Len(x.arcs[n]) PROVE n \in Range(x.all[x.arcs[n][i].r])
    <2>1. x.all[x.arcs[n][i].r] \in Seq(Node)
      BY <1>4, SMTT(30)
    <2>2. DOMAIN x.all[x.arcs[n][i].r] = 1 .. Len(x.all[x.arcs[n][i].r])
      BY <2>1
    <2> QED BY <1>4, <2>2, Zenon DEF Range
  <1>6. ASSUME NEW i \in 1 .. Len(x.arcs[n]), x.arcs[n][i].n # nil
        PROVE  x.arcs[n][i].n \in Node
    BY <1>2, <1>4, <1>6 DEF nil, Node
  <1> QED BY <1>2, <1>3, <1>4, <1>5, <1>6, ZenonT(30)

\* The nodes of a call of mk().
LEMMA ReachIs ==
    ASSUME NEW x \in Graphs, NEW n \in Node
    PROVE  /\ n \in ReachOf(x, n) /\ ReachOf(x, n) \subseteq Node
           /\ \A m \in ReachOf(x, n) : PrereqsOf(x, m) \subseteq ReachOf(x, n)
  <1>1. n \in ReachOf(x, n) /\ ReachOf(x, n) \subseteq Node
    BY Zenon DEF ReachOf
  <1>2. ASSUME NEW m \in ReachOf(x, n), NEW p \in PrereqsOf(x, m) PROVE p \in ReachOf(x, n)
    <2>1. m \in Node
      BY <1>1, Zenon
    <2>2. p \in Node
      BY <1>2, <2>1, ArcsAre, Zenon DEF PrereqsOf
    <2>3. ASSUME NEW S \in SUBSET Node, n \in S, \A y \in S : PrereqsOf(x, y) \subseteq S
          PROVE  p \in S
      <3>1. m \in S
        BY <2>3, Zenon DEF ReachOf
      <3> QED BY <2>3, <3>1, Zenon
    <2> QED BY <2>2, <2>3, Zenon DEF ReachOf
  <1> QED BY <1>1, <1>2, Zenon

-----------------------------------------------------------------------------
(***************************************************************************)
(* What work() does to its stack: it returns, goes on to the next arc, or  *)
(* calls itself.                                                           *)
(***************************************************************************)
Pop(s) == SubSeq(s, 1, Len(s) - 1)
Put(s, f) == [s EXCEPT ![Len(s)] = f]

\* The stack without its top.
LEMMA PopIs ==
    ASSUME NEW S, NEW s \in Seq(S), s # <<>>
    PROVE  /\ Len(s) \in Nat \ {0} /\ s[Len(s)] \in S
           /\ Pop(s) \in Seq(S) /\ Len(Pop(s)) = Len(s) - 1
           /\ \A k \in 1 .. Len(s) - 1 : Pop(s)[k] = s[k]
  <1>1. Len(s) \in Nat \ {0} /\ \A k \in 1 .. Len(s) : s[k] \in S
    OBVIOUS
  <1>2. PICK n \in Nat : n = Len(s) - 1
    BY <1>1
  <1>3. SubSeq(s, 1, n) \in Seq(S)
    BY <1>1, <1>2
  <1>4. Len(SubSeq(s, 1, n)) = n
    BY <1>1, <1>2
  <1>5. \A k \in 1 .. n : SubSeq(s, 1, n)[k] = s[k]
    BY <1>1, <1>2
  <1> QED BY <1>1, <1>2, <1>3, <1>4, <1>5 DEF Pop

\* The stack with a new top.
LEMMA PutIs ==
    ASSUME NEW S, NEW s \in Seq(S), s # <<>>, NEW f \in S
    PROVE  /\ Put(s, f) \in Seq(S) /\ Len(Put(s, f)) = Len(s) /\ Put(s, f) # <<>>
           /\ Put(s, f)[Len(s)] = f
           /\ \A k \in 1 .. Len(s) : k # Len(s) => Put(s, f)[k] = s[k]
  <1>1. PICK n \in 1 .. Len(s) : n = Len(s)
    BY PopIs
  <1>2. /\ [s EXCEPT ![n] = f] \in Seq(S)
        /\ Len([s EXCEPT ![n] = f]) = Len(s)
        /\ \A j \in 1 .. Len(s) : [s EXCEPT ![n] = f][j] = IF j = n THEN f ELSE s[j]
    OBVIOUS
  <1>3. PICK t : t = [s EXCEPT ![n] = f]
    BY ZenonT(30)
  <1>4. Put(s, f) = t
    BY <1>1, <1>3, Zenon DEF Put
  <1>5. t \in Seq(S) /\ Len(t) = Len(s) /\ t[n] = f /\ \A k \in 1 .. Len(s) : k # n => t[k] = s[k]
    BY <1>2, <1>3, Zenon
  <1>6. t # <<>>
    BY <1>1, <1>5
  <1> QED BY <1>1, <1>4, <1>5, <1>6, Zenon

\* The stack with another call.
LEMMA PushIs ==
    ASSUME NEW S, NEW s \in Seq(S), NEW h \in S
    PROVE  /\ Append(s, h) \in Seq(S) /\ Len(Append(s, h)) = Len(s) + 1 /\ Append(s, h) # <<>>
           /\ Append(s, h)[Len(s) + 1] = h /\ Len(s) \in Nat
           /\ \A k \in 1 .. Len(s) : Append(s, h)[k] = s[k]
  OBVIOUS

\* The path loses its last node.
LEMMA PathPop ==
    ASSUME NEW x, NEW rt, NEW s \in Seq(WorkFrame), s # <<>>, PathOK(x, rt, s)
    PROVE  PathOK(x, rt, Pop(s))
  <1> DEFINE t == Pop(s)
  <1>1. /\ Len(s) \in Nat \ {0} /\ Len(t) = Len(s) - 1
        /\ \A k \in 1 .. Len(t) : t[k] = s[k] /\ k \in 1 .. Len(s)
    BY PopIs
  <1>2. t # <<>> => Len(t) # 0
    BY PopIs, Zenon
  <1> HIDE DEF t
  <1>3. \A k \in 1 .. Len(t) : FrameOK(x, rt, t[k])
    BY <1>1, Zenon DEF PathOK
  <1>4. t # <<>> => t[1].node = rt
    <2>1. t # <<>> => 1 \in 1 .. Len(t)
      BY <1>1, <1>2
    <2> QED BY <1>1, <2>1, Zenon DEF PathOK
  <1>5. \A k \in 1 .. Len(t) - 1 : t[k].at = "back" /\ t[k + 1].node = Child(x, t[k])
    <2>1. ASSUME NEW k \in 1 .. Len(t) - 1
          PROVE  t[k] = s[k] /\ t[k + 1] = s[k + 1] /\ k \in 1 .. Len(s) - 1
      BY <1>1
    <2> QED BY <2>1, Zenon DEF PathOK
  <1>6. \A k, l \in 1 .. Len(t) : k < l => t[l].node < t[k].node
    BY <1>1, Zenon DEF PathOK
  <1> QED BY <1>3, <1>4, <1>5, <1>6, Zenon DEF PathOK, t

\* The activation of the last node goes on.
LEMMA PathPut ==
    ASSUME NEW x, NEW rt, NEW s \in Seq(WorkFrame), s # <<>>, PathOK(x, rt, s),
           NEW f \in WorkFrame, f.node = s[Len(s)].node, FrameOK(x, rt, f)
    PROVE  PathOK(x, rt, Put(s, f))
  <1> DEFINE t == Put(s, f)
  <1>1. /\ Len(s) \in Nat \ {0} /\ Len(t) = Len(s) /\ t # <<>> /\ t[Len(s)] = f
        /\ \A k \in 1 .. Len(s) : k # Len(s) => t[k] = s[k]
    BY PutIs, PopIs
  <1> HIDE DEF t
  <1>2. \A k \in 1 .. Len(s) : t[k].node = s[k].node
    BY <1>1, Zenon
  <1>3. \A k \in 1 .. Len(t) : FrameOK(x, rt, t[k])
    BY <1>1, Zenon DEF PathOK
  <1>4. t[1].node = rt
    <2>1. 1 \in 1 .. Len(s)
      BY <1>1
    <2> QED BY <1>2, <2>1, Zenon DEF PathOK
  <1>5. \A k \in 1 .. Len(t) - 1 : t[k].at = "back" /\ t[k + 1].node = Child(x, t[k])
    <2>1. ASSUME NEW k \in 1 .. Len(t) - 1
          PROVE  t[k] = s[k] /\ k + 1 \in 1 .. Len(s) /\ k \in 1 .. Len(s) - 1
      BY <1>1
    <2> QED BY <1>2, <2>1, Zenon DEF PathOK
  <1>6. \A k, l \in 1 .. Len(t) : k < l => t[l].node < t[k].node
    BY <1>1, <1>2, Zenon DEF PathOK
  <1> QED BY <1>3, <1>4, <1>5, <1>6, Zenon DEF PathOK, t

\* It calls work() for a prerequisite.
LEMMA PathPush ==
    ASSUME NEW x \in Graphs, NEW rt \in Node, NEW s \in Seq(WorkFrame), s # <<>>,
           PathOK(x, rt, s), s[Len(s)].at = "back",
           NEW h \in WorkFrame, h.node = Child(x, s[Len(s)]), h.at = "enter", h.i = 1
    PROVE  PathOK(x, rt, Append(s, h))
  <1> DEFINE t == Append(s, h)
             f == s[Len(s)]
  <1>1. /\ Len(s) \in Nat \ {0} /\ Len(t) = Len(s) + 1 /\ t # <<>> /\ t[Len(s) + 1] = h
        /\ \A k \in 1 .. Len(s) : t[k] = s[k]
    BY PushIs, PopIs
  <1>2. f \in WorkFrame /\ FrameOK(x, rt, f)
    <2>1. Len(s) \in 1 .. Len(s)
      BY <1>1
    <2> QED BY <2>1, Zenon, PopIs DEF PathOK
  <1>3. f.node \in Node /\ f.i \in 1 .. Len(x.arcs[f.node]) /\ h.node # nil
    <2>1. f.node \in Node /\ f.i \in Nat \ {0}
      BY <1>2, Zenon DEF WorkFrame
    <2>2. f.i <= Len(x.arcs[f.node]) /\ h.node # nil
      BY <1>2, Zenon DEF FrameOK
    <2> QED BY <2>1, <2>2, ArcsAre
  <1>4. h.node < f.node /\ h.node \in ReachOf(x, rt) /\ f.node \in Int
    <2>1. h.node \in 0 .. f.node - 1 /\ f.node \in Nat
      BY <1>3, ArcsAre, Zenon DEF Child
    <2>2. h.node \in PrereqsOf(x, f.node)
      BY <1>3, Zenon DEF PrereqsOf, Child
    <2>3. f.node \in ReachOf(x, rt)
      BY <1>2, Zenon DEF FrameOK
    <2> QED BY <2>1, <2>2, <2>3, ReachIs
  <1>5. FrameOK(x, rt, h)
    BY <1>4, Zenon DEF FrameOK
  <1>6. \A k \in 1 .. Len(t) : k \in 1 .. Len(s) \/ k = Len(s) + 1
    BY <1>1
  <1>7. \A k \in 1 .. Len(t) : FrameOK(x, rt, t[k])
    <2> HIDE DEF t
    <2> QED BY <1>1, <1>5, <1>6, Zenon DEF PathOK
  <1>8. t[1].node = rt
    <2>1. 1 \in 1 .. Len(s)
      BY <1>1
    <2> HIDE DEF t
    <2> QED BY <1>1, <2>1, Zenon DEF PathOK
  <1>9. \A k \in 1 .. Len(t) - 1 : t[k].at = "back" /\ t[k + 1].node = Child(x, t[k])
    <2> SUFFICES ASSUME NEW k \in 1 .. Len(t) - 1
                 PROVE  t[k].at = "back" /\ t[k + 1].node = Child(x, t[k])
      BY Zenon
    <2>1. k \in 1 .. Len(s) /\ (k = Len(s) \/ (k \in 1 .. Len(s) - 1 /\ k + 1 \in 1 .. Len(s)))
      BY <1>1
    <2> HIDE DEF t
    <2> QED BY <1>1, <2>1, Zenon DEF PathOK
  <1>10. \A k, l \in 1 .. Len(t) : k < l => t[l].node < t[k].node
    <2> SUFFICES ASSUME NEW k \in 1 .. Len(t), NEW l \in 1 .. Len(t), k < l
                 PROVE  t[l].node < t[k].node
      BY Zenon
    <2>1. k \in 1 .. Len(s) /\ (l = Len(s) + 1 \/ l \in 1 .. Len(s))
      BY <1>1
    <2> HIDE DEF t
    <2>2. CASE l \in 1 .. Len(s)
      BY <1>1, <2>1, <2>2, Zenon DEF PathOK
    <2>3. CASE l = Len(s) + 1 /\ k = Len(s)
      BY <1>1, <1>4, <2>3
    <2>4. CASE l = Len(s) + 1 /\ k # Len(s)
      <3>1. k < Len(s) /\ Len(s) \in 1 .. Len(s)
        BY <1>1, <2>1, <2>4
      <3>2. f.node < s[k].node
        BY <2>1, <3>1, Zenon DEF PathOK
      <3>3. s[k].node \in Nat
        <4>1. s[k] \in WorkFrame
          BY <2>1
        <4> QED BY <4>1, NAssumption DEF WorkFrame, Node
      <3>4. h.node \in Nat
        BY NAssumption DEF WorkFrame, Node
      <3> QED BY <1>1, <1>4, <2>1, <2>4, <3>2, <3>3, <3>4
    <2> QED BY <2>1, <2>2, <2>3, <2>4, Zenon
  <1> QED BY <1>7, <1>8, <1>9, <1>10, Zenon DEF PathOK

-----------------------------------------------------------------------------
(***************************************************************************)
(* The prerequisites that work() is done with.                             *)
(***************************************************************************)
\* They are prerequisites.
LEMMA VisitedAre ==
    ASSUME NEW x \in Graphs, NEW f \in WorkFrame
    PROVE  /\ Visited(x, f) \subseteq PrereqsOf(x, f.node) /\ Visited(x, f) \subseteq Node
           /\ f.i = 1 => Visited(x, f) = {}
  <1>1. f.node \in Node /\ f.i \in Nat
    BY Zenon DEF WorkFrame
  <1>2. Visited(x, f) \subseteq PrereqsOf(x, f.node)
    BY Zenon DEF Visited, PrereqsOf
  <1>3. PrereqsOf(x, f.node) \subseteq Node
    BY <1>1, ArcsAre, Zenon DEF PrereqsOf
  <1>4. f.i = 1 => {j \in 1 .. Len(x.arcs[f.node]) : j < f.i} = {}
    BY <1>1, ArcsAre
  <1>5. f.i = 1 => Visited(x, f) = {}
    BY <1>4, Zenon DEF Visited
  <1> QED BY <1>2, <1>3, <1>5, Zenon

\* The loop goes on to the next arc.
LEMMA VisitedGoes ==
    ASSUME NEW x \in Graphs, NEW f \in WorkFrame, f.i <= Len(x.arcs[f.node]),
           NEW h \in WorkFrame, h.node = f.node, h.i = f.i + 1
    PROVE  Visited(x, h) = Visited(x, f) \cup ({Child(x, f)} \ {nil})
  <1>1. f.node \in Node /\ f.i \in Nat \ {0} /\ Len(x.arcs[f.node]) \in Nat
    BY ArcsAre, Zenon DEF WorkFrame
  <1>2. {j \in 1 .. Len(x.arcs[f.node]) : j < h.i}
            = {j \in 1 .. Len(x.arcs[f.node]) : j < f.i} \cup {f.i}
    BY <1>1
  <1>3. {x.arcs[f.node][k].n : k \in {j \in 1 .. Len(x.arcs[f.node]) : j < h.i}}
            = {x.arcs[f.node][k].n : k \in {j \in 1 .. Len(x.arcs[f.node]) : j < f.i}}
              \cup {Child(x, f)}
    BY <1>2, Zenon DEF Child
  <1> QED BY <1>3, Zenon DEF Visited

\* No node becomes NOTMADE, and the top of the stack returns.
LEMMA SettledPop ==
    ASSUME NEW x \in Graphs, NEW md, NEW md2, NEW s \in Seq(WorkFrame), s # <<>>,
           Settled(x, md, s), \A p \in Node : "NOTMADE" \in md2[p] => "NOTMADE" \in md[p]
    PROVE  Settled(x, md2, Pop(s))
  <1> DEFINE t == Pop(s)
  <1>1. /\ Len(s) \in Nat \ {0} /\ Len(t) = Len(s) - 1
        /\ \A k \in 1 .. Len(t) : t[k] = s[k] /\ k \in 1 .. Len(s) /\ t[k] \in WorkFrame
    BY PopIs
  <1> HIDE DEF t
  <1>2. \A k \in 1 .. Len(t) : \A l \in k + 1 .. Len(t) : l \in k + 1 .. Len(s) /\ l \in 1 .. Len(t)
    BY <1>1
  <1>3. \A k \in 1 .. Len(t) : Visited(x, t[k]) \subseteq Node
    BY <1>1, VisitedAre, Zenon
  <1> QED BY <1>1, <1>2, <1>3, Zenon DEF Settled, t

\* The top goes on to the next arc.
LEMMA SettledPut ==
    ASSUME NEW x \in Graphs, NEW md, NEW s \in Seq(WorkFrame), s # <<>>, Settled(x, md, s),
           NEW f \in WorkFrame, f.node = s[Len(s)].node,
           s[Len(s)].at = "enter" => "NOTMADE" \in md[f.node],
           f.ready => s[Len(s)].ready,
           f.ready => \A p \in Visited(x, f) \ Visited(x, s[Len(s)]) : "NOTMADE" \notin md[p]
    PROVE  Settled(x, md, Put(s, f))
  <1> DEFINE t == Put(s, f)
  <1>1. /\ Len(s) \in Nat \ {0} /\ Len(t) = Len(s) /\ t[Len(s)] = f
        /\ \A k \in 1 .. Len(s) : k # Len(s) => t[k] = s[k]
    BY PutIs, PopIs
  <1> HIDE DEF t
  <1>2. PICK n \in 1 .. Len(s) : n = Len(s)
    BY <1>1
  <1>3. s[n].ready => /\ \A p \in Visited(x, s[n]) : "NOTMADE" \notin md[p]
    BY <1>2, Zenon DEF Settled
  <1>4. t[n].ready => \A p \in Visited(x, t[n]) : "NOTMADE" \notin md[p]
    BY <1>1, <1>2, <1>3, Zenon
  <1>5. \A l \in n + 1 .. Len(t) : FALSE
    BY <1>1, <1>2
  <1>6. ASSUME NEW k \in 1 .. Len(s), k # n, s[k].ready,
               NEW l \in k + 1 .. Len(s), t[l].at # "enter"
        PROVE  t[l].node \notin Visited(x, s[k])
    <2>1. l \in 1 .. Len(s)
      BY <1>1
    <2>2. CASE l # n
      BY <1>1, <1>2, <1>6, <2>1, <2>2, Zenon DEF Settled
    <2>3. CASE l = n /\ s[n].at # "enter"
      BY <1>1, <1>2, <1>6, <2>3, Zenon DEF Settled
    <2>4. CASE l = n /\ s[n].at = "enter"
      BY <1>1, <1>2, <1>6, <2>4, Zenon DEF Settled
    <2> QED BY <2>2, <2>3, <2>4, Zenon
  <1>7. \A k \in 1 .. Len(s) : k # n /\ s[k].ready =>
            \A p \in Visited(x, s[k]) : "NOTMADE" \notin md[p]
    BY Zenon DEF Settled
  <1> QED BY <1>1, <1>2, <1>4, <1>5, <1>6, <1>7, Zenon DEF Settled, t

\* It calls work().
LEMMA SettledPush ==
    ASSUME NEW x \in Graphs, NEW md, NEW s \in Seq(WorkFrame), Settled(x, md, s),
           NEW h \in WorkFrame, h.at = "enter", h.i = 1
    PROVE  Settled(x, md, Append(s, h))
  <1> DEFINE t == Append(s, h)
  <1>1. /\ Len(s) \in Nat /\ Len(t) = Len(s) + 1 /\ t[Len(s) + 1] = h
        /\ \A k \in 1 .. Len(s) : t[k] = s[k]
    BY PushIs
  <1> HIDE DEF t
  <1>2. Visited(x, h) = {}
    BY VisitedAre, Zenon
  <1>3. ASSUME NEW k \in 1 .. Len(t)
        PROVE  /\ k \in 1 .. Len(s) \/ (k = Len(s) + 1 /\ k + 1 .. Len(t) = {})
               /\ \A l \in k + 1 .. Len(t) : l = Len(s) + 1 \/ (l \in k + 1 .. Len(s) /\ l \in 1 .. Len(s))
    BY <1>1
  <1> QED BY <1>1, <1>2, <1>3, ZenonT(30) DEF Settled, t

\* The top returns; only the time of its node may have changed.
LEMMA ReasonsPop ==
    ASSUME NEW x \in Graphs, NEW rt, NEW all, NEW md, NEW tm, NEW tm2,
           NEW s \in Seq(WorkFrame), s # <<>>,
           PathOK(x, rt, s), Settled(x, md, s), Reasons(x, all, tm, s),
           \/ tm2 = tm
           \/ /\ s[Len(s)].at # "enter"
              /\ \A p \in Node : p # s[Len(s)].node => tm2[p] = tm[p]
    PROVE  Reasons(x, all, tm2, Pop(s))
  <1> DEFINE t == Pop(s)
  <1>1. /\ Len(s) \in Nat \ {0} /\ Len(t) = Len(s) - 1
        /\ \A k \in 1 .. Len(t) : t[k] = s[k] /\ k \in 1 .. Len(s) /\ t[k] \in WorkFrame
    BY PopIs
  <1> HIDE DEF t
  <1>2. PICK n \in 1 .. Len(s) : n = Len(s)
    BY <1>1
  <1>3. ASSUME NEW k \in 1 .. Len(t), s[k].ready, s[k].weoutofdate
        PROVE  Old(x, all, tm2, s[k])
    <2>1. Old(x, all, tm, s[k])
      BY <1>1, <1>3, Zenon DEF Reasons
    <2>2. CASE tm2 = tm
      BY <2>1, <2>2, Zenon
    <2>3. CASE s[n].at # "enter" /\ \A p \in Node : p # s[n].node => tm2[p] = tm[p]
      <3>1. k < n /\ n \in k + 1 .. Len(s)
        BY <1>1, <1>2
      <3>2. s[n].node < s[k].node /\ s[k].node \in Node
        BY <1>1, <1>2, <3>1, Zenon DEF PathOK, WorkFrame
      <3>3. s[n].node # s[k].node
        BY <3>2, NAssumption DEF Node
      <3>4. tm2[s[k].node] = tm[s[k].node]
        BY <2>3, <3>2, <3>3, Zenon
      <3>5. s[n].node \notin Visited(x, s[k])
        BY <1>1, <1>3, <2>3, <3>1, Zenon DEF Settled
      <3>6. \A p \in Visited(x, s[k]) : tm2[p] = tm[p]
        BY <1>1, <2>3, <3>5, VisitedAre, Zenon
      <3> QED BY <2>1, <3>4, <3>6, Zenon DEF Old, outofdate
    <2> QED BY <1>2, <2>2, <2>3, Zenon
  <1> QED BY <1>1, <1>3, Zenon DEF Reasons, t

\* The top goes on to the next arc.
LEMMA ReasonsPut ==
    ASSUME NEW x, NEW all, NEW tm, NEW s \in Seq(WorkFrame), s # <<>>, Reasons(x, all, tm, s),
           NEW f \in WorkFrame, f.node = s[Len(s)].node, f.ready => s[Len(s)].ready,
           Visited(x, s[Len(s)]) \subseteq Visited(x, f),
           f.weoutofdate => s[Len(s)].weoutofdate \/ Old(x, all, tm, f)
    PROVE  Reasons(x, all, tm, Put(s, f))
  <1> DEFINE t == Put(s, f)
  <1>1. /\ Len(s) \in Nat \ {0} /\ Len(t) = Len(s) /\ t[Len(s)] = f
        /\ \A k \in 1 .. Len(s) : k # Len(s) => t[k] = s[k]
    BY PutIs, PopIs
  <1> HIDE DEF t
  <1>2. PICK n \in 1 .. Len(s) : n = Len(s)
    BY <1>1
  <1>3. Old(x, all, tm, s[n]) => Old(x, all, tm, f)
    BY <1>2, Zenon DEF Old
  <1>4. t[n].ready /\ t[n].weoutofdate => Old(x, all, tm, t[n])
    BY <1>1, <1>2, <1>3, Zenon DEF Reasons
  <1> QED BY <1>1, <1>2, <1>4, Zenon DEF Reasons, t

\* It calls work().
LEMMA ReasonsPush ==
    ASSUME NEW x, NEW all, NEW tm, NEW s \in Seq(WorkFrame), Reasons(x, all, tm, s),
           NEW h \in WorkFrame, h.weoutofdate => all
    PROVE  Reasons(x, all, tm, Append(s, h))
  <1> DEFINE t == Append(s, h)
  <1>1. /\ Len(s) \in Nat /\ Len(t) = Len(s) + 1 /\ t[Len(s) + 1] = h
        /\ \A k \in 1 .. Len(s) : t[k] = s[k]
    BY PushIs
  <1> HIDE DEF t
  <1>2. \A k \in 1 .. Len(t) : k \in 1 .. Len(s) \/ k = Len(s) + 1
    BY <1>1
  <1> QED BY <1>1, <1>2, Zenon DEF Reasons, Old, t

\* The top returns: its node is not NOTMADE any more, or the reason is above.
LEMMA BlockedPop ==
    ASSUME NEW x, NEW rt, NEW md, NEW md2, NEW s \in Seq(WorkFrame), s # <<>>,
           PathOK(x, rt, s), Blocked(x, rt, md, s),
           \A p \in Node : p # s[Len(s)].node => md2[p] = md[p],
           Stuck(x, rt, md) => Stuck(x, rt, md2),
           "NOTMADE" \in md2[s[Len(s)].node] => Stuck(x, rt, md2)
    PROVE  Blocked(x, rt, md2, Pop(s))
  <1> DEFINE t == Pop(s)
  <1>1. /\ Len(s) \in Nat \ {0} /\ Len(t) = Len(s) - 1
        /\ \A k \in 1 .. Len(t) : t[k] = s[k] /\ k \in 1 .. Len(s) /\ t[k] \in WorkFrame
    BY PopIs
  <1>2. t \in Seq(WorkFrame)
    BY PopIs, Zenon
  <1> HIDE DEF t
  <1>2a. t = <<>> <=> Len(s) = 1
    BY <1>1, <1>2
  <1>3. PICK n \in 1 .. Len(s) : n = Len(s)
    BY <1>1
  <1>4. ASSUME NEW k \in 1 .. Len(t)
        PROVE  /\ t[k].at # "enter" => md2[t[k].node] = NOTMADE
               /\ ~t[k].ready => Stuck(x, rt, md2)
    <2>1. k < n
      BY <1>1, <1>3
    <2>2. s[n].node < s[k].node /\ s[k].node \in Node
      BY <1>1, <1>3, <2>1, Zenon DEF PathOK, WorkFrame
    <2>3. s[n].node # s[k].node
      BY <2>2, NAssumption DEF Node
    <2>4. md2[s[k].node] = md[s[k].node]
      BY <1>3, <2>2, <2>3, Zenon
    <2> QED BY <1>1, <2>4, Zenon DEF Blocked
  <1>5. ASSUME t # <<>>, t[Len(t)].at = "back", "NOTMADE" \in md2[Child(x, t[Len(t)])]
        PROVE  Stuck(x, rt, md2)
    <2>1. PICK m \in 1 .. Len(s) - 1 : m = Len(t) /\ m + 1 = Len(s) /\ m \in 1 .. Len(t)
      BY <1>1, <1>2a, <1>5
    <2>2. s[Len(s)].node = Child(x, s[m])
      BY <2>1, Zenon DEF PathOK
    <2> QED BY <1>1, <1>5, <2>1, <2>2, Zenon
  <1>6. ASSUME t = <<>>, "NOTMADE" \in md2[rt] PROVE Stuck(x, rt, md2)
    <2>1. Len(s) = 1
      BY <1>2a, <1>6, Zenon
    <2> QED BY <1>6, <2>1, Zenon DEF PathOK
  <1> QED BY <1>4, <1>5, <1>6, Zenon DEF Blocked, t

\* The top goes on to the next arc.
LEMMA BlockedPut ==
    ASSUME NEW x, NEW rt, NEW md, NEW s \in Seq(WorkFrame), s # <<>>, Blocked(x, rt, md, s),
           NEW f \in WorkFrame, f.node = s[Len(s)].node, f.at # "back",
           s[Len(s)].at = "enter" => md[f.node] = NOTMADE,
           ~f.ready => ~s[Len(s)].ready \/ Stuck(x, rt, md)
    PROVE  Blocked(x, rt, md, Put(s, f))
  <1> DEFINE t == Put(s, f)
  <1>1. /\ Len(s) \in Nat \ {0} /\ Len(t) = Len(s) /\ t[Len(s)] = f /\ t # <<>>
        /\ \A k \in 1 .. Len(s) : k # Len(s) => t[k] = s[k]
    BY PutIs, PopIs
  <1> HIDE DEF t
  <1>2. PICK n \in 1 .. Len(s) : n = Len(s)
    BY <1>1
  <1>3. md[f.node] = NOTMADE /\ (~f.ready => Stuck(x, rt, md))
    BY <1>2, Zenon DEF Blocked
  <1> QED BY <1>1, <1>2, <1>3, ZenonT(30) DEF Blocked, t

\* It calls work().
LEMMA BlockedPush ==
    ASSUME NEW x, NEW rt, NEW md, NEW s \in Seq(WorkFrame), s # <<>>, Blocked(x, rt, md, s),
           NEW f \in WorkFrame, f.node = s[Len(s)].node, f.ready = s[Len(s)].ready,
           s[Len(s)].at = "enter" => md[f.node] = NOTMADE,
           NEW h \in WorkFrame, h.at = "enter", h.ready
    PROVE  Blocked(x, rt, md, Append(Put(s, f), h))
  <1> DEFINE u == Put(s, f)
             t == Append(u, h)
  <1>1. /\ Len(s) \in Nat \ {0} /\ Len(u) = Len(s) /\ u[Len(s)] = f /\ u \in Seq(WorkFrame)
        /\ \A k \in 1 .. Len(s) : k # Len(s) => u[k] = s[k]
    BY PutIs, PopIs
  <1> HIDE DEF u
  <1>2. /\ Len(t) = Len(s) + 1 /\ t[Len(s) + 1] = h /\ t # <<>>
        /\ \A k \in 1 .. Len(s) : t[k] = u[k]
    BY <1>1, PushIs
  <1> HIDE DEF t
  <1>3. PICK n \in 1 .. Len(s) : n = Len(s)
    BY <1>1
  <1>4. md[f.node] = NOTMADE /\ (~f.ready => Stuck(x, rt, md))
    BY <1>3, Zenon DEF Blocked
  <1>5. \A k \in 1 .. Len(t) : k \in 1 .. Len(s) \/ k = Len(t)
    BY <1>1, <1>2
  <1>6. t[Len(t)] = h
    BY <1>2, Zenon
  <1>7. ASSUME NEW k \in 1 .. Len(t)
        PROVE  /\ t[k].at # "enter" => md[t[k].node] = NOTMADE
               /\ ~t[k].ready => Stuck(x, rt, md)
    <2>1. CASE k = Len(t)
      BY <1>6, <2>1, Zenon
    <2>2. CASE k = n
      <3>1. t[k] = f
        BY <1>1, <1>2, <1>3, <2>2, Zenon
      <3> QED BY <1>4, <3>1, Zenon
    <2>3. CASE k \in 1 .. Len(s) /\ k # n
      <3>1. t[k] = s[k]
        BY <1>1, <1>2, <1>3, <2>3, Zenon
      <3> QED BY <2>3, <3>1, Zenon DEF Blocked
    <2> QED BY <1>3, <1>5, <2>1, <2>2, <2>3, ZenonT(30)
  <1> QED BY <1>2, <1>6, <1>7, Zenon DEF Blocked, t, u

-----------------------------------------------------------------------------
(***************************************************************************)
(* The invariant of mk() and work(), as long as mk is alive.               *)
(***************************************************************************)
\* What mk() and work() keep in the flags of a node.
Flags == {{}, NOTMADE, BEINGMADE, MADE, NOTMADE \cup BEINGMADE}

Types ==
    /\ g \in Graphs /\ known \subseteq Node /\ made \in [Node -> Flags]
    /\ did \in BOOLEAN /\ runerrs \in Nat
    /\ pc \in {"start", "loop", "work", "waitup", "empty", "after", "drain", "return"}
    /\ ti \in 0 .. Len(g.targets)
    /\ pc # "start" => ti # 0 /\ ReachOf(g, Root) \subseteq known
    /\ stack \in Seq(WorkFrame) /\ (pc # "work" => stack = <<>>)

\* mk() alone calls waitup(), and there is no child when recipes are not run.
Waitup(f) == f.k \in {"wait", "upd"} /\ f.want = NoPid /\ ~f.kill
Waits ==
    /\ calls # <<>> => Len(calls) = 1 /\ Waitup(calls[1]) /\ (pc = "waitup" => calls[1].ok)
    /\ pc \notin {"waitup", "drain"} => calls = <<>>
    /\ dry => \A p \in Pid : procs[p] = "free"

\* A round that starts nothing is followed by waitup(), because something is being made.
Rounds ==
    /\ pc = "work" /\ ~did => Blocked(g, Root, made, stack)
    /\ pc = "waitup" /\ "NOTMADE" \in made[Root] => Stuck(g, Root, made)

\* The jobs that are queued, have a slot, or whose targets are being updated.
OwnersOf(q, ev, cl) ==
    Range(q) \cup {ev[s].job : s \in {t \in R!Slot : ev[t].pid \in Pid}}
             \cup {cl[i].job : i \in {k \in 1 .. Len(cl) : cl[k].k = "upd"}}
Owner == OwnersOf(jobs, events, calls)

\* A node is being made only while there is such a job for it, or after an error.
Covered ==
    /\ Owner \subseteq 1 .. Len(job)
    /\ calls # <<>> /\ calls[1].k = "upd" /\ fake => runerrs # 0
    /\ pc # "start" /\ runerrs = 0 =>
         \A m \in ReachOf(g, Root) : "BEINGMADE" \in made[m] =>
            ~dry /\ \E j \in Owner : m \in job[j].t

\* When waitup() has found nothing to wait for, there was an error.
Waited ==
    pc = "empty" /\ made[Root] \cap {"NOTMADE", "BEINGMADE"} # {} => runerrs # 0

Alive ==
    /\ Types /\ Waits /\ PathOK(g, Root, stack) /\ Settled(g, made, stack)
    /\ ~dry => Reasons(g, aflag, time, stack)
    /\ Rounds /\ Covered /\ Waited

MkInv == JobSeq /\ NeverStuck /\ (mkstate = "alive" => Alive)

\* The target of a call of mk().
LEMMA RootIs == Types /\ pc # "start" => Root \in Node /\ Root \in ReachOf(g, Root)
  <1> SUFFICES ASSUME Types, pc # "start" PROVE Root \in Node /\ Root \in ReachOf(g, Root)
    OBVIOUS
  <1>1. IsGraph(g) /\ g \in Graphs
    BY GraphsAssumption, ZenonT(30) DEF Types
  <1>2. g.targets \in Seq(Node) /\ ti \in 1 .. Len(g.targets)
    BY <1>1 DEF IsGraph, Types
  <1>3. Root \in Node
    BY <1>2 DEF Root
  <1> QED BY <1>1, <1>3, ReachIs, Zenon

\* The activation of work() that runs.
LEMMA RunningIs ==
    ASSUME Alive, Working
    PROVE  /\ g \in Graphs /\ Root \in Node /\ stack \in Seq(WorkFrame) /\ stack # <<>>
           /\ top = stack[Len(stack)] /\ top \in WorkFrame /\ top.node \in Node
           /\ FrameOK(g, Root, top) /\ top.node \in ReachOf(g, Root)
           /\ mkstate = "alive" /\ pc = "work" /\ calls = <<>>
  <1>1. stack \in Seq(WorkFrame) /\ stack # <<>> /\ pc = "work" /\ Types /\ mkstate = "alive"
        /\ calls = <<>> /\ g \in Graphs
    BY Zenon DEF Alive, Types, Waits, Working
  <1>2. top = stack[Len(stack)] /\ top \in WorkFrame /\ Len(stack) \in 1 .. Len(stack)
    BY <1>1, PopIs DEF top
  <1>3. top.node \in Node
    BY <1>2, Zenon DEF WorkFrame
  <1>4. FrameOK(g, Root, top)
    BY <1>2, ZenonT(30) DEF Alive, PathOK
  <1> QED BY <1>1, <1>2, <1>3, <1>4, RootIs, Zenon DEF FrameOK

Quiet == UNCHANGED <<schedVars, g, opts, known, pc, ti, did, fake, job>>

\* An activation of work() returns without a new job.
LEMMA Returns ==
    ASSUME Alive, Working, stack' = Pop(stack), Quiet,
           made' \in [Node -> Flags],
           \A p \in Node : p # top.node => made'[p] = made[p],
           "NOTMADE" \in made'[top.node] => "NOTMADE" \in made[top.node],
           runerrs' \in Nat, runerrs # 0 => runerrs' # 0,
           "BEINGMADE" \in made'[top.node] => "BEINGMADE" \in made[top.node] \/ runerrs' # 0,
           ~did /\ "BEINGMADE" \in made[top.node] => "BEINGMADE" \in made'[top.node],
           ~did /\ "NOTMADE" \in made'[top.node] => Stuck(g, Root, made'),
           \/ time' = time
           \/ top.at # "enter" /\ \A p \in Node : p # top.node => time'[p] = time[p]
    PROVE  Alive'
  <1>1. /\ g \in Graphs /\ Root \in Node /\ stack \in Seq(WorkFrame) /\ stack # <<>>
        /\ top = stack[Len(stack)] /\ top.node \in Node
        /\ FrameOK(g, Root, top) /\ pc = "work" /\ calls = <<>>
    BY RunningIs, ZenonT(30)
  <1>2. /\ UNCHANGED <<jobs, events, procs, calls, g, opts, known, pc, ti, did, fake, job>>
        /\ Root' = Root /\ dry' = dry /\ aflag' = aflag /\ Owner' = Owner
    BY ZenonT(30) DEF Quiet, schedVars, Root, dry, nflag, tflag, aflag, Owner
  <1>3. Types'
    <2>1. stack' \in Seq(WorkFrame)
      BY <1>1, PopIs, ZenonT(30)
    <2> QED BY <1>1, <1>2, <2>1, ZenonT(30) DEF Alive, Types
  <1>4. Waits'
    BY <1>1, <1>2, Zenon DEF Alive, Waits
  <1>5. PathOK(g, Root, stack)'
    BY <1>1, <1>2, PathPop, Zenon DEF Alive
  <1>6. \A p \in Node : "NOTMADE" \in made'[p] => "NOTMADE" \in made[p]
    BY Zenon
  <1>7. Settled(g, made, stack)'
    BY <1>1, <1>2, <1>6, SettledPop, Zenon DEF Alive
  <1>8. ~dry' => Reasons(g, aflag, time, stack)'
    BY <1>1, <1>2, ReasonsPop, ZenonT(30) DEF Alive
  <1>9. ReachOf(g, Root) \subseteq Node
    BY <1>1, ReachIs, Zenon
  <1>10. Rounds'
    <2>1. ~did /\ Stuck(g, Root, made) => Stuck(g, Root, made')
      BY <1>9, Zenon DEF Stuck
    <2>2. ~did => Blocked(g, Root, made', Pop(stack))
      <3> SUFFICES ASSUME ~did PROVE Blocked(g, Root, made', Pop(stack))
        BY ZenonT(30) 
      <3>1. Blocked(g, Root, made, stack) /\ PathOK(g, Root, stack)
        BY <1>1, ZenonT(30) DEF Alive, Rounds
      <3> QED BY <1>1, <2>1, <3>1, BlockedPop, ZenonT(30)
    <2> QED BY <1>1, <1>2, <2>2, Zenon DEF Rounds
  <1>11. Covered'
    <2>1. runerrs' = 0 => \A m \in Node : "BEINGMADE" \in made'[m] => "BEINGMADE" \in made[m]
      BY ZenonT(30)
    <2>2. runerrs' = 0 => \A m \in ReachOf(g, Root) : "BEINGMADE" \in made'[m] =>
                              ~dry /\ \E j \in Owner : m \in job[j].t
      BY <1>1, <1>9, <2>1, ZenonT(30) DEF Alive, Covered
    <2> QED BY <1>1, <1>2, <2>2, Zenon DEF Alive, Covered
  <1>12. Waited'
    BY <1>1, <1>2, Zenon DEF Waited
  <1> QED BY <1>2, <1>3, <1>4, <1>5, <1>7, <1>8, <1>10, <1>11, <1>12, ZenonT(30) DEF Alive

\* The flags of the nodes of S are set.
LEMMA MadesetIs ==
    ASSUME made \in [Node -> Flags], NEW S, NEW m \in Flags
    PROVE  /\ MADESET(S, m) \in [Node -> Flags]
           /\ \A p \in Node : MADESET(S, m)[p] = IF p \in S THEN m ELSE made[p]
  BY Zenon DEF MADESET

\* What is known of the activation that runs, in a round that has started nothing.
LEMMA RunningBlocked ==
    ASSUME Alive, Working, ~did
    PROVE  /\ top.at # "enter" => made[top.node] = NOTMADE
           /\ ~top.ready => Stuck(g, Root, made)
           /\ top.at = "back" /\ "NOTMADE" \in made[Child(g, top)] => Stuck(g, Root, made)
  <1>1. Blocked(g, Root, made, stack)
    BY RunningIs, Zenon DEF Alive, Rounds
  <1>2. stack # <<>> /\ top = stack[Len(stack)] /\ Len(stack) \in 1 .. Len(stack)
    BY RunningIs, PopIs
  <1> QED BY <1>1, <1>2, ZenonT(30) DEF Blocked

\* A node is taken as made.
LEMMA ReturnsMade ==
    ASSUME Alive, Working, stack' = Pop(stack), Quiet, runerrs' = runerrs,
           made' = MADESET({top.node}, MADE),
           ~did => made[top.node] = NOTMADE,
           \/ time' = time
           \/ top.at # "enter" /\ \A p \in Node : p # top.node => time'[p] = time[p]
    PROVE  Alive'
  <1>1. top.node \in Node /\ made \in [Node -> Flags] /\ runerrs \in Nat /\ MADE \in Flags
    BY RunningIs, Zenon DEF Alive, Types, Flags
  <1>2. /\ made' \in [Node -> Flags] /\ made'[top.node] = MADE
        /\ \A p \in Node : p # top.node => made'[p] = made[p]
    BY <1>1, MadesetIs
  <1>3. /\ "NOTMADE" \notin made'[top.node] /\ "BEINGMADE" \notin made'[top.node]
        /\ ~did => "BEINGMADE" \notin made[top.node]
    BY <1>2, Zenon DEF MADE, NOTMADE
  <1> QED BY <1>1, <1>2, <1>3, Returns, ZenonT(30)

\* Every way in which work() returns, but for dorecipe().
LEMMA ReturnSteps ==
    ASSUME Alive, mkstate' = "alive",
           WorkSeen \/ WorkLeaf \/ WorkNotReady \/ WorkUpToDate \/ DoNoRecipe
    PROVE  Alive'
  <1>1. Working /\ stack' = Pop(stack) /\ Quiet
    BY Zenon DEF WorkSeen, WorkLeaf, WorkNotReady, WorkUpToDate, DoNoRecipe, AfterLoop, MustMake,
             Return, Pop, Quiet, nodeVars, R!Quit
  <1>2. /\ g \in Graphs /\ top.node \in Node /\ top.node \in ReachOf(g, Root)
        /\ made \in [Node -> Flags] /\ runerrs \in Nat
    BY <1>1, RunningIs, Zenon DEF Alive, Types
  <1>3. ASSUME UNCHANGED <<made, time, runerrs>>,
               ~did /\ "NOTMADE" \in made[top.node] => Stuck(g, Root, made)
        PROVE  Alive'
    BY <1>1, <1>2, <1>3, Returns, Zenon
  <1>4. CASE WorkSeen
    <2>1. made[top.node] \cap {"BEINGMADE", "MADE"} # {} /\ UNCHANGED <<made, time, runerrs>>
      BY <1>4, ZenonT(30) DEF WorkSeen, nodeVars
    <2>2. made[top.node] \in Flags
      BY <1>2, Zenon
    <2>3. "NOTMADE" \in made[top.node] => "BEINGMADE" \in made[top.node]
      BY <2>1, <2>2 DEF Flags, NOTMADE, BEINGMADE, MADE
    <2> QED BY <1>2, <1>3, <2>1, <2>3, ZenonT(30) DEF Stuck
  <1>5. CASE WorkNotReady
    <2>1. ~top.ready /\ UNCHANGED <<made, time, runerrs>>
      BY <1>5, Zenon DEF WorkNotReady, nodeVars
    <2> QED BY <1>1, <1>3, <2>1, RunningBlocked, Zenon
  <1>6. CASE WorkUpToDate
    <2>1. made' = MADESET({top.node}, MADE) /\ time' = time /\ runerrs' = runerrs /\ top.at # "enter"
      BY <1>6, Zenon DEF WorkUpToDate, AfterLoop
    <2> QED BY <1>1, <2>1, RunningBlocked, ReturnsMade, Zenon
  <1>7. CASE DoNoRecipe
    <2>1. /\ made' = MADESET({top.node}, MADE) /\ time' = Update(time, top.node)
          /\ runerrs' = runerrs /\ top.at = "arc"
      BY <1>7, Zenon DEF DoNoRecipe, AfterLoop, MustMake, R!Quit
    <2>2. \A p \in Node : p # top.node => time'[p] = time[p]
      BY <2>1, Zenon DEF Update
    <2>3. top.at # "enter"
      BY <2>1, Zenon
    <2> QED BY <1>1, <2>1, <2>2, <2>3, RunningBlocked, ReturnsMade, Zenon
  <1>8. CASE WorkLeaf
    <2>1. made[top.node] = NOTMADE /\ time' = time
      BY <1>8, Zenon DEF WorkLeaf
    <2>2. \/ made' = MADESET({top.node}, MADE) /\ runerrs' = runerrs
          \/ made' = [made EXCEPT ![top.node] = @ \cup BEINGMADE] /\ runerrs' = runerrs + 1
      BY <1>8, Zenon DEF WorkLeaf, R!Quit
    <2>3. CASE made' = MADESET({top.node}, MADE) /\ runerrs' = runerrs
      BY <1>1, <2>1, <2>3, ReturnsMade, Zenon
    <2>4. CASE made' = [made EXCEPT ![top.node] = @ \cup BEINGMADE] /\ runerrs' = runerrs + 1
      <3>1. /\ made' \in [Node -> Flags] /\ \A p \in Node : p # top.node => made'[p] = made[p]
            /\ made'[top.node] = NOTMADE \cup BEINGMADE
        BY <1>2, <2>1, <2>4, Zenon DEF Flags
      <3>2. "BEINGMADE" \in made'[top.node] /\ "NOTMADE" \in made[top.node]
        BY <2>1, <3>1, Zenon DEF NOTMADE, BEINGMADE
      <3>3. runerrs' \in Nat /\ runerrs' # 0
        BY <1>2, <2>4
      <3>4. Stuck(g, Root, made')
        BY <1>2, <3>2, Zenon DEF Stuck
      <3> QED BY <1>1, <2>1, <3>1, <3>2, <3>3, <3>4, Returns, ZenonT(30)
    <2> QED BY <2>2, <2>3, <2>4, Zenon
  <1> QED BY <1>4, <1>5, <1>6, <1>7, <1>8, Zenon

\* An activation goes on, or calls work().
LEMMA Continues ==
    ASSUME Alive, Working, Quiet, UNCHANGED <<made, time, runerrs>>,
           stack' \in Seq(WorkFrame), PathOK(g, Root, stack'), Settled(g, made, stack'),
           ~dry => Reasons(g, aflag, time, stack'), ~did => Blocked(g, Root, made, stack')
    PROVE  Alive'
  <1>1. pc = "work" /\ calls = <<>>
    BY RunningIs, Zenon
  <1>2. /\ UNCHANGED <<jobs, events, procs, calls, g, opts, known, pc, ti, did, fake, job>>
        /\ Root' = Root /\ dry' = dry /\ aflag' = aflag /\ Owner' = Owner
    BY Zenon DEF Quiet, schedVars, Root, dry, nflag, tflag, aflag, Owner
  <1>3. Types'
    BY <1>1, <1>2, Zenon DEF Alive, Types
  <1>4. Waits'
    BY <1>1, <1>2, ZenonT(30) DEF Alive, Waits
  <1>5. Rounds'
    BY <1>1, <1>2, ZenonT(30) DEF Rounds
  <1>6. Covered'
    BY <1>2, ZenonT(30) DEF Alive, Covered
  <1>7. Waited'
    BY <1>1, <1>2, Zenon DEF Waited
  <1>8. PathOK(g, Root, stack)' /\ Settled(g, made, stack)' /\ (~dry' => Reasons(g, aflag, time, stack)')
    BY <1>2, Zenon
  <1> QED BY <1>3, <1>4, <1>5, <1>6, <1>7, <1>8, ZenonT(30) DEF Alive

\* The locals of an activation that goes on to the next arc.
OnNext(f, r, w) == [f EXCEPT !.at = "arc", !.i = @ + 1, !.ready = r, !.weoutofdate = w]

\* They are as they should be.
LEMMA NextArc ==
    ASSUME NEW f \in WorkFrame, NEW r \in BOOLEAN, NEW w \in BOOLEAN,
           NEW h, h = OnNext(f, r, w)
    PROVE  /\ h \in WorkFrame /\ h.node = f.node /\ h.at = "arc" /\ h.i = f.i + 1
           /\ h.ready = r /\ h.weoutofdate = w
  <1>1. PICK f1 : f1 = [f EXCEPT !.at = "arc"]
    BY Zenon
  <1>2. f1 \in WorkFrame /\ f1.node = f.node /\ f1.at = "arc" /\ f1.i = f.i
    BY <1>1, Zenon DEF WorkFrame
  <1>3. PICK f2 : f2 = [f1 EXCEPT !.i = f.i + 1]
    BY Zenon
  <1>4. f2 \in WorkFrame /\ f2.node = f.node /\ f2.at = "arc" /\ f2.i = f.i + 1
    BY <1>2, <1>3 DEF WorkFrame
  <1>5. PICK f3 : f3 = [f2 EXCEPT !.ready = r]
    BY Zenon
  <1>6. f3 \in WorkFrame /\ f3.node = f.node /\ f3.at = "arc" /\ f3.i = f.i + 1 /\ f3.ready = r
    BY <1>4, <1>5, Zenon DEF WorkFrame
  <1>7. PICK f4 : f4 = [f3 EXCEPT !.weoutofdate = w]
    BY Zenon
  <1>8. /\ f4 \in WorkFrame /\ f4.node = f.node /\ f4.at = "arc" /\ f4.i = f.i + 1
        /\ f4.ready = r /\ f4.weoutofdate = w
    BY <1>6, <1>7, Zenon DEF WorkFrame
  <1>9. f4 = h
    BY <1>1, <1>3, <1>5, <1>7, ZenonT(30) DEF OnNext
  <1> QED BY <1>8, <1>9, Zenon

\* The activation calls work() for the prerequisite of its arc, with the locals h.
Calls(f, h) ==
    /\ f.node = top.node /\ f.ready = top.ready /\ Visited(g, f) = Visited(g, top)
    /\ h.at = "enter" /\ h.i = 1 /\ h.ready

\* It has come back from that call, or there is no prerequisite.
Goes(f) ==
    /\ f.node = top.node /\ f.at = "arc" /\ f.i = top.i + 1 /\ top.i <= Len(g.arcs[top.node])
    /\ Child(g, top) = nil \/ top.at = "back"
    /\ f.ready <=> top.ready /\ (Child(g, top) = nil \/ made[Child(g, top)] \cap {"NOTMADE", "BEINGMADE"} = {})

\* The loop over the arcs.
LEMMA LoopSteps ==
    ASSUME Alive, WorkArc \/ WorkBack
    PROVE  /\ Alive' /\ Working /\ Quiet /\ made' = made
           /\ top.at = "enter" => made[top.node] = NOTMADE
           /\ \/ \E f, h \in WorkFrame : Calls(f, h) /\ stack' = Append(Put(stack, f), h)
              \/ \E f \in WorkFrame : Goes(f) /\ stack' = Put(stack, f)
  <1>1. Working /\ Quiet /\ UNCHANGED <<made, time, runerrs>>
    BY Zenon DEF WorkArc, WorkBack, Quiet, nodeVars
  <1>2. /\ g \in Graphs /\ Root \in Node /\ stack \in Seq(WorkFrame) /\ stack # <<>>
        /\ top = stack[Len(stack)] /\ top \in WorkFrame /\ FrameOK(g, Root, top)
        /\ top.node \in Node /\ top.node \in ReachOf(g, Root)
    BY <1>1, RunningIs, ZenonT(30)
  <1>3. /\ PathOK(g, Root, stack) /\ Settled(g, made, stack)
        /\ ~dry => Reasons(g, aflag, time, stack)
        /\ ~did => Blocked(g, Root, made, stack)
    BY <1>1, RunningIs, Zenon DEF Alive, Rounds
  <1>4. top.i \in 1 .. Len(g.arcs[top.node]) /\ (top.at = "enter" => made[top.node] = NOTMADE)
    <2>1. top.i \in Nat \ {0} /\ Len(g.arcs[top.node]) \in Nat
      BY <1>2, ArcsAre, Zenon DEF WorkFrame
    <2>2. g.arcs[top.node] # <<>> => Len(g.arcs[top.node]) # 0
      <3>1. IsGraph(g)
        BY <1>2, GraphsAssumption, Zenon
      <3>2. g.arcs[top.node] \in Seq([n : Node \cup {nil}, r : DOMAIN g.all])
        BY <1>2, <3>1, ZenonT(30) DEF IsGraph
      <3> QED BY <3>2
    <2>3. CASE WorkBack
      <3>1. top.at = "back"
        BY <2>3, Zenon DEF WorkBack
      <3> QED BY <1>2, <2>1, <3>1 DEF FrameOK
    <2>4. CASE WorkArc
      <3>1. \/ top.at = "enter" /\ made[top.node] = NOTMADE /\ g.arcs[top.node] # <<>>
            \/ top.at = "arc" /\ top.i <= Len(g.arcs[top.node])
        BY <2>4, Zenon DEF WorkArc, HasArcs, Arcs
      <3>2. top.at = "enter" => top.i = 1
        BY <1>2, Zenon DEF FrameOK
      <3> QED BY <2>1, <2>2, <3>1, <3>2
    <2> QED BY <2>3, <2>4, ZenonT(30)
  <1>5. \/ WorkArc /\ Child(g, top) # nil
        \/ WorkArc /\ Child(g, top) = nil
        \/ WorkBack
    OBVIOUS
  <1>6. CASE WorkArc /\ Child(g, top) # nil
    <2> DEFINE f == [top EXCEPT !.at = "back"]
               u == Put(stack, f)
               h == Call(Child(g, top))
    <2>1. stack' = Append(u, h)
      BY <1>2, <1>6, Zenon DEF WorkArc, Arcs, Child, Put
    <2>2. /\ f \in WorkFrame /\ f.node = top.node /\ f.at = "back" /\ f.i = top.i
          /\ f.ready = top.ready /\ f.weoutofdate = top.weoutofdate
      BY <1>2, Zenon DEF WorkFrame
    <2>3. Child(g, f) = Child(g, top) /\ Visited(g, f) = Visited(g, top)
      BY <2>2, Zenon DEF Child, Visited
    <2> HIDE DEF f
    <2>4. Child(g, top) \in Node
      BY <1>2, <1>4, <1>6, ArcsAre, ZenonT(30) DEF Child
    <2>5. /\ h \in WorkFrame /\ h.node = Child(g, top) /\ h.at = "enter" /\ h.i = 1 /\ h.ready = TRUE
          /\ h.weoutofdate = aflag
      BY <2>4, SMTT(30) DEF Call, WorkFrame, aflag
    <2> HIDE DEF h
    <2>6. FrameOK(g, Root, f)
      BY <1>2, <1>4, <1>6, <2>2, <2>3 DEF FrameOK
    <2>7. u \in Seq(WorkFrame) /\ u # <<>> /\ u[Len(u)] = f
      <3>1. u \in Seq(WorkFrame) /\ Len(u) = Len(stack) /\ u # <<>> /\ u[Len(stack)] = f
        BY <1>2, <2>2, PutIs, ZenonT(30)
      <3> QED BY <3>1, Zenon
    <2>8. PathOK(g, Root, u) /\ Settled(g, made, u) /\ (~dry => Reasons(g, aflag, time, u))
      <3>1. PathOK(g, Root, u)
        BY <1>2, <1>3, <2>2, <2>6, PathPut, Zenon
      <3>2. top.at = "enter" => "NOTMADE" \in made[f.node]
        BY <1>4, <2>2, Zenon DEF NOTMADE
      <3>3. Settled(g, made, u)
        BY <1>2, <1>3, <2>2, <2>3, <3>2, SettledPut, ZenonT(30)
      <3>4. ~dry => Reasons(g, aflag, time, u)
        BY <1>2, <1>3, <2>2, <2>3, ReasonsPut, ZenonT(30)
      <3> QED BY <3>1, <3>3, <3>4, Zenon
    <2>9. ~did => Blocked(g, Root, made, Append(u, h))
      BY <1>2, <1>3, <1>4, <2>2, <2>5, BlockedPush, ZenonT(30)
    <2> HIDE DEF u
    <2>10. Append(u, h) \in Seq(WorkFrame)
      BY <2>5, <2>7
    <2>11. PathOK(g, Root, Append(u, h))
      BY <1>2, <2>2, <2>3, <2>5, <2>7, <2>8, PathPush, ZenonT(30)
    <2>12. Settled(g, made, Append(u, h))
      BY <1>2, <2>5, <2>7, <2>8, SettledPush, Zenon
    <2>13. ~dry => Reasons(g, aflag, time, Append(u, h))
      BY <2>5, <2>7, <2>8, ReasonsPush, ZenonT(30)
    <2>14. Alive'
      BY <1>1, <2>1, <2>9, <2>10, <2>11, <2>12, <2>13, Continues, ZenonT(30)
    <2>15. Calls(f, h)
      BY <2>2, <2>3, <2>5, Zenon DEF Calls
    <2> QED BY <1>1, <1>4, <2>1, <2>2, <2>5, <2>14, <2>15, ZenonT(30) DEF u
  <1>7. ASSUME NEW f \in WorkFrame, stack' = Put(stack, f), f.node = top.node, f.at = "arc",
               f.i = top.i + 1, f.ready => top.ready,
               f.ready /\ Child(g, top) # nil => "NOTMADE" \notin made[Child(g, top)],
               f.weoutofdate => top.weoutofdate \/ Old(g, aflag, time, f),
               ~did /\ ~f.ready => ~top.ready \/ Stuck(g, Root, made)
        PROVE  Alive'
    <2>1. stack' \in Seq(WorkFrame)
      BY <1>2, <1>7, PutIs, Zenon
    <2>2. top.i <= Len(g.arcs[top.node])
      BY <1>4
    <2>3. Visited(g, f) = Visited(g, top) \cup ({Child(g, top)} \ {nil})
      BY <1>2, <1>7, <2>2, VisitedGoes, ZenonT(30)
    <2>4. FrameOK(g, Root, f)
      BY <1>2, <1>7, ZenonT(30) DEF FrameOK
    <2>5. top.at = "enter" => "NOTMADE" \in made[f.node]
      BY <1>4, <1>7, Zenon DEF NOTMADE
    <2>6. PathOK(g, Root, stack')
      BY <1>2, <1>3, <1>7, <2>4, PathPut, Zenon
    <2>7. f.ready => \A p \in Visited(g, f) \ Visited(g, top) : "NOTMADE" \notin made[p]
      BY <1>7, <2>3, Zenon
    <2>8. Settled(g, made, stack')
      BY <1>2, <1>3, <1>7, <2>5, <2>7, SettledPut, ZenonT(30)
    <2>9. Visited(g, top) \subseteq Visited(g, f)
      BY <2>3, Zenon
    <2>10. ~dry => Reasons(g, aflag, time, stack')
      BY <1>2, <1>3, <1>7, <2>9, ReasonsPut, Zenon
    <2>11. ~did => Blocked(g, Root, made, stack')
      <3>1. f.at # "back"
        BY <1>7, Zenon
      <3> QED BY <1>2, <1>3, <1>4, <1>7, <3>1, BlockedPut, ZenonT(30)
    <2> QED BY <1>1, <2>1, <2>6, <2>8, <2>10, <2>11, Continues, ZenonT(30)
  <1>8. CASE WorkArc /\ Child(g, top) = nil
    <2> DEFINE f == [top EXCEPT !.at = "arc", !.i = @ + 1,
                                !.weoutofdate = @ \/ time[top.node] = 0]
    <2>1. stack' = Put(stack, f)
      BY <1>2, <1>8, Zenon DEF WorkArc, Arcs, Child, Put, SetTop
    <2>2. /\ f \in WorkFrame /\ f.node = top.node /\ f.at = "arc" /\ f.i = top.i + 1
          /\ f.ready = top.ready /\ f.weoutofdate = (top.weoutofdate \/ time[top.node] = 0)
      <3>1. PICK w \in BOOLEAN : w = (top.weoutofdate \/ time[top.node] = 0)
        BY Zenon
      <3>2. top.ready \in BOOLEAN
        BY <1>2, Zenon DEF WorkFrame
      <3>3. f = OnNext(top, top.ready, w)
        BY <1>2, <3>1, Zenon DEF WorkFrame, OnNext
      <3> HIDE DEF f
      <3>4. top \in WorkFrame
        BY <1>2, Zenon
      <3>5. /\ f \in WorkFrame /\ f.node = top.node /\ f.at = "arc" /\ f.i = top.i + 1
            /\ f.ready = top.ready /\ f.weoutofdate = w
        BY <3>2, <3>3, <3>4, NextArc
      <3> QED BY <3>1, <3>5, Zenon
    <2> HIDE DEF f
    <2>3. Alive'
      BY <1>7, <1>8, <2>1, <2>2, ZenonT(30) DEF Old
    <2>4. Goes(f)
      BY <1>4, <1>8, <2>2 DEF Goes
    <2> QED BY <1>1, <1>4, <2>1, <2>2, <2>3, <2>4, ZenonT(30)
  <1>9. CASE WorkBack
    <2> DEFINE c == Child(g, top)
               f == [top EXCEPT !.at = "arc", !.i = @ + 1,
                                !.ready = @ /\ made[c] \cap {"NOTMADE", "BEINGMADE"} = {},
                                !.weoutofdate = @ \/ outofdate(time, top.node, c)]
    <2>1. stack' = Put(stack, f) /\ top.at = "back"
      BY <1>2, <1>9, Zenon DEF WorkBack, Arcs, Child, Put, SetTop
    <2>2. /\ f \in WorkFrame /\ f.node = top.node /\ f.at = "arc" /\ f.i = top.i + 1
          /\ f.ready = (top.ready /\ made[c] \cap {"NOTMADE", "BEINGMADE"} = {})
          /\ f.weoutofdate = (top.weoutofdate \/ outofdate(time, top.node, c))
      <3>1. PICK w \in BOOLEAN : w = (top.weoutofdate \/ outofdate(time, top.node, c))
        BY Zenon
      <3>2. PICK r \in BOOLEAN : r = (top.ready /\ made[c] \cap {"NOTMADE", "BEINGMADE"} = {})
        BY Zenon
      <3>3. f = OnNext(top, r, w)
        BY <3>1, <3>2, ZenonT(30) DEF OnNext
      <3> HIDE DEF f
      <3>4. top \in WorkFrame
        BY <1>2, Zenon
      <3>5. /\ f \in WorkFrame /\ f.node = top.node /\ f.at = "arc" /\ f.i = top.i + 1
            /\ f.ready = r /\ f.weoutofdate = w
        BY <3>3, <3>4, NextArc, SMTT(30)
      <3> QED BY <3>1, <3>2, <3>5, Zenon
    <2> HIDE DEF f
    <2>3. c # nil
      BY <1>2, <2>1, Zenon DEF FrameOK
    <2>4. c \in Visited(g, f)
      <3>1. top.i <= Len(g.arcs[top.node])
        BY <1>4
      <3>2. Visited(g, f) = Visited(g, top) \cup ({c} \ {nil})
        BY <1>2, <2>2, <3>1, VisitedGoes, ZenonT(30)
      <3> QED BY <2>3, <3>2, Zenon
    <2>5. c \in ReachOf(g, Root)
      <3>1. c \in PrereqsOf(g, top.node)
        BY <1>4, <2>3, Zenon DEF PrereqsOf, Child
      <3> QED BY <1>2, <3>1, ReachIs, Zenon
    <2>6. ~did /\ made[c] \cap {"NOTMADE", "BEINGMADE"} # {} => Stuck(g, Root, made)
      <3>1. made[c] \cap {"NOTMADE", "BEINGMADE"} # {} => "NOTMADE" \in made[c] \/ "BEINGMADE" \in made[c]
        BY Zenon
      <3> QED BY <1>1, <2>1, <2>5, <3>1, RunningBlocked, ZenonT(30) DEF Stuck
    <2>7. f.weoutofdate => top.weoutofdate \/ Old(g, aflag, time, f)
      BY <2>2, <2>4, Zenon DEF Old
    <2>8. f.ready => "NOTMADE" \notin made[c]
      BY <2>2, Zenon
    <2>9. Alive'
      BY <1>7, <2>1, <2>2, <2>6, <2>7, <2>8, ZenonT(30)
    <2>10. Goes(f)
      <3>1. top.i <= Len(g.arcs[top.node])
        BY <1>4
      <3> QED BY <2>1, <2>2, <2>3, <3>1, ZenonT(30) DEF Goes
    <2> QED BY <1>1, <1>4, <2>1, <2>2, <2>9, <2>10, ZenonT(30)
  <1> QED BY <1>5, <1>6, <1>8, <1>9, Zenon

-----------------------------------------------------------------------------
(***************************************************************************)
(* The steps of mk().                                                      *)
(***************************************************************************)
\* No activation of work().
LEMMA NoWork ==
    ASSUME NEW x, NEW rt, NEW md, NEW all, NEW tm
    PROVE  PathOK(x, rt, <<>>) /\ Settled(x, md, <<>>) /\ Reasons(x, all, tm, <<>>)
  BY DEF PathOK, Settled, Reasons

\* The activation of waitup() that mk() starts.
WaitCall(ok) == <<[k |-> "wait", want |-> NoPid, job |-> NoJob, ok |-> ok, kill |-> FALSE]>>

\* It has not reaped a job.
LEMMA WaitCallIs ==
    ASSUME NEW ok \in BOOLEAN, NEW q, NEW ev
    PROVE  /\ WaitCall(ok) # <<>> /\ Len(WaitCall(ok)) = 1 /\ Waitup(WaitCall(ok)[1])
           /\ WaitCall(ok)[1].ok = ok /\ WaitCall(ok)[1].k = "wait"
           /\ OwnersOf(q, ev, WaitCall(ok)) = OwnersOf(q, ev, <<>>)
  <1> DEFINE f == [k |-> "wait", want |-> NoPid, job |-> NoJob, ok |-> ok, kill |-> FALSE]
  <1>1. WaitCall(ok) # <<>> /\ Len(WaitCall(ok)) = 1 /\ WaitCall(ok)[1] = f
    BY Zenon DEF WaitCall
  <1>2. Waitup(f) /\ f.ok = ok /\ f.k = "wait"
    BY Zenon DEF Waitup
  <1> HIDE DEF f
  <1>3. {i \in 1 .. Len(WaitCall(ok)) : WaitCall(ok)[i].k = "upd"} = {}
    BY <1>1, <1>2
  <1>4. {i \in 1 .. Len(<<>>) : <<>>[i].k = "upd"} = {}
    OBVIOUS
  <1>5. OwnersOf(q, ev, WaitCall(ok)) = OwnersOf(q, ev, <<>>)
    BY <1>3, <1>4, ZenonT(30) DEF OwnersOf
  <1> QED BY <1>1, <1>2, <1>5, Zenon

\* Between two rounds: mk() goes on, or calls waitup().
LEMMA Between ==
    ASSUME Alive, calls = <<>>, stack = <<>>, pc # "start", stack' = stack,
           UNCHANGED <<jobs, events, procs, nodeVars, ti, did, runerrs, fake, job>>,
           pc' \in {"start", "loop", "waitup", "after", "drain", "return"},
           \/ calls' = <<>> /\ pc' # "waitup"
           \/ calls' = WaitCall(FALSE) /\ pc' = "drain"
           \/ /\ calls' = WaitCall(TRUE) /\ pc' = "waitup"
              /\ "NOTMADE" \in made[Root] => Stuck(g, Root, made)
    PROVE  Alive'
  <1>1. /\ UNCHANGED <<jobs, events, procs, g, opts, known, time, made, ti, did, runerrs, fake, job>>
        /\ Root' = Root /\ dry' = dry /\ aflag' = aflag
    BY Zenon DEF nodeVars, Root, dry, nflag, tflag, aflag
  <1>2. Owner' = Owner
    BY <1>1, WaitCallIs, Zenon DEF Owner
  <1>3. calls' # <<>> => /\ Len(calls') = 1 /\ Waitup(calls'[1]) /\ calls'[1].k # "upd"
                         /\ pc' = "waitup" => calls'[1].ok
    BY WaitCallIs, ZenonT(30)
  <1>4. Types'
    BY <1>1, ZenonT(30) DEF Alive, Types
  <1>5. Waits'
    <2>1. pc' \notin {"waitup", "drain"} => calls' = <<>>
      BY Zenon
    <2> QED BY <1>1, <1>3, <2>1, Zenon DEF Alive, Waits, Waitup
  <1>6. Rounds'
    BY <1>1, Zenon DEF Rounds
  <1>7. Covered'
    BY <1>1, <1>2, <1>3, ZenonT(30) DEF Alive, Covered
  <1>8. Waited'
    BY ZenonT(30) DEF Waited
  <1>9. PathOK(g, Root, stack)' /\ Settled(g, made, stack)' /\ Reasons(g, aflag, time, stack)'
    BY <1>1, NoWork, Zenon
  <1> QED BY <1>4, <1>5, <1>6, <1>7, <1>8, <1>9, ZenonT(30) DEF Alive

\* The steps of mk() that neither call work() nor start on a target.
LEMMA BetweenSteps ==
    ASSUME Alive, mkstate' = "alive",
           \/ MkLoop /\ "NOTMADE" \notin made[Root]
           \/ MkWorked \/ MkEmpty \/ MkAfter \/ MkDrain \/ MkReturn
    PROVE  Alive'
  <1>1. calls = <<>> /\ pc # "start" /\ (pc = "work" => stack = <<>>)
    BY Zenon DEF MkLoop, MkWorked, MkEmpty, MkAfter, MkDrain, MkReturn, InMk
  <1>2. stack = <<>>
    BY <1>1, Zenon DEF Alive, Types
  <1>3. UNCHANGED <<jobs, events, procs, nodeVars, ti, did, runerrs, fake, job, stack>>
    BY Zenon DEF MkLoop, MkWorked, MkEmpty, MkAfter, MkDrain, MkReturn, R!CallWaitup, R!Quit,
                 R!queueVars, R!slotVars, schedVars
  <1>4. CASE MkWorked
    <2>1. did => pc' = "loop" /\ calls' = <<>>
      BY <1>1, <1>4, Zenon DEF MkWorked, schedVars
    <2>2. ~did => pc' = "waitup" /\ calls' = WaitCall(TRUE)
      BY <1>4, ZenonT(30) DEF MkWorked, R!CallWaitup, WaitCall
    <2>3. ~did /\ "NOTMADE" \in made[Root] => Stuck(g, Root, made)
      <3>1. pc = "work"
        BY <1>4, Zenon DEF MkWorked
      <3> QED BY <1>2, <3>1, ZenonT(30) DEF Alive, Rounds, Blocked
    <2> QED BY <1>1, <1>2, <1>3, <2>1, <2>2, <2>3, Between, ZenonT(30)
  <1>5. CASE MkDrain
    <2>1. (pc' = "drain" /\ calls' = WaitCall(FALSE)) \/ (pc' = "return" /\ calls' = <<>>)
      BY <1>1, <1>5, Zenon DEF MkDrain, R!CallWaitup, R!Quit, schedVars, WaitCall
    <2> QED BY <1>1, <1>2, <1>3, <2>1, Between, ZenonT(30)
  <1>6. CASE MkAfter
    <2>1. pc' = "drain" /\ (calls' = WaitCall(FALSE) \/ calls' = <<>>)
      BY <1>1, <1>6, Zenon DEF MkAfter, R!CallWaitup, schedVars, WaitCall
    <2> QED BY <1>1, <1>2, <1>3, <2>1, Between, ZenonT(30)
  <1>7. CASE (MkLoop /\ "NOTMADE" \notin made[Root]) \/ MkEmpty \/ MkReturn
    <2>1. pc' \in {"start", "loop", "after"} /\ calls' = <<>>
      BY <1>1, <1>7, ZenonT(30) DEF MkLoop, MkEmpty, MkReturn, schedVars, R!Quit
    <2> QED BY <1>1, <1>2, <1>3, <2>1, Between, ZenonT(30)
  <1> QED BY <1>4, <1>5, <1>6, <1>7, Zenon

\* mk() calls work() for its target.
LEMMA LoopCalls ==
    ASSUME Alive, MkLoop, "NOTMADE" \in made[Root]
    PROVE  Alive'
  <1> DEFINE h == Call(Root)
  <1>1. /\ calls = <<>> /\ pc = "loop" /\ pc' = "work" /\ did' = FALSE /\ stack' = <<h>>
        /\ UNCHANGED <<schedVars, nodeVars, ti, runerrs, fake, job>>
    BY ZenonT(30) DEF MkLoop, InMk
  <1>2. /\ UNCHANGED <<jobs, events, procs, calls, g, opts, known, time, made, ti, runerrs, fake, job>>
        /\ Root' = Root /\ dry' = dry /\ aflag' = aflag /\ Owner' = Owner
    BY <1>1, Zenon DEF schedVars, nodeVars, Root, dry, nflag, tflag, aflag, Owner
  <1>3. g \in Graphs /\ Root \in Node /\ Root \in ReachOf(g, Root)
    BY <1>1, RootIs, ZenonT(30) DEF Alive, Types
  <1>4. /\ h \in WorkFrame /\ h.node = Root /\ h.at = "enter" /\ h.i = 1 /\ h.ready = TRUE
        /\ h.weoutofdate = aflag
    BY <1>3 DEF Call, WorkFrame, aflag
  <1> HIDE DEF h
  <1>5. stack' \in Seq(WorkFrame) /\ stack' = Append(<<>>, h) /\ <<>> \in Seq(WorkFrame)
        /\ Len(stack') = 1 /\ stack'[1] = h /\ stack' # <<>>
    BY <1>1, <1>4
  <1>6. Types'
    BY <1>1, <1>2, <1>5, ZenonT(30) DEF Alive, Types
  <1>7. Waits'
    BY <1>1, <1>2, ZenonT(30) DEF Alive, Waits
  <1>8. PathOK(g, Root, stack')
    <2>1. FrameOK(g, Root, h)
      BY <1>3, <1>4, ZenonT(30) DEF FrameOK
    <2>2. 1 .. Len(stack') = {1} /\ 1 .. Len(stack') - 1 = {} /\ ~(1 < 1)
      BY <1>5
    <2> QED BY <1>4, <1>5, <2>1, <2>2, ZenonT(30) DEF PathOK
  <1>9. Settled(g, made, stack')
    BY <1>3, <1>4, <1>5, NoWork, SettledPush, ZenonT(30)
  <1>10. Reasons(g, aflag, time, stack')
    BY <1>4, <1>5, NoWork, ReasonsPush, Zenon
  <1>11. Blocked(g, Root, made, stack')
    <2>1. \A k \in 1 .. Len(stack') : stack'[k] = h
      BY <1>5
    <2>2. h.at # "back" /\ stack'[Len(stack')] = h
      BY <1>4, <1>5, ZenonT(30)
    <2> QED BY <1>4, <1>5, <2>1, <2>2, ZenonT(30) DEF Blocked
  <1>12. Rounds'
    BY <1>1, <1>2, <1>11, Zenon DEF Rounds
  <1>13. Covered'
    BY <1>1, <1>2, ZenonT(30) DEF Alive, Covered
  <1>14. Waited'
    BY <1>1, ZenonT(30) DEF Waited
  <1>15. PathOK(g, Root, stack)' /\ Settled(g, made, stack)' /\ Reasons(g, aflag, time, stack)'
    BY <1>2, <1>8, <1>9, <1>10, ZenonT(30)
  <1> QED BY <1>6, <1>7, <1>12, <1>13, <1>14, <1>15, ZenonT(30) DEF Alive

\* mk() is called for the next target.
LEMMA Starts ==
    ASSUME Alive, MkStart
    PROVE  Alive'
  <1>1. /\ calls = <<>> /\ pc = "start" /\ pc' = "loop" /\ ti < Len(g.targets) /\ ti' = ti + 1
        /\ runerrs' = 0 /\ UNCHANGED <<schedVars, g, opts, stack, did, fake, job>>
    BY Zenon DEF MkStart, InMk
  <1>2. /\ UNCHANGED <<jobs, events, procs, calls, g, opts, stack, did, fake, job>>
        /\ dry' = dry /\ aflag' = aflag /\ Owner' = Owner
    BY <1>1, Zenon DEF schedVars, dry, nflag, tflag, aflag, Owner
  <1>3. g \in Graphs /\ stack = <<>> /\ ti \in 0 .. Len(g.targets) /\ known \subseteq Node
        /\ made \in [Node -> Flags] /\ NOTMADE \in Flags
    BY <1>1, Zenon DEF Alive, Types, Flags
  <1>4. ti' \in 0 .. Len(g.targets) /\ ti' # 0 /\ g.targets[ti'] \in Node
    BY <1>1, <1>3, TargetsAre, Zenon
  <1>5. Root' \in Node /\ Root' = g.targets[ti + 1]
    BY <1>1, <1>2, <1>4, Zenon DEF Root
  <1>6. ReachOf(g, Root') \subseteq Node
    BY <1>3, <1>5, ReachIs, Zenon
  <1>7. known' = known \cup ReachOf(g, Root') /\ made' = MADESET(ReachOf(g, Root'), NOTMADE)
    BY <1>5, GraphIs, Zenon DEF MkStart
  <1>8. made' \in [Node -> Flags] /\ \A m \in ReachOf(g, Root') : made'[m] = NOTMADE
    BY <1>3, <1>6, <1>7, MadesetIs, ZenonT(30)
  <1>9. Types'
    BY <1>1, <1>2, <1>3, <1>4, <1>6, <1>7, <1>8, ZenonT(30) DEF Alive, Types
  <1>10. Waits'
    BY <1>1, <1>2, Zenon DEF Alive, Waits
  <1>11. Rounds' /\ Waited'
    BY <1>1, ZenonT(30) DEF Rounds, Waited
  <1>12. Covered'
    <2>1. \A m \in ReachOf(g, Root') : "BEINGMADE" \notin made'[m]
      BY <1>8 DEF NOTMADE
    <2> QED BY <1>1, <1>2, <2>1, Zenon DEF Alive, Covered
  <1>13. PathOK(g, Root, stack)' /\ Settled(g, made, stack)' /\ Reasons(g, aflag, time, stack)'
    BY <1>2, <1>3, NoWork, Zenon
  <1> QED BY <1>9, <1>10, <1>11, <1>12, <1>13, ZenonT(30) DEF Alive

-----------------------------------------------------------------------------
(***************************************************************************)
(* The steps that schedule a job or wait for one.  What they need to know  *)
(* of the scheduler is shown in module MkRunProofs.                        *)
(***************************************************************************)
\* nextslot() finds a slot that is free, and what is known of finite sets.
SetFacts == /\ R!FreeSlots # {} => R!nextslot \in R!FreeSlots
            /\ R!Cardinality({}) = 0
            /\ \A L \in Nat : \A S \in SUBSET (0 .. L) :
                   S # {} => \E m \in S : \A i \in S : m >= i
SchedOK == R!TypeOK /\ R!CountIsSlots /\ R!SlotsAreChildren /\ R!WorkConserving

\* The slots that are taken.
BusyIn(ev) == {t \in R!Slot : ev[t].pid \in Pid}

\* A job leaves the queue for a slot.
LEMMA Taken ==
    ASSUME NEW q, IsSeq(q), q # <<>>
    PROVE  Range(q) = {Head(q)} \cup Range(Tail(q))
  <1>1. PICK S : q \in Seq(S)
    BY Zenon DEF IsSeq
  <1>2. Len(q) \in Nat \ {0} /\ DOMAIN q = 1 .. Len(q) /\ Head(q) = q[1]
    BY <1>1
  <1>3. /\ Tail(q) \in Seq(S) /\ Len(Tail(q)) = Len(q) - 1 /\ DOMAIN Tail(q) = 1 .. Len(Tail(q))
        /\ \A i \in 1 .. Len(q) - 1 : Tail(q)[i] = q[i + 1]
    BY <1>1, <1>2
  <1>4. ASSUME NEW i \in DOMAIN q PROVE q[i] \in {Head(q)} \cup Range(Tail(q))
    <2>1. CASE i = 1
      BY <1>2, <2>1, Zenon
    <2>2. CASE i # 1
      <3>1. i - 1 \in DOMAIN Tail(q) /\ Tail(q)[i - 1] = q[i]
        BY <1>2, <1>3, <2>2
      <3> QED BY <3>1, Zenon DEF Range
    <2> QED BY <2>1, <2>2, Zenon
  <1>5. ASSUME NEW i \in DOMAIN Tail(q) PROVE Tail(q)[i] \in Range(q)
    <2>1. i + 1 \in DOMAIN q /\ Tail(q)[i] = q[i + 1]
      BY <1>2, <1>3
    <2> QED BY <2>1, Zenon DEF Range
  <1>6. Head(q) \in Range(q)
    <2>1. 1 \in DOMAIN q
      BY <1>2
    <2> QED BY <1>2, <2>1, Zenon DEF Range
  <1> QED BY <1>4, <1>5, <1>6, Zenon DEF Range

\* No job is lost, and none comes from nowhere.
LEMMA Scheduled ==
    ASSUME R!TypeOK, SetFacts, NEW q, IsSeq(q), R!SchedIfRoom(q), mkstate' = "alive",
           mkstate = "alive"
    PROVE  /\ OwnersOf(jobs', events', <<>>) \subseteq OwnersOf(q, events, <<>>)
           /\ ~dry => OwnersOf(q, events, <<>>) \subseteq OwnersOf(jobs', events', <<>>)
           /\ dry => procs' = procs
  <1> DEFINE n == R!nextslot
  <1>1. \/ jobs' = q /\ events' = events /\ procs' = procs
        \/ /\ q # <<>> /\ jobs' = Tail(q) /\ R!FreeSlots # {}
           /\ \/ dry /\ procs' = procs /\ events' = [events EXCEPT ![n].job = Head(q)]
              \/ ~dry /\ \E p \in R!FreshPid : events' = [events EXCEPT ![n] = [pid |-> p, job |-> Head(q)]]
    BY Zenon DEF R!SchedIfRoom, R!Sched, R!slotVars
  <1>2. CASE jobs' = q /\ events' = events /\ procs' = procs
    BY <1>2, Zenon
  <1>3. CASE ~(jobs' = q /\ events' = events /\ procs' = procs)
    <2>1. q # <<>> /\ jobs' = Tail(q) /\ Range(q) = {Head(q)} \cup Range(jobs')
      BY <1>1, <1>3, Taken, Zenon
    <2>2. n \in R!Slot /\ events[n].pid \notin Pid
      BY <1>1, <1>3, Zenon DEF SetFacts, R!FreeSlots, R!Busy
    <2>3. /\ events \in [R!Slot -> [pid : Pid \cup {NoPid}, job : Job \cup {NoJob}]]
          /\ NoPid \notin Pid
      BY SchedulerAssumption, Zenon DEF R!TypeOK
    <2> HIDE DEF n
    <2>4. CASE dry /\ procs' = procs /\ events' = [events EXCEPT ![n].job = Head(q)]
      <3>1. \A s \in R!Slot : events'[s].pid = events[s].pid /\ (s # n => events'[s] = events[s])
        BY <2>2, <2>3, <2>4, Zenon
      <3>2. \A s \in R!Slot : events'[s].pid \in Pid => events[s].pid \in Pid /\ events'[s].job = events[s].job
        BY <2>2, <3>1, Zenon
      <3> QED BY <2>1, <2>4, <3>2, Zenon DEF OwnersOf
    <2>5. ASSUME ~dry, NEW p \in R!FreshPid, events' = [events EXCEPT ![n] = [pid |-> p, job |-> Head(q)]]
          PROVE  OwnersOf(jobs', events', <<>>) = OwnersOf(q, events, <<>>)
      <3>1. events'[n].pid = p /\ events'[n].job = Head(q) /\ \A s \in R!Slot : s # n => events'[s] = events[s]
        BY <2>2, <2>3, <2>5, Zenon
      <3>2. p \in Pid
        BY Zenon DEF R!FreshPid
      <3>3. BusyIn(events') = BusyIn(events) \cup {n} /\ n \notin BusyIn(events)
        BY <2>2, <3>1, <3>2, Zenon DEF BusyIn
      <3>4. {events'[s].job : s \in BusyIn(events')} = {events[s].job : s \in BusyIn(events)} \cup {Head(q)}
        <4>1. \A s \in BusyIn(events) : s # n /\ events'[s].job = events[s].job
          BY <3>1, <3>3, Zenon DEF BusyIn
        <4> QED BY <3>1, <3>3, <4>1, ZenonT(30)
      <3> QED BY <2>1, <3>4, ZenonT(30) DEF OwnersOf, BusyIn
    <2> QED BY <1>1, <1>3, <2>4, <2>5, Zenon
  <1> QED BY <1>1, <1>2, <1>3, Zenon

\* The jobs while an activation of waitup() waits, and while it updates targets.
LEMMA OwnersAre ==
    ASSUME NEW q, NEW ev, NEW cl, Len(cl) = 1
    PROVE  /\ cl[1].k # "upd" => OwnersOf(q, ev, cl) = OwnersOf(q, ev, <<>>)
           /\ cl[1].k = "upd" => OwnersOf(q, ev, cl) = OwnersOf(q, ev, <<>>) \cup {cl[1].job}
  <1>1. /\ cl[1].k # "upd" => {i \in 1 .. Len(cl) : cl[i].k = "upd"} = {}
        /\ cl[1].k = "upd" => {i \in 1 .. Len(cl) : cl[i].k = "upd"} = {1}
    <2>1. 1 .. Len(cl) = {1}
      OBVIOUS
    <2> QED BY <2>1, Zenon
  <1>2. {i \in 1 .. Len(<<>>) : <<>>[i].k = "upd"} = {}
    BY SMTT(30)
  <1> QED BY <1>1, <1>2, Zenon DEF OwnersOf

\* mk() is in waitup().
LEMMA WaitingIs ==
    ASSUME Alive, R!TypeOK, calls # <<>>
    PROVE  /\ Len(calls) = 1 /\ R!Top = calls[1] /\ R!Front(calls) = <<>>
           /\ calls[1].k \in {"wait", "upd"} /\ calls[1].want = NoPid /\ ~calls[1].kill
           /\ pc \in {"waitup", "drain"} /\ pc # "start" /\ stack = <<>>
           /\ g \in Graphs /\ Root \in Node /\ Root \in ReachOf(g, Root)
           /\ ReachOf(g, Root) \subseteq Node
           /\ made \in [Node -> Flags] /\ runerrs \in Nat
  <1>1. Len(calls) = 1 /\ Waitup(calls[1]) /\ pc \in {"waitup", "drain"}
    BY Zenon DEF Alive, Waits
  <1>2. R!Top = calls[1] /\ R!Front(calls) = <<>>
    <2>1. calls \in Seq(R!Frame)
      BY Zenon DEF R!TypeOK
    <2>2. SubSeq(calls, 1, 0) = <<>>
      BY <2>1
    <2> QED BY <1>1, <2>2 DEF R!Top, R!Front
  <1>3. pc # "start" /\ stack = <<>> /\ Types
    BY <1>1, Zenon DEF Alive, Types
  <1>4. g \in Graphs /\ Root \in Node /\ Root \in ReachOf(g, Root) /\ made \in [Node -> Flags]
        /\ runerrs \in Nat
    BY <1>3, RootIs, Zenon DEF Types
  <1>5. ReachOf(g, Root) \subseteq Node
    BY <1>4, ReachIs, ZenonT(30)
  <1> QED BY <1>1, <1>2, <1>3, <1>4, <1>5, ZenonT(30) DEF Waitup

\* A step of waitup().
LEMMA WaitStep ==
    ASSUME Alive, R!TypeOK, calls # <<>>, UNCHANGED <<g, opts, known, ti, stack, did, job>>,
           made' \in [Node -> Flags], runerrs' \in Nat,
           pc' \in {"waitup", "drain", "loop", "empty"},
           Waits', Covered', Waited',
           pc' = "waitup" /\ "NOTMADE" \in made'[Root] => Stuck(g, Root, made')
    PROVE  Alive'
  <1>1. stack = <<>> /\ pc # "start"
    BY WaitingIs, Zenon
  <1>2. Root' = Root
    BY Zenon DEF Root
  <1>3. Types'
    BY <1>1, <1>2, Zenon DEF Alive, Types
  <1>4. Rounds'
    BY <1>2, Zenon DEF Rounds
  <1>5. PathOK(g, Root, stack)' /\ Settled(g, made, stack)' /\ Reasons(g, aflag, time, stack)'
    BY <1>1, <1>2, NoWork, Zenon
  <1> QED BY <1>3, <1>4, <1>5, Zenon DEF Alive

\* There is no child: no job is left.
LEMMA NoneLeft ==
    ASSUME Alive, SchedOK, SetFacts, mkstate = "alive", calls # <<>>, R!Top.k = "wait",
           R!Children = {}
    PROVE  Owner = {}
  <1>1. Len(calls) = 1 /\ calls[1].k = "wait"
    BY WaitingIs, Zenon DEF SchedOK
  <1>2. Owner = OwnersOf(jobs, events, <<>>)
    <2>1. calls[1].k # "upd"
      BY <1>1, Zenon
    <2> QED BY <1>1, <2>1, OwnersAre, ZenonT(30) DEF Owner
  <1>3. R!Busy = {} /\ nrunning = 0
    <2>1. R!Busy = {}
      BY Zenon DEF SchedOK, R!SlotsAreChildren
    <2>2. R!Cardinality({}) = 0
      BY Zenon DEF SetFacts
    <2> QED BY <2>1, <2>2, Zenon DEF SchedOK, R!CountIsSlots
  <1>4. jobs = <<>>
    <2>1. R!Updating = {}
      BY <1>1 DEF R!Updating
    <2>2. R!nproclimit \in Int /\ R!nproclimit >= 1
      BY SchedulerAssumption DEF R!nproclimit
    <2>3. R!Cardinality(R!Updating) = 0
      BY <2>1, Zenon DEF SetFacts
    <2> QED BY <1>3, <2>2, <2>3 DEF SchedOK, R!WorkConserving
  <1>5. Range(jobs) = {}
    BY <1>4 DEF Range
  <1>6. {i \in 1 .. Len(<<>>) : <<>>[i].k = "upd"} = {}
    OBVIOUS
  <1> QED BY <1>2, <1>3, <1>5, <1>6, ZenonT(30) DEF OwnersOf, R!Busy

\* waitup() finds that there is no child: every job has ended.
LEMMA NoChildStep ==
    ASSUME Alive, SchedOK, SetFacts, mkstate' = "alive", MkNoChild
    PROVE  Alive' /\ Owner = {} /\ Owner' = {} /\ calls' = <<>>
  <1>1. /\ mkstate = "alive" /\ calls # <<>> /\ R!Top.k = "wait" /\ R!Children = {}
        /\ calls' = R!Front(calls) /\ UNCHANGED <<jobs, events, procs>>
    BY Zenon DEF MkNoChild, R!NoChild, R!TopIs, R!queueVars, R!slotVars
  <1>2. /\ pc' = IF pc = "waitup" THEN "empty" ELSE pc
        /\ UNCHANGED <<nodeVars, ti, stack, did, runerrs, fake, job>>
    BY Zenon DEF MkNoChild
  <1>3. UNCHANGED <<g, opts, known, time, made>> /\ dry' = dry /\ Root' = Root
    BY <1>2, ZenonT(30) DEF nodeVars, dry, nflag, tflag, Root
  <1>4. /\ Len(calls) = 1 /\ calls[1].k = "wait" /\ calls' = <<>> /\ pc \in {"waitup", "drain"}
        /\ pc # "start" /\ Root \in ReachOf(g, Root) /\ made \in [Node -> Flags] /\ runerrs \in Nat
    BY <1>1, WaitingIs, Zenon DEF SchedOK
  <1>5. Owner' = Owner /\ Owner = OwnersOf(jobs, events, <<>>)
    <2>1. calls[1].k # "upd"
      BY <1>4, Zenon
    <2> QED BY <1>1, <1>4, <2>1, OwnersAre, ZenonT(30) DEF Owner
  <1>6. Owner = {}
    BY <1>1, NoneLeft, ZenonT(30)
  <1>7. Waited'
    <2> SUFFICES ASSUME pc = "waitup", runerrs = 0, made[Root] \cap {"NOTMADE", "BEINGMADE"} # {}
                 PROVE  FALSE
      BY <1>2, <1>3, <1>4, ZenonT(30) DEF Waited
    <2>1. "NOTMADE" \in made[Root] \/ "BEINGMADE" \in made[Root]
      BY Zenon
    <2>2. Stuck(g, Root, made)
      BY <1>4, <2>1, ZenonT(30) DEF Alive, Rounds, Stuck
    <2> QED BY <1>4, <1>6, <2>2, ZenonT(30) DEF Alive, Covered, Stuck
  <1>8. Waits'
    BY <1>1, <1>3, <1>4, ZenonT(30) DEF Alive, Waits
  <1>9. Covered'
    BY <1>2, <1>3, <1>4, <1>5, ZenonT(30) DEF Alive, Covered
  <1>10. pc' \in {"drain", "empty"}
    BY <1>2, <1>4, ZenonT(30)
  <1>11. Alive'
    BY <1>1, <1>2, <1>3, <1>4, <1>7, <1>8, <1>9, <1>10, WaitStep, ZenonT(30) DEF SchedOK
  <1> QED BY <1>4, <1>5, <1>6, <1>11, ZenonT(30)

\* waitup() reaps a child.
LEMMA ReapStep ==
    ASSUME Alive, R!TypeOK, mkstate' = "alive", NEW p \in Pid, MkReap(p)
    PROVE  /\ Alive' /\ Owner' = Owner /\ jobs' = jobs
           /\ calls # <<>> /\ calls[1].k = "wait" /\ Len(calls') = 1
           /\ \/ UNCHANGED <<events, calls>>
              \/ \E s \in R!pidslot(p) :
                    /\ events'[s].pid = NoPid /\ \A t \in R!Slot : t # s => events'[t] = events[t]
                    /\ calls'[1].k = "upd" /\ calls'[1].job = events[s].job
  <1>1. /\ calls # <<>> /\ R!Top.k = "wait" /\ procs[p] \in R!Status
        /\ R!ReapWanted(p) \/ R!ReapJob(p) \/ R!ReapRogue(p)
        /\ UNCHANGED <<nodeVars, pc, ti, stack, did, job>>
    BY Zenon DEF MkReap, R!Reap, R!TopIs
  <1>2. /\ fake' => runerrs' = runerrs + 1
        /\ runerrs' = runerrs \/ runerrs' = runerrs + 1
    BY Zenon DEF MkReap
  <1>3. /\ UNCHANGED <<g, opts, known, time, made>> /\ dry' = dry /\ Root' = Root
    BY <1>1, Zenon DEF nodeVars, dry, nflag, tflag, Root
  <1>4. /\ Len(calls) = 1 /\ R!Top = calls[1] /\ calls[1].k = "wait" /\ calls[1].want = NoPid
        /\ ~calls[1].kill /\ pc \in {"waitup", "drain"} /\ pc # "start"
        /\ made \in [Node -> Flags] /\ runerrs \in Nat
    BY <1>1, WaitingIs, Zenon
  <1>5. ~dry
    <2>1. procs[p] # "free"
      BY <1>1, ZenonT(30) DEF R!Status
    <2> QED BY <2>1, Zenon DEF Alive, Waits
  <1>6. runerrs' \in Nat /\ (runerrs' = 0 => runerrs = 0) /\ (fake' => runerrs' # 0)
    BY <1>2, <1>4, SMTT(30)
  <1>7. /\ jobs' = jobs /\ Len(calls') = 1 /\ calls'[1].want = NoPid /\ ~calls'[1].kill
        /\ calls'[1].ok = calls[1].ok /\ calls'[1].k \in {"wait", "upd"} /\ Owner' = Owner
        /\ \/ UNCHANGED <<events, calls>>
           \/ \E s \in R!pidslot(p) :
                 /\ events'[s].pid = NoPid /\ \A t \in R!Slot : t # s => events'[t] = events[t]
                 /\ calls'[1].k = "upd" /\ calls'[1].job = events[s].job
    <2>1. CASE R!ReapWanted(p)
      BY <1>4, <2>1, SchedulerAssumption, ZenonT(30) DEF R!ReapWanted
    <2>2. CASE R!ReapRogue(p)
      <3>1. UNCHANGED <<jobs, events, calls>>
        BY <2>2, Zenon DEF R!ReapRogue, R!queueVars, R!slotVars
      <3> QED BY <1>4, <3>1, ZenonT(30) DEF Owner
    <2>3. CASE R!ReapJob(p)
      <3>1. PICK s \in R!pidslot(p) :
               /\ events' = [events EXCEPT ![s].pid = NoPid] /\ jobs' = jobs
               /\ calls' = [calls EXCEPT ![Len(calls)] =
                                [R!Top EXCEPT !.k = "upd", !.job = events[s].job]]
        BY <2>3, Zenon DEF R!ReapJob, R!SetTop
      <3>2. s \in R!Slot /\ events[s].pid = p
        BY Zenon DEF R!pidslot
      <3>3. /\ events \in [R!Slot -> [pid : Pid \cup {NoPid}, job : Job \cup {NoJob}]]
            /\ calls \in Seq(R!Frame) /\ NoPid \notin Pid
        BY SchedulerAssumption, Zenon DEF R!TypeOK
      <3> DEFINE f == [calls[1] EXCEPT !.k = "upd", !.job = events[s].job]
      <3>4. Len(calls') = 1 /\ calls'[1] = f
        <4>1. calls' = [calls EXCEPT ![1] = f] /\ 1 \in 1 .. Len(calls)
          BY <1>4, <3>1
        <4> HIDE DEF f
        <4>2. DOMAIN calls = 1 .. Len(calls) /\ Len(calls') = Len(calls)
          BY <3>3, <4>1
        <4> QED BY <1>4, <4>1, <4>2, Zenon
      <3>5. /\ f.k = "upd" /\ f.job = events[s].job /\ f.want = calls[1].want
            /\ f.kill = calls[1].kill /\ f.ok = calls[1].ok
        <4>1. calls[1] \in R!Frame
          <5>1. 1 \in 1 .. Len(calls)
            BY <1>4
          <5> QED BY <3>3, <5>1
        <4>2. DOMAIN calls[1] = {"k", "want", "job", "ok", "kill"}
          BY <4>1, Zenon DEF R!Frame
        <4>3. f.k = "upd" /\ f.job = events[s].job /\ f.want = calls[1].want
          BY <4>2, Zenon
        <4>4. f.kill = calls[1].kill
          BY <4>2, Zenon
        <4>5. f.ok = calls[1].ok
          BY <4>2, Zenon
        <4> QED BY <4>3, <4>4, <4>5, Zenon
      <3> HIDE DEF f
      <3>6. events'[s].pid = NoPid /\ (\A t \in R!Slot : t # s => events'[t] = events[t])
        BY <3>1, <3>2, <3>3, ZenonT(30)
      <3>7. BusyIn(events) = BusyIn(events') \cup {s} /\ s \notin BusyIn(events')
        BY <3>2, <3>3, <3>6, Zenon DEF BusyIn
      <3>8. {events[t].job : t \in BusyIn(events)}
                = {events'[t].job : t \in BusyIn(events')} \cup {events[s].job}
        <4>1. \A t \in BusyIn(events') : t # s /\ events'[t].job = events[t].job
          BY <3>6, <3>7, Zenon DEF BusyIn
        <4> QED BY <3>7, <4>1, Zenon
      <3>9. OwnersOf(jobs, events, <<>>) = OwnersOf(jobs', events', <<>>) \cup {events[s].job}
        <4>1. {i \in 1 .. Len(<<>>) : <<>>[i].k = "upd"} = {}
          OBVIOUS
        <4> QED BY <3>1, <3>8, <4>1, Zenon DEF OwnersOf, BusyIn
      <3>10. Owner' = OwnersOf(jobs', events', <<>>) \cup {events[s].job}
        <4>1. calls'[1].k = "upd" /\ calls'[1].job = events[s].job
          BY <3>4, <3>5, ZenonT(30)
        <4>2. OwnersOf(jobs', events', calls') = OwnersOf(jobs', events', <<>>) \cup {calls'[1].job}
          BY <3>4, <4>1, OwnersAre, ZenonT(30)
        <4> QED BY <4>1, <4>2, Zenon DEF Owner
      <3>11. Owner = OwnersOf(jobs, events, <<>>)
        <4>1. calls[1].k # "upd"
          BY <1>4, Zenon
        <4> QED BY <1>4, <4>1, OwnersAre, ZenonT(30) DEF Owner
      <3> QED BY <1>4, <3>1, <3>4, <3>5, <3>6, <3>9, <3>10, <3>11, ZenonT(30)
    <2> QED BY <1>1, <2>1, <2>2, <2>3, ZenonT(30)
  <1>8. Waits'
    <2>1. calls[1].ok = calls'[1].ok /\ (pc = "waitup" => calls[1].ok)
      BY <1>1, <1>7, ZenonT(30) DEF Alive, Waits
    <2> QED BY <1>1, <1>3, <1>4, <1>5, <1>7, <2>1, ZenonT(30) DEF Waits, Waitup
  <1>9. Covered'
    <2>1. runerrs' = 0 => \A m \in ReachOf(g, Root) : "BEINGMADE" \in made[m] =>
                              ~dry /\ \E j \in Owner : m \in job[j].t
      BY <1>4, <1>6, ZenonT(30) DEF Alive, Covered
    <2>2. Owner \subseteq 1 .. Len(job)
      BY ZenonT(30) DEF Alive, Covered
    <2> QED BY <1>1, <1>3, <1>6, <1>7, <2>1, <2>2, ZenonT(30) DEF Covered
  <1>10. Waited'
    BY <1>1, <1>4, Zenon DEF Waited
  <1>11. pc' = "waitup" /\ "NOTMADE" \in made'[Root] => Stuck(g, Root, made')
    BY <1>1, <1>3, ZenonT(30) DEF Alive, Rounds
  <1>12. pc' \in {"waitup", "drain", "loop", "empty"}
    BY <1>1, <1>4, Zenon
  <1>13. Alive'
    BY <1>1, <1>3, <1>4, <1>6, <1>8, <1>9, <1>10, <1>11, <1>12, WaitStep, ZenonT(30)
  <1> QED BY <1>1, <1>4, <1>7, <1>13, ZenonT(30)

\* waitup() has updated the targets of a job, and returns.
LEMMA UpdateStep ==
    ASSUME Alive, R!TypeOK, SetFacts, mkstate' = "alive", MkEndUpdate
    PROVE  /\ Alive' /\ Len(calls) = 1 /\ calls[1].k = "upd" /\ calls' = <<>> /\ R!SchedIfRoom(jobs)
           /\ Owner = OwnersOf(jobs, events, <<>>) \cup {calls[1].job}
           /\ Owner' \subseteq OwnersOf(jobs, events, <<>>)
           /\ ~dry => OwnersOf(jobs, events, <<>>) \subseteq Owner'
           /\ \A m \in Node : made'[m] = IF m \in job[calls[1].job].t THEN UpdatedFlags(fake)
                                        ELSE made[m]
  <1>1. /\ mkstate = "alive" /\ calls # <<>> /\ R!Top.k = "upd" /\ R!SchedIfRoom(jobs)
        /\ \/ R!Top.want \in Pid
           \/ R!Top.want = NoPid /\ R!Top.kill
           \/ R!Top.want = NoPid /\ ~R!Top.kill /\ calls' = R!Front(calls)
    BY Zenon DEF MkEndUpdate, R!EndUpdate, R!TopIs
  <1>2. /\ made' = MADESET(job[R!Top.job].t, UpdatedFlags(fake))
        /\ pc' = IF pc = "waitup" THEN "loop" ELSE pc
        /\ UNCHANGED <<g, opts, known, ti, stack, did, runerrs, fake, job>>
    BY ZenonT(30) DEF MkEndUpdate
  <1>3. dry' = dry /\ Root' = Root
    BY <1>2, Zenon DEF dry, nflag, tflag, Root
  <1>4. /\ Len(calls) = 1 /\ R!Top = calls[1] /\ R!Front(calls) = <<>>
        /\ calls[1].k = "upd" /\ calls[1].want = NoPid /\ ~calls[1].kill
        /\ pc \in {"waitup", "drain"} /\ pc # "start" /\ ReachOf(g, Root) \subseteq Node
        /\ made \in [Node -> Flags] /\ runerrs \in Nat
    BY <1>1, WaitingIs, Zenon
  <1>5. calls' = <<>>
    BY <1>1, <1>4, SchedulerAssumption, ZenonT(30)
  <1>6. IsSeq(jobs)
    BY Zenon DEF R!TypeOK, IsSeq
  <1>7. /\ OwnersOf(jobs', events', <<>>) \subseteq OwnersOf(jobs, events, <<>>)
        /\ ~dry => OwnersOf(jobs, events, <<>>) \subseteq OwnersOf(jobs', events', <<>>)
        /\ dry => procs' = procs
    BY <1>1, <1>6, Scheduled, Zenon
  <1>8. Owner = OwnersOf(jobs, events, <<>>) \cup {calls[1].job}
    BY <1>4, OwnersAre, Zenon DEF Owner
  <1>9. /\ Owner' \subseteq OwnersOf(jobs, events, <<>>)
        /\ ~dry => OwnersOf(jobs, events, <<>>) \subseteq Owner'
    <2>1. Owner' = OwnersOf(jobs', events', <<>>)
      BY <1>5, Zenon DEF Owner
    <2> QED BY <1>7, <2>1, Zenon
  <1>10. Waits'
    BY <1>3, <1>5, <1>7, Zenon DEF Alive, Waits
  <1>11. UpdatedFlags(fake) \in Flags
    BY Zenon DEF UpdatedFlags, Flags
  <1>12. /\ made' \in [Node -> Flags]
         /\ \A m \in Node : made'[m] = IF m \in job[calls[1].job].t THEN UpdatedFlags(fake) ELSE made[m]
    <2>1. made' = MADESET(job[calls[1].job].t, UpdatedFlags(fake))
      BY <1>2, <1>4, ZenonT(30)
    <2> DEFINE T == job[calls[1].job].t
               f == UpdatedFlags(fake)
    <2> HIDE DEF T, f
    <2>2. MADESET(T, f) \in [Node -> Flags] /\ \A m \in Node : MADESET(T, f)[m] = IF m \in T THEN f ELSE made[m]
      BY <1>4, <1>11, MadesetIs DEF f
    <2> QED BY <2>1, <2>2, Zenon DEF T, f
  <1>13. Covered'
    <2>1. Owner' \subseteq 1 .. Len(job')
      BY <1>2, <1>8, <1>9, Zenon DEF Alive, Covered
    <2>2. ASSUME runerrs = 0, NEW m \in ReachOf(g, Root), "BEINGMADE" \in made'[m]
          PROVE  ~dry /\ \E j \in Owner' : m \in job[j].t
      <3>1. ~fake
        BY <1>1, <1>4, <2>2, Zenon DEF Alive, Covered
      <3>2. "BEINGMADE" \notin UpdatedFlags(fake)
        BY <3>1, ZenonT(30) DEF UpdatedFlags, MADE
      <3>3. m \in Node
        BY <1>4, Zenon
      <3>4. m \notin job[calls[1].job].t /\ "BEINGMADE" \in made[m]
        BY <1>12, <2>2, <3>2, <3>3, Zenon
      <3>5. ~dry /\ \E j \in Owner : m \in job[j].t
        BY <1>4, <2>2, <3>4, ZenonT(30) DEF Alive, Covered
      <3> QED BY <1>8, <1>9, <3>4, <3>5, Zenon
    <2> QED BY <1>2, <1>3, <1>5, <2>1, <2>2, ZenonT(30) DEF Covered
  <1>14. pc' \in {"drain", "loop"}
    BY <1>2, <1>4, Zenon
  <1>15. Waited'
    BY <1>14, ZenonT(30) DEF Waited
  <1>16. Alive'
    BY <1>1, <1>2, <1>4, <1>10, <1>12, <1>13, <1>14, <1>15, WaitStep, ZenonT(30)
  <1> QED BY <1>1, <1>4, <1>5, <1>8, <1>9, <1>12, <1>16, ZenonT(30)

\* A recipe ends.
LEMMA EndsStep ==
    ASSUME Alive, R!TypeOK, NEW p \in Pid, NEW st \in R!Status, RecipeEnds(p, st)
    PROVE  Alive'
  <1>1. procs[p] = "running" /\ UNCHANGED <<jobs, events, calls>> /\ UNCHANGED <<nodeVars, mkVars>>
    BY Zenon DEF RecipeEnds, R!ChildExits, R!queueVars, R!slotVars
  <1>2. /\ UNCHANGED <<g, opts, known, time, made, pc, ti, stack, did, runerrs, fake, job>>
        /\ Root' = Root /\ dry' = dry /\ aflag' = aflag /\ Owner' = Owner
    BY <1>1, Zenon DEF nodeVars, mkVars, Root, dry, nflag, tflag, aflag, Owner
  <1>3. ~dry
    BY <1>1, ZenonT(30) DEF Alive, Waits
  <1>4. Types' /\ Waits'
    BY <1>1, <1>2, <1>3, ZenonT(30) DEF Alive, Types, Waits
  <1>5. PathOK(g, Root, stack)' /\ Settled(g, made, stack)' /\ Reasons(g, aflag, time, stack)'
    BY <1>2, <1>3, ZenonT(30) DEF Alive
  <1>6. Rounds' /\ Waited'
    BY <1>2, ZenonT(30) DEF Alive, Rounds, Waited
  <1>7. Covered'
    BY <1>1, <1>2, ZenonT(30) DEF Alive, Covered
  <1> QED BY <1>4, <1>5, <1>6, <1>7, Zenon DEF Alive

RuleOf(n) == Arcs(n)[master(n)].r

\* work() makes a node with a recipe: it is one of the targets of the job, unless the
\* recipes are only announced.
LEMMA MasterIs ==
    ASSUME Alive, SetFacts, MustMake, master(top.node) # 0
    PROVE  /\ top.node \in Range(g.all[RuleOf(top.node)]) /\ top.node \in known
           /\ RuleOf(top.node) \in DOMAIN g.all
           /\ ~dry => top.node \in oldtargets(RuleOf(top.node))
  <1> DEFINE n == top.node
             k == master(n)
  <1>1. /\ Working /\ top.ready /\ top.weoutofdate
    BY Zenon DEF MustMake, AfterLoop
  <1>2. /\ g \in Graphs /\ Root \in Node /\ stack \in Seq(WorkFrame) /\ stack # <<>>
        /\ top = stack[Len(stack)] /\ top \in WorkFrame /\ n \in Node
        /\ n \in ReachOf(g, Root) /\ pc = "work"
    BY <1>1, RunningIs, ZenonT(30)
  <1>3. n \in known
    BY <1>2, Zenon DEF Alive, Types
  <1>4. k \in 1 .. Len(g.arcs[n])
    <2> DEFINE S == {0} \cup {i \in 1 .. Len(Arcs(n)) : Arcs(n)[i].r \in g.recipe}
    <2>1. Len(g.arcs[n]) \in Nat
      BY <1>2, ArcsAre, ZenonT(30)
    <2>2. S \in SUBSET (0 .. Len(g.arcs[n])) /\ S # {}
      BY <2>1, SMTT(30) DEF Arcs
    <2>3. \A i \in S : i # 0 => i \in 1 .. Len(g.arcs[n])
      BY <2>1, ZenonT(30) DEF Arcs
    <2> HIDE DEF S
    <2>4. Max(S) \in S
      BY <2>1, <2>2, Zenon DEF SetFacts, Max
    <2> QED BY <2>3, <2>4, Zenon DEF master, S
  <1>5. n \in Range(g.all[g.arcs[n][k].r])
    <2> HIDE DEF k
    <2> QED BY <1>2, <1>4, ArcsAre, ZenonT(30)
  <1>6. ASSUME ~dry PROVE aflag \/ time[n] = 0 \/ OutOfDate(time, n)
    <2>1. Old(g, aflag, time, top)
      <3>1. Len(stack) \in 1 .. Len(stack)
        BY <1>2, PopIs
      <3> QED BY <1>1, <1>2, <1>6, <3>1, ZenonT(30) DEF Alive, Reasons
    <2>2. Visited(g, top) \subseteq Prereqs(n)
      BY <1>2, VisitedAre, GraphIs, ZenonT(30)
    <2> QED BY <2>1, <2>2, Zenon DEF Old, OutOfDate
  <1>7. g.arcs[n][k].r \in DOMAIN g.all
    <2> HIDE DEF k
    <2> DEFINE A == [n : Node \cup {nil}, r : DOMAIN g.all]
    <2>1. g.arcs[n] \in Seq(A)
      BY <1>2, GraphsAssumption, ZenonT(30) DEF IsGraph
    <2>2. \A a \in A : a.r \in DOMAIN g.all
      OBVIOUS
    <2> HIDE DEF A
    <2>3. g.arcs[n][k] \in A
      BY <1>4, <2>1
    <2> QED BY <2>2, <2>3, Zenon
  <1> QED BY <1>3, <1>5, <1>6, <1>7, ZenonT(30) DEF oldtargets, Arcs, RuleOf

\* work() creates a job.
LEMMA RecipeStep ==
    ASSUME Alive, JobSeq, R!TypeOK, SetFacts, mkstate' = "alive", DoRecipe
    PROVE  /\ Alive' /\ Working /\ stack' = Pop(stack) /\ did' = TRUE
           /\ MustMake /\ master(top.node) # 0
           /\ R!SchedIfRoom(Append(jobs, Len(job) + 1)) /\ IsSeq(Append(jobs, Len(job) + 1))
           /\ top.ready /\ top.at = "arc" /\ top.i > Len(g.arcs[top.node])
           /\ made' = MADESET({top.node} \cup oldtargets(RuleOf(top.node)), IF dry THEN MADE ELSE BEINGMADE)
           /\ ~dry => top.node \in oldtargets(RuleOf(top.node))
           /\ job'[Len(job) + 1].t = oldtargets(RuleOf(top.node)) /\ Len(job) \in Nat
           /\ \A i \in 1 .. Len(job) : job'[i] = job[i]
           /\ Owner' \subseteq Owner \cup {Len(job) + 1}
           /\ ~dry => Owner' = Owner \cup {Len(job) + 1}
           /\ UNCHANGED <<g, opts, pc, ti, calls>>
  <1> DEFINE n == top.node
             r == RuleOf(n)
             old == oldtargets(r)
             L == {n} \cup old
             j == Len(job) + 1
             q == Append(jobs, j)
  <1>1. /\ MustMake /\ master(n) # 0 /\ stack' = Pop(stack) /\ did' = TRUE
        /\ job' = Append(job, [r |-> r, n |-> n, t |-> old])
        /\ UNCHANGED <<g, opts, known, pc, ti, runerrs, fake>>
    BY Zenon DEF DoRecipe, Return, Pop, RuleOf
  <1>2. R!SchedIfRoom(q) /\ calls' = calls /\ mkstate = "alive"
    BY Zenon DEF DoRecipe, R!Run
  <1>3. IF dry THEN made' = MADESET(L, MADE) ELSE made' = MADESET(L, BEINGMADE) /\ time' = time
    BY Zenon DEF DoRecipe, RuleOf
  <1>4. n \in known /\ (~dry => n \in old)
    BY <1>1, MasterIs, ZenonT(30)
  <1> HIDE DEF r, old, q
  <1>5. Working
    BY <1>1, Zenon DEF MustMake, AfterLoop
  <1>6. /\ g \in Graphs /\ Root \in Node /\ stack \in Seq(WorkFrame) /\ stack # <<>>
        /\ top = stack[Len(stack)] /\ pc = "work" /\ calls = <<>>
    BY <1>5, RunningIs, ZenonT(30)
  <1>7. Root' = Root /\ dry' = dry /\ aflag' = aflag
    BY <1>1, ZenonT(30) DEF Root, dry, nflag, tflag, aflag
  <1>8. ReachOf(g, Root) \subseteq Node /\ made \in [Node -> Flags]
    BY <1>6, ReachIs, ZenonT(30) DEF Alive, Types
  <1>9. /\ made' \in [Node -> Flags]
        /\ \A m \in Node : m \notin L => made'[m] = made[m]
        /\ \A m \in L : m \in Node => "NOTMADE" \notin made'[m] /\ (dry => "BEINGMADE" \notin made'[m])
    <2>1. MADE \in Flags /\ BEINGMADE \in Flags /\ "NOTMADE" \notin MADE /\ "NOTMADE" \notin BEINGMADE
          /\ "BEINGMADE" \notin MADE
      BY Zenon DEF Flags, MADE, BEINGMADE
    <2> HIDE DEF L
    <2>2. CASE dry
      <3>1. /\ made' \in [Node -> Flags]
            /\ \A m \in Node : made'[m] = IF m \in L THEN MADE ELSE made[m]
        BY <1>3, <1>8, <2>1, <2>2, MadesetIs, SMTT(30)
      <3> QED BY <2>1, <3>1, ZenonT(30)
    <2>3. CASE ~dry
      <3>1. /\ made' \in [Node -> Flags]
            /\ \A m \in Node : made'[m] = IF m \in L THEN BEINGMADE ELSE made[m]
        BY <1>3, <1>8, <2>1, <2>3, MadesetIs, SMTT(30)
      <3> QED BY <2>1, <2>3, <3>1, ZenonT(30)
    <2> QED BY <2>2, <2>3, Zenon
  <1>10. /\ Len(job) \in Nat /\ Len(job') = j /\ job'[j].t = old
         /\ \A i \in 1 .. Len(job) : job'[i] = job[i]
    <2>1. Len(job) \in Nat
      BY SeqIs, Zenon DEF JobSeq
    <2> DEFINE e == [r |-> r, n |-> n, t |-> old]
    <2>2. e.t = old
      BY ZenonT(30) 
    <2> HIDE DEF e
    <2>3. Len(job') = j /\ job'[j] = e /\ \A i \in 1 .. Len(job) : job'[i] = job[i]
      BY <1>1, AppendIs, ZenonT(30) DEF JobSeq, e
    <2> QED BY <2>1, <2>2, <2>3, Zenon
  <1>11. OwnersOf(q, events, <<>>) = Owner \cup {j} /\ IsSeq(q)
    <2>1. IsSeq(jobs)
      BY ZenonT(30) DEF R!TypeOK, IsSeq
    <2>2. /\ IsSeq(q) /\ Len(q) = Len(jobs) + 1 /\ q[Len(jobs) + 1] = j
          /\ \A i \in 1 .. Len(jobs) : q[i] = jobs[i]
      BY <2>1, AppendIs, ZenonT(30) DEF q
    <2>3. /\ DOMAIN q = 1 .. Len(q) /\ DOMAIN jobs = 1 .. Len(jobs) /\ Len(jobs) \in Nat
      BY <2>1, <2>2, SeqIs, Zenon
    <2>4. DOMAIN q = DOMAIN jobs \cup {Len(jobs) + 1}
      BY <2>2, <2>3
    <2> HIDE DEF j
    <2>5. Range(q) = Range(jobs) \cup {j}
      <3>1. ASSUME NEW i \in DOMAIN q PROVE q[i] \in Range(jobs) \cup {j}
        BY <2>2, <2>3, <2>4, Zenon DEF Range
      <3>2. ASSUME NEW i \in DOMAIN jobs PROVE jobs[i] \in Range(q)
        BY <2>2, <2>3, <2>4, Zenon DEF Range
      <3>3. j \in Range(q)
        BY <2>2, <2>4, Zenon DEF Range
      <3> QED BY <3>1, <3>2, <3>3, ZenonT(30) DEF Range
    <2> QED BY <1>6, <2>2, <2>5, ZenonT(30) DEF Owner, OwnersOf
  <1>12. /\ Owner' \subseteq Owner \cup {j} /\ (~dry => Owner \cup {j} \subseteq Owner')
         /\ dry => procs' = procs
    <2>1. Owner' = OwnersOf(jobs', events', <<>>)
      BY <1>2, <1>6, Zenon DEF Owner
    <2>2. /\ OwnersOf(jobs', events', <<>>) \subseteq OwnersOf(q, events, <<>>)
          /\ ~dry => OwnersOf(q, events, <<>>) \subseteq OwnersOf(jobs', events', <<>>)
          /\ dry => procs' = procs
      BY <1>2, <1>11, Scheduled, ZenonT(30)
    <2> QED BY <1>11, <2>1, <2>2, ZenonT(30)
  <1>13. Types'
    <2>1. stack' \in Seq(WorkFrame)
      BY <1>1, <1>6, PopIs, ZenonT(30)
    <2> QED BY <1>1, <1>6, <1>7, <1>9, <2>1, ZenonT(30) DEF Alive, Types
  <1>14. Waits'
    BY <1>2, <1>6, <1>7, <1>12, ZenonT(30) DEF Alive, Waits
  <1>15. PathOK(g, Root, stack)'
    BY <1>1, <1>6, <1>7, PathPop, ZenonT(30) DEF Alive
  <1>16. Settled(g, made, stack)'
    <2>1. \A p \in Node : "NOTMADE" \in made'[p] => "NOTMADE" \in made[p]
      BY <1>9, Zenon
    <2> QED BY <1>1, <1>6, <2>1, SettledPop, ZenonT(30) DEF Alive
  <1>17. ~dry' => Reasons(g, aflag, time, stack)'
    BY <1>1, <1>3, <1>6, <1>7, ReasonsPop, ZenonT(30) DEF Alive
  <1>18. Rounds' /\ Waited'
    BY <1>1, <1>6, ZenonT(30) DEF Rounds, Waited
  <1>19. Covered'
    <2>1. Owner \subseteq 1 .. Len(job) /\ Owner' \subseteq 1 .. Len(job')
      <3>1. Owner \subseteq 1 .. Len(job)
        BY ZenonT(30) DEF Alive, Covered
      <3>2. 1 .. Len(job) \subseteq 1 .. Len(job') /\ j \in 1 .. Len(job')
        BY <1>10, SMTT(30)
      <3> QED BY <1>12, <3>1, <3>2, ZenonT(30)
    <2>2. ASSUME runerrs = 0, NEW m \in ReachOf(g, Root), "BEINGMADE" \in made'[m]
          PROVE  ~dry /\ \E i \in Owner' : m \in job'[i].t
      <3>1. m \in Node
        BY <1>8, Zenon
      <3>2. CASE m \in L
        <4>1. ~dry
          BY <1>9, <2>2, <3>1, <3>2, ZenonT(30)
        <4>2. m \in job'[j].t /\ j \in Owner'
          BY <1>4, <1>10, <1>12, <3>2, <4>1, ZenonT(30)
        <4> QED BY <4>1, <4>2, ZenonT(30)
      <3>3. CASE m \notin L
        <4>1. "BEINGMADE" \in made[m]
          BY <1>9, <2>2, <3>1, <3>3, ZenonT(30)
        <4>2. pc # "start"
          BY <1>6, Zenon
        <4>3. PICK i \in Owner : ~dry /\ m \in job[i].t
          BY <2>2, <4>1, <4>2, Zenon DEF Alive, Covered
        <4>4. m \in job'[i].t
          BY <1>10, <2>1, <4>3, Zenon
        <4> QED BY <1>12, <4>3, <4>4, Zenon
      <3> QED BY <3>2, <3>3, Zenon
    <2> QED BY <1>1, <1>2, <1>6, <1>7, <2>1, <2>2, ZenonT(30) DEF Covered
  <1>20. Alive'
    BY <1>7, <1>13, <1>14, <1>15, <1>16, <1>17, <1>18, <1>19, ZenonT(30) DEF Alive
  <1>21. top.ready /\ top.at = "arc" /\ top.i > Len(g.arcs[n])
    BY <1>1, Zenon DEF MustMake, AfterLoop, Arcs
  <1>22. made' = MADESET(L, IF dry THEN MADE ELSE BEINGMADE)
    BY <1>3, Zenon
  <1>23. ~dry => Owner' = Owner \cup {j}
    BY <1>12, Zenon
  <1> HIDE DEF j
  <1> QED BY <1>1, <1>2, <1>4, <1>5, <1>10, <1>11, <1>12, <1>20, <1>21, <1>22, <1>23, ZenonT(30)
          DEF old, r, q, j

-----------------------------------------------------------------------------
(***************************************************************************)
(* The invariant.                                                          *)
(***************************************************************************)
\* mk starts.
LEMMA MkInvInit == Init => MkInv
  <1> SUFFICES ASSUME Init PROVE MkInv
    BY ZenonT(30) 
  <1>1. /\ g \in Graphs /\ known = {} /\ made = [n \in Node |-> {}] /\ pc = "start" /\ ti = 0
        /\ stack = <<>> /\ did = FALSE /\ runerrs = 0 /\ job = <<>>
    BY ZenonT(30) DEF Init
  <1>2. /\ jobs = <<>> /\ calls = <<>> /\ mkstate = "alive"
        /\ procs = [p \in Pid |-> "free"] /\ \A s \in R!Slot : events[s].pid = NoPid
    BY Zenon DEF Init, R!Init
  <1>3. Len(g.targets) \in Nat
    <2>1. g.targets \in Seq(Node)
      BY <1>1, GraphsAssumption, ZenonT(30) DEF IsGraph
    <2> QED BY <2>1
  <1>4. Types
    <2>1. stack \in Seq(WorkFrame) /\ known \subseteq Node /\ ti \in 0 .. Len(g.targets)
      BY <1>1, <1>3
    <2>2. made \in [Node -> Flags]
      BY <1>1, Zenon DEF Flags
    <2> QED BY <1>1, <2>1, <2>2, ZenonT(30) DEF Types
  <1>5. Waits
    BY <1>1, <1>2, Zenon DEF Waits
  <1>6. Owner = {}
    <2>1. Range(jobs) = {} /\ {i \in 1 .. Len(calls) : calls[i].k = "upd"} = {}
      BY <1>2 DEF Range
    <2>2. {t \in R!Slot : events[t].pid \in Pid} = {}
      BY <1>2, SchedulerAssumption, ZenonT(30)
    <2> QED BY <2>1, <2>2, ZenonT(30) DEF Owner, OwnersOf
  <1>7. Covered /\ Rounds /\ Waited
    BY <1>1, <1>2, <1>6, ZenonT(30) DEF Covered, Rounds, Waited
  <1>8. PathOK(g, Root, stack) /\ Settled(g, made, stack) /\ Reasons(g, aflag, time, stack)
    BY <1>1, NoWork, Zenon
  <1>9. JobSeq /\ NeverStuck
    BY <1>1, <1>2, <<>> \in Seq({}), Zenon DEF JobSeq, IsSeq, NeverStuck
  <1> QED BY <1>4, <1>5, <1>7, <1>8, <1>9, ZenonT(30) DEF MkInv, Alive

\* mk stays alive.
LEMMA AliveStep ==
    ASSUME Alive, JobSeq, SchedOK, SetFacts, mkstate = "alive", mkstate' = "alive", Next
    PROVE  Alive'
  <1>1. R!TypeOK
    BY Zenon DEF SchedOK
  <1>2. CASE WorkSeen \/ WorkLeaf \/ WorkNotReady \/ WorkUpToDate \/ DoNoRecipe
    BY <1>2, ReturnSteps, Zenon
  <1>3. CASE WorkArc \/ WorkBack
    BY <1>3, LoopSteps, Zenon
  <1>4. CASE DoRecipe
    BY <1>1, <1>4, RecipeStep, Zenon
  <1>5. CASE MkStart
    BY <1>5, Starts, Zenon
  <1>6. CASE MkLoop \/ MkWorked \/ MkEmpty \/ MkAfter \/ MkDrain \/ MkReturn
    BY <1>6, LoopCalls, BetweenSteps, Zenon
  <1>7. ASSUME NEW p \in Pid, MkReap(p) PROVE Alive'
    BY <1>1, <1>7, ReapStep, Zenon
  <1>8. CASE MkEndUpdate
    BY <1>1, <1>8, UpdateStep, ZenonT(30)
  <1>9. CASE MkNoChild
    BY <1>9, NoChildStep, ZenonT(30)
  <1>10. ASSUME TouchFails \/ MkExits \/ MkExit PROVE FALSE
    BY <1>10, Zenon DEF TouchFails, MkExits, MkExit, R!Quit, R!ExitReap, R!ExitDone
  <1>11. ASSUME NEW p \in Pid, NEW st \in R!Status, RecipeEnds(p, st) PROVE Alive'
    BY <1>1, <1>11, EndsStep, Zenon
  <1> QED BY <1>2, <1>3, <1>4, <1>5, <1>6, <1>7, <1>8, <1>9, <1>10, <1>11, ZenonT(30)
          DEF Next, MkStep, Work

\* Where an assertion of mk() can fail.
LEMMA AbortStep ==
    ASSUME Next, mkstate' = "abort"
    PROVE  \/ mkstate = "abort" /\ pc' = pc
           \/ /\ pc = "drain" /\ pc' = "drain" /\ mkstate = "alive" /\ calls = <<>> /\ runerrs = 0
              /\ "MADE" \notin made[Root]
           \/ /\ pc = "empty" /\ mkstate = "alive" /\ runerrs = 0
              /\ made[Root] \cap {"NOTMADE", "BEINGMADE"} # {}
  <1>1. ASSUME WorkSeen \/ WorkArc \/ WorkBack \/ WorkNotReady \/ WorkUpToDate PROVE FALSE
    BY <1>1, Zenon DEF WorkSeen, WorkArc, WorkBack, WorkNotReady, WorkUpToDate, Working, AfterLoop, schedVars
  <1>2. ASSUME WorkLeaf \/ DoNoRecipe \/ TouchFails PROVE FALSE
    <2>1. mkstate = "alive" /\ (mkstate' = mkstate \/ mkstate' = "exiting")
      BY <1>2, Zenon DEF WorkLeaf, DoNoRecipe, TouchFails, Working, MustMake, AfterLoop, schedVars, R!Quit
    <2> QED BY <2>1, Zenon
  <1>3. ASSUME NEW q, R!SchedIfRoom(q), mkstate = "alive" PROVE FALSE
    <2>1. mkstate' = mkstate \/ mkstate' = "noslot"
      BY <1>3, Zenon DEF R!SchedIfRoom, R!Sched
    <2> QED BY <1>3, <2>1, Zenon
  <1>4. ASSUME DoRecipe \/ MkEndUpdate PROVE FALSE
    BY <1>3, <1>4, Zenon DEF DoRecipe, MkEndUpdate, R!Run, R!EndUpdate
  <1>5. ASSUME MkStart \/ MkLoop \/ MkWorked \/ MkAfter \/ MkReturn \/ MkExits PROVE FALSE
    <2>1. mkstate = "alive" /\ (mkstate' = mkstate \/ mkstate' = "dead")
      BY <1>5, Zenon DEF MkStart, MkLoop, MkWorked, MkAfter, MkReturn, MkExits, InMk, schedVars,
                         R!CallWaitup, R!Quit
    <2> QED BY <2>1, Zenon
  <1>6. ASSUME NEW p \in Pid, MkReap(p) PROVE FALSE
    <2>1. mkstate = "alive" /\ (mkstate' = mkstate \/ mkstate' = "exiting")
      BY <1>6, ZenonT(30) DEF MkReap, R!Reap, R!ReapWanted, R!ReapJob, R!ReapRogue
    <2> QED BY <2>1, Zenon
  <1>7. ASSUME MkNoChild PROVE FALSE
    BY <1>7, Zenon DEF MkNoChild, R!NoChild
  <1>8. ASSUME MkExit PROVE FALSE
    BY <1>8, Zenon DEF MkExit, R!ExitReap, R!ExitDone
  <1>9. CASE MkEmpty
    <2>1. pc = "empty" /\ mkstate = "alive" /\ mkstate' # mkstate
      BY <1>9, Zenon DEF MkEmpty, InMk
    <2> QED BY <1>9, <2>1, ZenonT(30) DEF MkEmpty, schedVars
  <1>10. CASE MkDrain
    <2>1. pc = "drain" /\ mkstate = "alive" /\ calls = <<>> /\ mkstate' # mkstate
      BY <1>10, Zenon DEF MkDrain, InMk
    <2> QED BY <1>10, <2>1, ZenonT(30) DEF MkDrain, schedVars, R!CallWaitup
  <1>11. ASSUME NEW p \in Pid, NEW st \in R!Status, RecipeEnds(p, st) PROVE mkstate = "abort" /\ pc' = pc
    BY <1>11, Zenon DEF RecipeEnds, R!ChildExits, mkVars
  <1> QED BY <1>1, <1>2, <1>4, <1>5, <1>6, <1>7, <1>8, <1>9, <1>10, <1>11, ZenonT(30)
          DEF Next, MkStep, Work

\* mk is not alive again once it is not.
LEMMA NotAlive == Next /\ mkstate' = "alive" => mkstate = "alive"
  <1> SUFFICES ASSUME Next, mkstate' = "alive" PROVE mkstate = "alive"
    OBVIOUS
  <1>1. CASE Work
    BY <1>1, Zenon DEF Work, WorkSeen, WorkLeaf, WorkArc, WorkBack, WorkNotReady, WorkUpToDate,
                       DoNoRecipe, DoRecipe, TouchFails, Working, MustMake, AfterLoop
  <1>2. CASE MkStart \/ MkLoop \/ MkWorked \/ MkEmpty \/ MkAfter \/ MkDrain \/ MkReturn \/ MkExits
    BY <1>2, Zenon DEF MkStart, MkLoop, MkWorked, MkEmpty, MkAfter, MkDrain, MkReturn, MkExits,
                       InMk, R!Quit
  <1>3. CASE (\E p \in Pid : MkReap(p)) \/ MkEndUpdate \/ MkNoChild
    BY <1>3, Zenon DEF MkReap, MkEndUpdate, MkNoChild, R!Reap, R!EndUpdate, R!NoChild
  <1>4. ASSUME MkExit PROVE FALSE
    BY <1>4, Zenon DEF MkExit, R!ExitReap, R!ExitDone
  <1>5. ASSUME NEW p \in Pid, NEW st \in R!Status, RecipeEnds(p, st) PROVE mkstate = "alive"
    BY <1>5, Zenon DEF RecipeEnds, R!ChildExits
  <1> QED BY <1>1, <1>2, <1>3, <1>4, <1>5, ZenonT(30) DEF Next, MkStep

\* Nothing changes.
LEMMA MkInvStutter == MkInv /\ UNCHANGED vars => MkInv'
  <1> SUFFICES ASSUME MkInv, UNCHANGED vars PROVE MkInv'
    OBVIOUS
  <1>1. UNCHANGED <<jobs, events, procs, calls, mkstate, g, opts, known, time, made, pc, ti, stack,
                    did, runerrs, fake, job>>
    BY Zenon DEF vars, schedVars, nodeVars, mkVars
  <1>2. Root' = Root /\ dry' = dry /\ aflag' = aflag /\ Owner' = Owner
    BY <1>1, Zenon DEF Root, dry, nflag, tflag, aflag, Owner
  <1>3. JobSeq' = JobSeq /\ NeverStuck' = NeverStuck
    BY <1>1, Zenon DEF JobSeq, NeverStuck
  <1>4. Types => Types'
    BY <1>1, <1>2, Zenon DEF Types
  <1>5. (Waits => Waits') /\ (Rounds => Rounds') /\ (Waited => Waited')
    BY <1>1, <1>2, Zenon DEF Waits, Rounds, Waited
  <1>6. Covered => Covered'
    BY <1>1, <1>2, Zenon DEF Covered
  <1>7. /\ PathOK(g, Root, stack)' = PathOK(g, Root, stack)
        /\ Settled(g, made, stack)' = Settled(g, made, stack)
        /\ Reasons(g, aflag, time, stack)' = Reasons(g, aflag, time, stack)
    BY <1>1, <1>2, Zenon
  <1> QED BY <1>1, <1>2, <1>3, <1>4, <1>5, <1>6, <1>7, ZenonT(30) DEF MkInv, Alive

\* Every step keeps the invariant, if the scheduler does what it promises.
LEMMA MkInvStep == MkInv /\ SchedOK /\ SetFacts /\ Bounded' /\ [Next]_vars => MkInv'
  <1> SUFFICES ASSUME MkInv, SchedOK, SetFacts, Bounded', Next PROVE MkInv'
    BY MkInvStutter, Zenon
  <1>1. JobSeq /\ NeverStuck /\ (mkstate = "alive" => Alive)
    BY Zenon DEF MkInv
  <1>2. JobSeq'
    BY <1>1, SchedStep, Zenon
  <1>3. mkstate' = "alive" => Alive'
    BY <1>1, NotAlive, AliveStep, ZenonT(30)
  <1>4. NeverStuck'
    <2> SUFFICES ASSUME mkstate' = "abort", pc' = "empty" PROVE FALSE
      BY Zenon DEF NeverStuck
    <2>1. CASE mkstate = "abort" /\ pc' = pc
      BY <1>1, <2>1, Zenon DEF NeverStuck
    <2>2. CASE /\ pc = "empty" /\ mkstate = "alive" /\ runerrs = 0
               /\ made[Root] \cap {"NOTMADE", "BEINGMADE"} # {}
      BY <1>1, <2>2, Zenon DEF Alive, Waited
    <2>3. pc' # "drain"
      OBVIOUS
    <2> QED BY <2>1, <2>2, <2>3, AbortStep, ZenonT(30)
  <1> QED BY <1>2, <1>3, <1>4, Zenon DEF MkInv

=============================================================================
