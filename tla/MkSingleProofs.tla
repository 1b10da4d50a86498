--------------------------- MODULE MkSingleProofs ---------------------------
(***************************************************************************)
(* Proofs about the evaluation of a dependency graph whose rules have one  *)
(* target each: every step of mk(), work(), dorecipe() and waitup() keeps  *)
(* an invariant of the flags of the nodes, the activations of work() and   *)
(* the jobs.                                                               *)
(***************************************************************************)
EXTENDS MkWorkProofs

\* Time for a leaf: in a module of this size tlapm itself is busy for seconds at a time.
USE SMTT(20), ZenonT(20)

-----------------------------------------------------------------------------
(***************************************************************************)
(* What is below a node n of the graph x, with the flags md.               *)
(***************************************************************************)
\* Some node below n is being made, or could not be.
DeadOf(x, md, n) == \E b \in ReachOf(x, n) : "BEINGMADE" \in md[b]
\* Each node below n is made, or has such a node below it.
DoneOf(x, md, n) == \A m \in ReachOf(x, n) : md[m] = MADE \/ DeadOf(x, md, m)

\* What is below a node is below its prerequisites.
LEMMA ReachDown ==
    ASSUME NEW x \in Graphs, NEW n \in Node
    PROVE  /\ \A m \in ReachOf(x, n) : ReachOf(x, m) \subseteq ReachOf(x, n)
           /\ PrereqsOf(x, n) \subseteq Node
           /\ \A m \in ReachOf(x, n) : m = n \/ \E p \in PrereqsOf(x, n) : m \in ReachOf(x, p)
  <1>1. \A m \in ReachOf(x, n) : ReachOf(x, m) \subseteq ReachOf(x, n)
    BY Zenon DEF ReachOf
  <1>2. /\ n \in ReachOf(x, n) /\ ReachOf(x, n) \subseteq Node
        /\ PrereqsOf(x, n) \subseteq ReachOf(x, n)
    BY ReachIs, Zenon
  <1>3. PrereqsOf(x, n) \subseteq Node
    BY <1>2, Zenon
  <1> DEFINE S == {m \in Node : m = n \/ \E p \in PrereqsOf(x, n) : m \in ReachOf(x, p)}
  <1>4. n \in S /\ S \in SUBSET Node
    BY Zenon
  <1>5. ASSUME NEW y \in S PROVE PrereqsOf(x, y) \subseteq S
    <2>1. CASE y = n
      <3>1. \A p \in PrereqsOf(x, n) : p \in Node /\ p \in ReachOf(x, p)
        BY <1>3, ReachIs, Zenon
      <3> QED BY <2>1, <3>1, Zenon
    <2>2. CASE \E p \in PrereqsOf(x, n) : y \in ReachOf(x, p)
      <3>1. PICK p \in PrereqsOf(x, n) : y \in ReachOf(x, p)
        BY <2>2, Zenon
      <3>2. p \in Node
        BY <1>3, Zenon
      <3>3. PrereqsOf(x, y) \subseteq ReachOf(x, p) /\ ReachOf(x, p) \subseteq Node
        BY <3>1, <3>2, ReachIs, Zenon
      <3> QED BY <3>3, Zenon
    <2> QED BY <2>1, <2>2, Zenon
  <1>6. \A m \in ReachOf(x, n) : m \in S
    <2> HIDE DEF S
    <2> QED BY <1>4, <1>5, Zenon DEF ReachOf
  <1> QED BY <1>1, <1>3, <1>6, Zenon

\* A node is made, or being made, only when everything below it is made.
LEMMA Supports ==
    ASSUME NEW x \in Graphs, NEW n \in Node, NEW md,
           \A m \in ReachOf(x, n) : "NOTMADE" \notin md[m] =>
               \A p \in PrereqsOf(x, m) : md[p] = MADE,
           "NOTMADE" \notin md[n]
    PROVE  \A m \in ReachOf(x, n) : m = n \/ md[m] = MADE
  <1> DEFINE S == {m \in ReachOf(x, n) : m = n \/ md[m] = MADE}
  <1>1. "NOTMADE" \notin MADE
    BY Zenon DEF MADE
  <1>2. n \in S /\ S \in SUBSET Node
    BY ReachIs, Zenon
  <1>3. ASSUME NEW y \in S PROVE PrereqsOf(x, y) \subseteq S
    <2>1. "NOTMADE" \notin md[y]
      BY <1>1, Zenon
    <2>2. PrereqsOf(x, y) \subseteq ReachOf(x, n)
      BY ReachIs, Zenon
    <2> QED BY <2>1, <2>2, Zenon
  <1>4. \A m \in ReachOf(x, n) : m \in S
    <2> HIDE DEF S
    <2> QED BY <1>2, <1>3, Zenon DEF ReachOf
  <1> QED BY <1>4, Zenon

\* While recipes run, nodes are made that were not.
Grows(md, md2) == \A m \in Node : /\ md[m] = MADE => md2[m] = MADE
                                  /\ "BEINGMADE" \in md[m] => "BEINGMADE" \in md2[m]

\* What was looked at stays so.
LEMMA DoneStays ==
    ASSUME NEW x \in Graphs, NEW md, NEW md2, Grows(md, md2), NEW n \in Node
    PROVE  /\ DeadOf(x, md, n) => DeadOf(x, md2, n)
           /\ DoneOf(x, md, n) => DoneOf(x, md2, n)
  <1>1. \A m \in Node : ReachOf(x, m) \subseteq Node
    BY ReachIs, Zenon
  <1>2. \A m \in Node : DeadOf(x, md, m) => DeadOf(x, md2, m)
    BY <1>1, Zenon DEF DeadOf, Grows
  <1> QED BY <1>1, <1>2, Zenon DEF DoneOf, Grows

\* All prerequisites of n were looked at.
LEMMA DoneUp ==
    ASSUME NEW x \in Graphs, NEW md, NEW n \in Node,
           md[n] = MADE \/ DeadOf(x, md, n), \A p \in PrereqsOf(x, n) : DoneOf(x, md, p)
    PROVE  DoneOf(x, md, n)
  BY ReachDown, Zenon DEF DoneOf

\* A node that is made or being made needs no look.
LEMMA DoneSeen ==
    ASSUME NEW x \in Graphs, NEW n \in Node, NEW md,
           \A m \in ReachOf(x, n) : "NOTMADE" \notin md[m] =>
               \A p \in PrereqsOf(x, m) : md[p] = MADE,
           md[n] = MADE \/ md[n] = BEINGMADE
    PROVE  DoneOf(x, md, n)
  <1>1. "NOTMADE" \notin md[n]
    BY DEF MADE, BEINGMADE
  <1>2. \A m \in ReachOf(x, n) : m = n \/ md[m] = MADE
    BY <1>1, Supports, Zenon
  <1>3. md[n] = BEINGMADE => DeadOf(x, md, n)
    <2>1. "BEINGMADE" \in BEINGMADE
      BY Zenon DEF BEINGMADE
    <2> QED BY <2>1, ReachIs, Zenon DEF DeadOf
  <1> QED BY <1>2, <1>3, Zenon DEF DoneOf

-----------------------------------------------------------------------------
(***************************************************************************)
(* The stack s of the activations of work() again.                         *)
(***************************************************************************)
\* A node that was entered is not made before its activation returns, and those it is
\* done with are made as long as it can be.
Entered(x, md, s) ==
    \A k \in 1 .. Len(s) : /\ s[k].at # "enter" => md[s[k].node] = NOTMADE
                           /\ s[k].ready => \A p \in Visited(x, s[k]) : md[p] = MADE

\* In a round that has started nothing, work() leaves no node that it could make.
Looked(x, rt, md, s) ==
    /\ \A k \in 1 .. Len(s) : /\ \A c \in Visited(x, s[k]) : DoneOf(x, md, c)
                              /\ ~s[k].ready => DeadOf(x, md, s[k].node)
    /\ s # <<>> /\ s[Len(s)].at = "back" => DoneOf(x, md, Child(x, s[Len(s)]))
    /\ s = <<>> => DoneOf(x, md, rt)

\* The top of the stack returns.
LEMMA EnteredPop ==
    ASSUME NEW x \in Graphs, NEW rt \in Node, NEW s \in Seq(WorkFrame), s # <<>>, PathOK(x, rt, s),
           NEW md, NEW md2, Entered(x, md, s),
           \A p \in Node : p # s[Len(s)].node => md2[p] = md[p],
           \A p \in Node : md[p] = MADE => md2[p] = MADE
    PROVE  Entered(x, md2, Pop(s))
  <1> DEFINE t == Pop(s)
  <1>1. /\ Len(s) \in Nat \ {0} /\ Len(t) = Len(s) - 1
        /\ \A k \in 1 .. Len(t) : t[k] = s[k] /\ k \in 1 .. Len(s) /\ t[k] \in WorkFrame
    BY PopIs
  <1> HIDE DEF t
  <1>2. \A k \in 1 .. Len(t) : k < Len(s) /\ Len(s) \in 1 .. Len(s)
    BY <1>1
  <1>3. ASSUME NEW k \in 1 .. Len(t) PROVE t[k].node \in Node /\ t[k].node # s[Len(s)].node
    <2>1. s[Len(s)].node < s[k].node /\ t[k] \in WorkFrame /\ s[Len(s)] \in WorkFrame
      BY <1>1, <1>2, PopIs, Zenon DEF PathOK
    <2>2. t[k].node \in Node /\ s[Len(s)].node \in Node
      BY <2>1, Zenon DEF WorkFrame
    <2>3. t[k].node = s[k].node
      BY <1>1, Zenon
    <2> QED BY <2>1, <2>2, <2>3, NAssumption DEF Node
  <1>4. \A k \in 1 .. Len(t) : Visited(x, t[k]) \subseteq Node
    BY <1>1, VisitedAre, Zenon
  <1> QED BY <1>1, <1>3, <1>4, ZenonT(30) DEF Entered, t

\* It returns to the activation that called it, or to mk().
LEMMA LookedPop ==
    ASSUME NEW x \in Graphs, NEW rt \in Node, NEW s \in Seq(WorkFrame), s # <<>>, PathOK(x, rt, s),
           NEW md, NEW md2, Grows(md, md2), Looked(x, rt, md, s),
           DoneOf(x, md2, s[Len(s)].node)
    PROVE  Looked(x, rt, md2, Pop(s))
  <1> DEFINE t == Pop(s)
  <1>1. /\ Len(s) \in Nat \ {0} /\ Len(t) = Len(s) - 1
        /\ \A k \in 1 .. Len(t) : t[k] = s[k] /\ k \in 1 .. Len(s) /\ t[k] \in WorkFrame
    BY PopIs
  <1>2. t = <<>> => Len(s) = 1
    BY <1>1, PopIs
  <1>3. t # <<>> => Len(t) \in 1 .. Len(t) /\ Len(t) \in 1 .. Len(s) - 1 /\ Len(t) + 1 = Len(s)
    BY <1>1, PopIs
  <1> HIDE DEF t
  <1>4. \A k \in 1 .. Len(t) : t[k].node \in Node /\ Visited(x, t[k]) \subseteq Node
    <2>1. \A k \in 1 .. Len(t) : t[k].node \in Node
      BY <1>1, Zenon DEF WorkFrame
    <2> QED BY <1>1, <2>1, VisitedAre, Zenon
  <1>5. ASSUME NEW k \in 1 .. Len(t)
        PROVE  /\ \A c \in Visited(x, t[k]) : DoneOf(x, md2, c)
               /\ ~t[k].ready => DeadOf(x, md2, t[k].node)
    <2>1. /\ \A c \in Visited(x, t[k]) : DoneOf(x, md, c)
          /\ ~t[k].ready => DeadOf(x, md, t[k].node)
      BY <1>1, Zenon DEF Looked
    <2> QED BY <1>4, <2>1, DoneStays, Zenon
  <1>6. t # <<>> => DoneOf(x, md2, Child(x, t[Len(t)]))
    <2> SUFFICES ASSUME t # <<>> PROVE DoneOf(x, md2, Child(x, t[Len(t)]))
      OBVIOUS
    <2>1. s[Len(t) + 1].node = Child(x, s[Len(t)]) /\ t[Len(t)] = s[Len(t)]
      BY <1>1, <1>3, Zenon DEF PathOK
    <2> QED BY <1>3, <2>1, Zenon
  <1>7. t = <<>> => DoneOf(x, md2, rt)
    <2>1. s[1].node = rt
      BY Zenon DEF PathOK
    <2> QED BY <1>2, <2>1, Zenon
  <1> QED BY <1>5, <1>6, <1>7, Zenon DEF Looked, t

\* The top goes on to the next arc.
LEMMA LookedPut ==
    ASSUME NEW x, NEW rt, NEW md, NEW s \in Seq(WorkFrame), s # <<>>, NEW f \in WorkFrame,
           f.node = s[Len(s)].node
    PROVE  /\ /\ Entered(x, md, s)
              /\ f.at # "enter" => md[f.node] = NOTMADE
              /\ f.ready => \A p \in Visited(x, f) : md[p] = MADE
              => Entered(x, md, Put(s, f))
           /\ /\ Looked(x, rt, md, s) /\ f.at # "back"
              /\ \A c \in Visited(x, f) : DoneOf(x, md, c)
              /\ ~f.ready => DeadOf(x, md, f.node)
              => Looked(x, rt, md, Put(s, f))
  <1> DEFINE t == Put(s, f)
  <1>1. /\ Len(s) \in Nat \ {0} /\ Len(t) = Len(s) /\ t[Len(s)] = f /\ t # <<>>
        /\ \A k \in 1 .. Len(s) : k # Len(s) => t[k] = s[k]
    BY PutIs, PopIs
  <1> HIDE DEF t
  <1>2. \A k \in 1 .. Len(t) : k \in 1 .. Len(s) /\ (k = Len(s) \/ t[k] = s[k])
    BY <1>1, Zenon
  <1>3. t[Len(t)] = f
    BY <1>1, Zenon
  <1> QED BY <1>1, <1>2, <1>3, ZenonT(30) DEF Entered, Looked, t

\* The top calls work().
LEMMA LookedPush ==
    ASSUME NEW x \in Graphs, NEW rt, NEW md, NEW s \in Seq(WorkFrame), s # <<>>, NEW f \in WorkFrame,
           f.node = s[Len(s)].node, f.ready = s[Len(s)].ready, Visited(x, f) = Visited(x, s[Len(s)]),
           md[f.node] = NOTMADE,
           NEW h \in WorkFrame, h.at = "enter", h.i = 1, h.ready
    PROVE  /\ Entered(x, md, s) => Entered(x, md, Append(Put(s, f), h))
           /\ Looked(x, rt, md, s) => Looked(x, rt, md, Append(Put(s, f), h))
  <1> DEFINE u == Put(s, f)
             t == Append(u, h)
  <1>1. /\ Len(s) \in Nat \ {0} /\ Len(u) = Len(s) /\ u[Len(s)] = f /\ u \in Seq(WorkFrame)
        /\ \A k \in 1 .. Len(s) : k # Len(s) => u[k] = s[k]
    BY PutIs, PopIs
  <1> HIDE DEF u
  <1>2. /\ Len(t) = Len(s) + 1 /\ t[Len(s) + 1] = h /\ t # <<>>
        /\ \A k \in 1 .. Len(s) : t[k] = u[k]
    BY <1>1, PushIs
  <1> HIDE DEF t
  <1>3. \A k \in 1 .. Len(t) : k = Len(t) \/ k \in 1 .. Len(s)
    BY <1>1, <1>2
  <1>4. t[Len(t)] = h /\ Len(s) \in 1 .. Len(s)
    BY <1>1, <1>2
  <1>5. \A k \in 1 .. Len(t) : \/ t[k] = h
                               \/ t[k] = f /\ k = Len(s)
                               \/ t[k] = s[k] /\ k \in 1 .. Len(s)
    BY <1>1, <1>2, <1>3, <1>4, Zenon
  <1>6. Visited(x, h) = {}
    BY VisitedAre, Zenon
  <1>7. h.at # "back"
    OBVIOUS
  <1>8. Entered(x, md, s) => Entered(x, md, t)
    <2> SUFFICES ASSUME Entered(x, md, s), NEW k \in 1 .. Len(t)
                 PROVE  /\ t[k].at # "enter" => md[t[k].node] = NOTMADE
                        /\ t[k].ready => \A p \in Visited(x, t[k]) : md[p] = MADE
      BY Zenon DEF Entered
    <2>1. CASE t[k] = h
      BY <1>6, <2>1, ZenonT(30)
    <2>2. CASE t[k] = f
      BY <1>4, <2>2, Zenon DEF Entered
    <2>3. CASE t[k] = s[k] /\ k \in 1 .. Len(s)
      BY <2>3, Zenon DEF Entered
    <2> QED BY <1>5, <2>1, <2>2, <2>3, ZenonT(30)
  <1>9. Looked(x, rt, md, s) => Looked(x, rt, md, t)
    <2> SUFFICES ASSUME Looked(x, rt, md, s), NEW k \in 1 .. Len(t)
                 PROVE  /\ \A c \in Visited(x, t[k]) : DoneOf(x, md, c)
                        /\ ~t[k].ready => DeadOf(x, md, t[k].node)
      BY <1>2, <1>4, <1>7, ZenonT(30) DEF Looked
    <2>1. CASE t[k] = h
      BY <1>6, <2>1, Zenon
    <2>2. CASE t[k] = f
      BY <1>4, <2>2, Zenon DEF Looked
    <2>3. CASE t[k] = s[k] /\ k \in 1 .. Len(s)
      BY <2>3, Zenon DEF Looked
    <2> QED BY <1>5, <2>1, <2>2, <2>3, Zenon
  <1> QED BY <1>8, <1>9, Zenon DEF t, u

-----------------------------------------------------------------------------
(***************************************************************************)
(* The invariant of mk() and work() when no rule has two targets, as long  *)
(* as mk is alive.                                                         *)
(***************************************************************************)
Single == \A r \in DOMAIN g.all : \A i, k \in 1 .. Len(g.all[r]) : g.all[r][i] = g.all[r][k]

\* A node is made, or being made, only when its prerequisites are made.
Supported ==
    \A n \in ReachOf(g, Root) :
        /\ made[n] # {}
        /\ "NOTMADE" \notin made[n] => \A p \in PrereqsOf(g, n) : made[p] = MADE

\* The targets of a job are being made as long as it is queued or runs.
Owned ==
    /\ dry => Owner = {}
    /\ \A j \in Owner : /\ job[j].t # {}
                        /\ \A n \in job[j].t : n \in ReachOf(g, Root) /\ made[n] = BEINGMADE
    /\ \A j, k \in Owner : job[j].t \cap job[k].t # {} => j = k

\* A job is in one place: the queue q, a slot, or the activation of waitup() that reaped it.
Apart(q, ev) ==
    /\ \A i, k \in DOMAIN q : q[i] = q[k] => i = k
    /\ \A s, t \in BusyIn(ev) : ev[s].job = ev[t].job => s = t
    /\ \A i \in DOMAIN q : \A s \in BusyIn(ev) : q[i] # ev[s].job
Placed ==
    /\ Apart(jobs, events)
    /\ calls # <<>> /\ calls[1].k = "upd" => calls[1].job \notin OwnersOf(jobs, events, <<>>)

\* A node that is being made has a job, or could not be made.
Failures ==
    /\ \A m \in ReachOf(g, Root) :
          /\ "BEINGMADE" \in made[m] => <<ti, m>> \in failed \/ \E j \in Owner : m \in job[j].t
          /\ made[m] = NOTMADE \cup BEINGMADE => PrereqsOf(g, m) = {}
    /\ calls # <<>> /\ calls[1].k = "upd" /\ fake =>
          \A m \in job[calls[1].job].t : <<ti, m>> \in failed

Explored ==
    /\ pc = "work" /\ ~did => Looked(g, Root, made, stack)
    /\ pc \in {"waitup", "empty"} => DoneOf(g, made, Root)

\* mk() leaves its loop when the target is made or being made, or after an error when
\* there is nothing left to do; it returns when no job is left.
Ending ==
    /\ pc \in {"after", "drain", "return"} =>
          \/ "NOTMADE" \notin made[Root]
          \/ Owner = {} /\ DoneOf(g, made, Root) /\ runerrs # 0
    /\ pc \in {"start", "empty", "return"} => Owner = {}
    /\ pc = "drain" /\ calls = <<>> => Owner = {}

InMake == Supported /\ Owned /\ Entered(g, made, stack) /\ Failures /\ Explored
Kept == Placed /\ Ending /\ (pc # "start" => InMake)

\* What is below the target of mk().
LEMMA Below ==
    ASSUME Types, pc # "start", Supported
    PROVE  /\ g \in Graphs /\ Root \in Node /\ Root \in ReachOf(g, Root)
           /\ ReachOf(g, Root) \subseteq Node
           /\ \A n \in ReachOf(g, Root) : PrereqsOf(g, n) \subseteq ReachOf(g, Root)
           /\ \A n \in ReachOf(g, Root) : \A m \in ReachOf(g, n) :
                 "NOTMADE" \notin made[m] => \A p \in PrereqsOf(g, m) : made[p] = MADE
           /\ \A n \in ReachOf(g, Root) : "NOTMADE" \notin made[n] =>
                 \A m \in ReachOf(g, n) : m = n \/ made[m] = MADE
  <1>1. g \in Graphs /\ Root \in Node /\ Root \in ReachOf(g, Root)
    BY RootIs, Zenon DEF Types
  <1>2. /\ ReachOf(g, Root) \subseteq Node
        /\ \A n \in ReachOf(g, Root) : PrereqsOf(g, n) \subseteq ReachOf(g, Root)
    BY <1>1, ReachIs, Zenon
  <1>3. \A n \in ReachOf(g, Root) : ReachOf(g, n) \subseteq ReachOf(g, Root)
    BY <1>1, ReachDown, Zenon
  <1>4. \A n \in ReachOf(g, Root) : \A m \in ReachOf(g, n) :
            "NOTMADE" \notin made[m] => \A p \in PrereqsOf(g, m) : made[p] = MADE
    BY <1>3, Zenon DEF Supported
  <1>5. \A n \in ReachOf(g, Root) : "NOTMADE" \notin made[n] =>
            \A m \in ReachOf(g, n) : m = n \/ made[m] = MADE
    BY <1>1, <1>2, <1>4, Supports, ZenonT(30)
  <1> QED BY <1>1, <1>2, <1>4, <1>5, ZenonT(30)

\* The flags of a node.
LEMMA FlagsAre ==
    ASSUME NEW f \in Flags, f # {}
    PROVE  /\ "NOTMADE" \in f <=> f \in {NOTMADE, NOTMADE \cup BEINGMADE}
           /\ "NOTMADE" \notin f <=> f \in {MADE, BEINGMADE}
           /\ "BEINGMADE" \in f <=> f \in {BEINGMADE, NOTMADE \cup BEINGMADE}
           /\ MADE # NOTMADE /\ MADE # BEINGMADE /\ BEINGMADE # NOTMADE
           /\ MADE # NOTMADE \cup BEINGMADE /\ BEINGMADE # NOTMADE \cup BEINGMADE
           /\ "NOTMADE" \notin MADE /\ "BEINGMADE" \notin MADE /\ "MADE" \in MADE
           /\ "NOTMADE" \notin BEINGMADE /\ "BEINGMADE" \in BEINGMADE
           /\ "NOTMADE" \in NOTMADE /\ "BEINGMADE" \notin NOTMADE
  BY DEF Flags, NOTMADE, MADE, BEINGMADE

\* A prerequisite that is made needs no look.
LEMMA MadeSeen ==
    ASSUME Types, pc # "start", Supported, NEW n \in ReachOf(g, Root), made[n] = MADE
    PROVE  DoneOf(g, made, n)
  BY Below, DoneSeen, Zenon

\* The nodes, the jobs and where they are stay as they are.
LEMMA Same ==
    ASSUME Kept, pc # "start",
           UNCHANGED <<jobs, events, made, g, opts, ti, job>>, Owner' = Owner, failed \subseteq failed',
           calls' # <<>> /\ calls'[1].k = "upd" => UNCHANGED <<calls, fake>>,
           Entered(g, made, stack'), Explored', Ending'
    PROVE  Kept'
  <1>1. Root' = Root /\ dry' = dry
    BY Zenon DEF Root, dry, nflag, tflag
  <1>2. Placed'
    BY Zenon DEF Kept, Placed
  <1>3. Supported' /\ Owned'
    BY <1>1, Zenon DEF Kept, InMake, Supported, Owned
  <1>4. Failures'
    <2>1. Failures
      BY Zenon DEF Kept, InMake
    <2>2. \A m \in ReachOf(g, Root) :
             /\ "BEINGMADE" \in made[m] => <<ti, m>> \in failed' \/ \E j \in Owner : m \in job[j].t
             /\ made[m] = NOTMADE \cup BEINGMADE => PrereqsOf(g, m) = {}
      BY <2>1, Zenon DEF Failures
    <2>3. calls' # <<>> /\ calls'[1].k = "upd" /\ fake' =>
             \A m \in job[calls'[1].job].t : <<ti, m>> \in failed'
      BY <2>1, Zenon DEF Failures
    <2> QED BY <1>1, <2>2, <2>3, Zenon DEF Failures
  <1>5. Entered(g, made, stack)'
    BY Zenon
  <1> QED BY <1>2, <1>3, <1>4, <1>5, ZenonT(30) DEF Kept, InMake

\* An activation of work() returns without a new job.
LEMMA KeptReturn ==
    ASSUME Alive, Kept, Working, Alive', stack' = Pop(stack), Quiet,
           \A p \in Node : p # top.node => made'[p] = made[p],
           \/ made'[top.node] = made[top.node]
           \/ /\ made[top.node] = NOTMADE /\ made'[top.node] \in {MADE, NOTMADE \cup BEINGMADE}
              /\ \A p \in PrereqsOf(g, top.node) : made[p] = MADE,
           failed \subseteq failed',
           "BEINGMADE" \in made'[top.node] =>
               \/ made'[top.node] = made[top.node]
               \/ <<ti, top.node>> \in failed' /\ PrereqsOf(g, top.node) = {},
           ~did => /\ made'[top.node] = MADE \/ DeadOf(g, made', top.node)
                   /\ \A p \in PrereqsOf(g, top.node) : DoneOf(g, made, p)
    PROVE  Kept'
  <1> DEFINE n == top.node
  <1>1. /\ g \in Graphs /\ Root \in Node /\ stack \in Seq(WorkFrame) /\ stack # <<>>
        /\ top = stack[Len(stack)] /\ n \in Node /\ n \in ReachOf(g, Root)
        /\ pc = "work" /\ pc # "start" /\ calls = <<>> /\ PathOK(g, Root, stack)
    <2>1. PathOK(g, Root, stack)
      BY Zenon DEF Alive
    <2> QED BY <2>1, RunningIs, ZenonT(30)
  <1>2. /\ UNCHANGED <<jobs, events, calls, g, opts, pc, ti, did, fake, job>>
        /\ Root' = Root /\ dry' = dry /\ Owner' = Owner
    BY Zenon DEF Quiet, schedVars, Root, dry, nflag, tflag, Owner
  <1>3. Supported /\ Owned /\ Entered(g, made, stack) /\ Failures /\ Explored /\ Placed
    BY <1>1, Zenon DEF Kept, InMake
  <1>4. /\ ReachOf(g, Root) \subseteq Node
        /\ \A m \in ReachOf(g, Root) : PrereqsOf(g, m) \subseteq ReachOf(g, Root)
    BY <1>1, ReachIs, ZenonT(30)
  <1>5. \A m \in Node : made[m] \in Flags /\ made'[m] \in Flags
    BY <1>2, Zenon DEF Alive, Types
  <1>6. /\ MADE # NOTMADE /\ BEINGMADE # NOTMADE /\ "BEINGMADE" \notin NOTMADE
        /\ "NOTMADE" \in NOTMADE \cup BEINGMADE /\ "BEINGMADE" \notin MADE
        /\ MADE # NOTMADE \cup BEINGMADE /\ MADE # {} /\ NOTMADE \cup BEINGMADE # {}
    BY Zenon DEF MADE, NOTMADE, BEINGMADE
  <1>7. Grows(made, made') /\ \A p \in Node : made[p] = MADE => made'[p] = MADE
    BY <1>6, ZenonT(30) DEF Grows
  <1>8. Supported'
    <2> SUFFICES ASSUME NEW m \in ReachOf(g, Root)
                 PROVE  /\ made'[m] # {}
                        /\ "NOTMADE" \notin made'[m] => \A p \in PrereqsOf(g, m) : made[p] = MADE
      BY <1>2, <1>4, <1>7, ZenonT(30) DEF Supported
    <2>1. m \in Node
      BY <1>4, Zenon
    <2>2. CASE made'[m] = made[m]
      BY <1>3, <2>2, ZenonT(30) DEF Supported
    <2>3. CASE made'[m] # made[m]
      <3>1. m = n /\ made'[n] \in {MADE, NOTMADE \cup BEINGMADE} /\ \A p \in PrereqsOf(g, n) : made[p] = MADE
        BY <2>1, <2>3, Zenon
      <3> QED BY <1>6, <3>1, Zenon
    <2> QED BY <2>2, <2>3, ZenonT(30)
  <1>9. Owned'
    <2>1. ASSUME NEW j \in Owner, NEW m \in job[j].t PROVE made'[m] = BEINGMADE
      <3>1. made[m] = BEINGMADE /\ m \in Node
        BY <1>3, <1>4, Zenon DEF Owned
      <3> QED BY <1>6, <3>1, Zenon
    <2> QED BY <1>2, <1>3, <2>1, ZenonT(30) DEF Owned
  <1>10. Placed'
    BY <1>2, <1>3, ZenonT(30) DEF Placed
  <1>11. Entered(g, made, stack)'
    BY <1>1, <1>2, <1>3, <1>7, EnteredPop, ZenonT(30)
  <1>12. Failures'
    <2> SUFFICES ASSUME NEW m \in ReachOf(g, Root)
                 PROVE  /\ "BEINGMADE" \in made'[m] => <<ti, m>> \in failed' \/ \E j \in Owner : m \in job[j].t
                        /\ made'[m] = NOTMADE \cup BEINGMADE => PrereqsOf(g, m) = {}
      BY <1>1, <1>2, ZenonT(30) DEF Failures
    <2>1. m \in Node
      BY <1>4, Zenon
    <2>2. CASE made'[m] = made[m]
      BY <1>3, <2>2, Zenon DEF Failures
    <2>3. CASE made'[m] # made[m]
      <3>1. m = n
        BY <2>1, <2>3, Zenon
      <3>2. "BEINGMADE" \in NOTMADE \cup BEINGMADE
        BY Zenon DEF BEINGMADE
      <3> QED BY <2>3, <3>1, <3>2, ZenonT(30)
    <2> QED BY <2>2, <2>3, ZenonT(30)
  <1>13. Explored'
    <2> SUFFICES ASSUME ~did PROVE Looked(g, Root, made', Pop(stack))
      BY <1>1, <1>2, ZenonT(30) DEF Explored
    <2>1. \A p \in PrereqsOf(g, n) : DoneOf(g, made', p)
      BY <1>1, <1>4, <1>7, DoneStays, ZenonT(30)
    <2>2. DoneOf(g, made', n)
      BY <1>1, <2>1, DoneUp, ZenonT(30)
    <2>3. Looked(g, Root, made, stack)
      BY <1>1, <1>3, ZenonT(30) DEF Explored
    <2> QED BY <1>1, <1>7, <2>2, <2>3, LookedPop, ZenonT(30)
  <1>14. Ending'
    BY <1>1, <1>2, Zenon DEF Ending
  <1> QED BY <1>8, <1>9, <1>10, <1>11, <1>12, <1>13, <1>14, ZenonT(30) DEF Kept, InMake

\* What is known of the activation that runs.
LEMMA RunningKept ==
    ASSUME Alive, Kept, Working
    PROVE  /\ top.at # "enter" => made[top.node] = NOTMADE
           /\ top.ready => \A p \in Visited(g, top) : made[p] = MADE
           /\ ~did => /\ \A c \in Visited(g, top) : DoneOf(g, made, c)
                      /\ ~top.ready => DeadOf(g, made, top.node)
                      /\ top.at = "back" => DoneOf(g, made, Child(g, top))
           /\ Entered(g, made, stack) /\ (~did => Looked(g, Root, made, stack))
           /\ Supported /\ made[top.node] # {} /\ pc # "start" /\ Len(stack) \in 1 .. Len(stack)
  <1>1. /\ stack \in Seq(WorkFrame) /\ stack # <<>> /\ pc = "work" /\ pc # "start"
        /\ top = stack[Len(stack)] /\ top.node \in ReachOf(g, Root)
    BY RunningIs, Zenon
  <1>2. Len(stack) \in 1 .. Len(stack)
    BY <1>1
  <1>3. Supported /\ Entered(g, made, stack) /\ (~did => Looked(g, Root, made, stack))
    BY <1>1, Zenon DEF Kept, InMake, Explored
  <1>4. made[top.node] # {}
    BY <1>1, <1>3, ZenonT(30) DEF Supported
  <1>5. /\ top.at # "enter" => made[top.node] = NOTMADE
        /\ top.ready => \A p \in Visited(g, top) : made[p] = MADE
    BY <1>1, <1>2, <1>3, ZenonT(30) DEF Entered
  <1>6. ~did => /\ \A c \in Visited(g, top) : DoneOf(g, made, c)
                /\ ~top.ready => DeadOf(g, made, top.node)
                /\ top.at = "back" => DoneOf(g, made, Child(g, top))
    BY <1>1, <1>2, <1>3, ZenonT(30) DEF Looked
  <1> QED BY <1>1, <1>2, <1>3, <1>4, <1>5, <1>6, ZenonT(30)

\* After the loop over the arcs.
LEMMA AllVisited ==
    ASSUME NEW x \in Graphs, NEW f \in WorkFrame, f.i > Len(x.arcs[f.node])
    PROVE  Visited(x, f) = PrereqsOf(x, f.node)
  <1>1. f.node \in Node /\ f.i \in Nat
    BY Zenon DEF WorkFrame
  <1>2. Len(x.arcs[f.node]) \in Nat
    BY <1>1, ArcsAre, Zenon
  <1>3. {j \in 1 .. Len(x.arcs[f.node]) : j < f.i} = 1 .. Len(x.arcs[f.node])
    BY <1>1, <1>2
  <1> QED BY <1>3, Zenon DEF Visited, PrereqsOf

\* A node is taken as made: everything it needs is.
LEMMA KeptMade ==
    ASSUME Alive, Kept, Working, Alive', stack' = Pop(stack), Quiet, failed' = failed,
           made[top.node] = NOTMADE, made' = MADESET({top.node}, MADE),
           \A p \in PrereqsOf(g, top.node) : made[p] = MADE
    PROVE  Kept'
  <1>1. top.node \in Node /\ top.node \in ReachOf(g, Root) /\ made \in [Node -> Flags]
    BY RunningIs, Zenon DEF Alive, Types
  <1>2. MADE \in Flags /\ "BEINGMADE" \notin MADE
    BY Zenon DEF Flags, MADE
  <1>3. made'[top.node] = MADE /\ \A p \in Node : p # top.node => made'[p] = made[p]
    BY <1>1, <1>2, Zenon DEF MADESET
  <1>4. \A p \in PrereqsOf(g, top.node) : DoneOf(g, made, p)
    <2>1. Types /\ pc # "start" /\ Supported
      BY RunningKept, Zenon DEF Alive
    <2>2. PrereqsOf(g, top.node) \subseteq ReachOf(g, Root)
      BY <1>1, <2>1, Below, ZenonT(30)
    <2> QED BY <2>1, <2>2, MadeSeen, ZenonT(30)
  <1> QED BY <1>2, <1>3, <1>4, KeptReturn, ZenonT(30)

\* Every way in which work() returns, but for dorecipe().
LEMMA KeptReturns ==
    ASSUME Alive, Kept, mkstate' = "alive",
           WorkSeen \/ WorkLeaf \/ WorkNotReady \/ WorkUpToDate \/ DoNoRecipe
    PROVE  Kept'
  <1>1. Working /\ stack' = Pop(stack) /\ Quiet /\ Alive'
    <2>1. Working /\ stack' = Pop(stack) /\ Quiet
      BY Zenon DEF WorkSeen, WorkLeaf, WorkNotReady, WorkUpToDate, DoNoRecipe, AfterLoop, MustMake,
               Return, Pop, Quiet, nodeVars, R!Quit
    <2> QED BY <2>1, ReturnSteps, Zenon
  <1>2. /\ g \in Graphs /\ top \in WorkFrame /\ top.node \in Node /\ top.node \in ReachOf(g, Root)
        /\ made \in [Node -> Flags] /\ Types
    BY <1>1, RunningIs, ZenonT(30) DEF Alive, Types
  <1>3. /\ top.at # "enter" => made[top.node] = NOTMADE
        /\ top.ready => \A p \in Visited(g, top) : made[p] = MADE
        /\ ~did => /\ \A c \in Visited(g, top) : DoneOf(g, made, c)
                   /\ ~top.ready => DeadOf(g, made, top.node)
        /\ Supported /\ made[top.node] # {} /\ pc # "start" /\ Failures
    BY <1>1, RunningKept, Zenon DEF Kept, InMake
  <1>4. AfterLoop => Visited(g, top) = PrereqsOf(g, top.node)
    BY <1>2, AllVisited, Zenon DEF AfterLoop, Arcs
  <1>5. AfterLoop => top.at = "arc" /\ top.at # "enter"
    BY Zenon DEF AfterLoop
  <1>6. CASE WorkSeen
    <2>1. made[top.node] \cap {"BEINGMADE", "MADE"} # {} /\ made' = made /\ failed' = failed
      BY <1>6, Zenon DEF WorkSeen, nodeVars, ghostVars
    <2>2. made[top.node] \in {MADE, BEINGMADE, NOTMADE \cup BEINGMADE}
      <3>1. made[top.node] \in Flags
        BY <1>2, Zenon
      <3> QED BY <2>1, <3>1, ZenonT(30) DEF Flags, NOTMADE, BEINGMADE, MADE
    <2>3. "NOTMADE" \notin MADE /\ "NOTMADE" \notin BEINGMADE /\ "BEINGMADE" \in BEINGMADE
      BY Zenon DEF MADE, BEINGMADE
    <2>4. made[top.node] # MADE => DeadOf(g, made, top.node)
      BY <1>2, <2>2, <2>3, ReachIs, ZenonT(30) DEF DeadOf
    <2>5. \A p \in PrereqsOf(g, top.node) : made[p] = MADE /\ p \in ReachOf(g, Root)
      <3>1. CASE made[top.node] = NOTMADE \cup BEINGMADE
        BY <1>2, <1>3, <3>1, ZenonT(30) DEF Failures
      <3>2. CASE made[top.node] \in {MADE, BEINGMADE}
        BY <1>2, <1>3, <2>3, <3>2, Below, ZenonT(30) DEF Supported
      <3> QED BY <2>2, <3>1, <3>2, ZenonT(30)
    <2>6. \A p \in PrereqsOf(g, top.node) : DoneOf(g, made, p)
      BY <1>2, <1>3, <2>5, MadeSeen, ZenonT(30)
    <2> QED BY <1>1, <2>1, <2>4, <2>6, KeptReturn, ZenonT(30)
  <1>7. CASE WorkNotReady
    <2>1. AfterLoop /\ ~top.ready /\ made' = made /\ failed' = failed
      BY <1>7, Zenon DEF WorkNotReady, nodeVars, ghostVars
    <2> QED BY <1>1, <1>3, <1>4, <2>1, KeptReturn, ZenonT(30)
  <1>8. CASE WorkUpToDate
    <2>1. AfterLoop /\ top.ready /\ made' = MADESET({top.node}, MADE) /\ failed' = failed
      BY <1>8, ZenonT(30) DEF WorkUpToDate, ghostVars
    <2> QED BY <1>1, <1>3, <1>4, <1>5, <2>1, KeptMade, ZenonT(30)
  <1>9. CASE DoNoRecipe
    <2>1. AfterLoop /\ top.ready /\ made' = MADESET({top.node}, MADE) /\ failed' = failed
      BY <1>9, Zenon DEF DoNoRecipe, MustMake, R!Quit, ghostVars
    <2> QED BY <1>1, <1>3, <1>4, <1>5, <2>1, KeptMade, Zenon
  <1>10. CASE WorkLeaf
    <2>1. made[top.node] = NOTMADE /\ Arcs(top.node) = <<>>
      BY <1>10, Zenon DEF WorkLeaf
    <2>2. PrereqsOf(g, top.node) = {}
      <3>1. Len(g.arcs[top.node]) = 0
        BY <2>1 DEF Arcs
      <3> QED BY <3>1 DEF PrereqsOf
    <2>3. \/ made' = MADESET({top.node}, MADE) /\ failed' = failed
          \/ made' = [made EXCEPT ![top.node] = @ \cup BEINGMADE] /\ failed' = failed \cup {<<ti, top.node>>}
      BY <1>10, Zenon DEF WorkLeaf, R!Quit
    <2>4. CASE made' = MADESET({top.node}, MADE) /\ failed' = failed
      BY <1>1, <2>1, <2>2, <2>4, KeptMade, ZenonT(30)
    <2>5. CASE made' = [made EXCEPT ![top.node] = @ \cup BEINGMADE] /\ failed' = failed \cup {<<ti, top.node>>}
      <3>1. /\ \A p \in Node : p # top.node => made'[p] = made[p]
            /\ made'[top.node] = NOTMADE \cup BEINGMADE
        BY <1>2, <2>1, <2>5, ZenonT(30)
      <3>2. "BEINGMADE" \in made'[top.node] /\ failed \subseteq failed' /\ <<ti, top.node>> \in failed'
        BY <2>5, <3>1, Zenon DEF BEINGMADE
      <3>3. DeadOf(g, made', top.node)
        BY <1>2, <3>2, ReachIs, ZenonT(30) DEF DeadOf
      <3> QED BY <1>1, <2>1, <2>2, <3>1, <3>2, <3>3, KeptReturn, ZenonT(30)
    <2> QED BY <2>3, <2>4, <2>5, ZenonT(30)
  <1> QED BY <1>6, <1>7, <1>8, <1>9, <1>10, ZenonT(30)

\* A prerequisite was looked at, and the node below which it is can be made or not.
LEMMA ChildIs ==
    ASSUME Alive, Kept, Working, Child(g, top) # nil, top.i <= Len(g.arcs[top.node])
    PROVE  LET c == Child(g, top)
           IN  /\ made[c] \cap {"NOTMADE", "BEINGMADE"} = {} => made[c] = MADE
               /\ made[c] \cap {"NOTMADE", "BEINGMADE"} # {} /\ DoneOf(g, made, c)
                     => DeadOf(g, made, top.node)
  <1> DEFINE c == Child(g, top)
  <1>1. /\ g \in Graphs /\ top \in WorkFrame /\ top.node \in Node /\ top.node \in ReachOf(g, Root)
        /\ made \in [Node -> Flags] /\ Types /\ Root \in Node
    BY RunningIs, Zenon DEF Alive, Types
  <1>2. c \in PrereqsOf(g, top.node)
    <2>1. top.i \in 1 .. Len(g.arcs[top.node])
      BY <1>1, ArcsAre DEF WorkFrame
    <2> QED BY <2>1, ZenonT(30) DEF PrereqsOf, Child
  <1>3. c \in ReachOf(g, top.node) /\ c \in ReachOf(g, Root)
    BY <1>1, <1>2, ReachIs, ZenonT(30)
  <1>4. c \in Node /\ ReachOf(g, c) \subseteq ReachOf(g, top.node) /\ c \in ReachOf(g, c)
    BY <1>1, <1>3, ReachIs, ReachDown, ZenonT(30)
  <1>5. made[c] # {} /\ made[c] \in Flags
    BY <1>1, <1>3, <1>4, RunningKept, ZenonT(30) DEF Supported
  <1> HIDE DEF c
  <1>6. made[c] \cap {"NOTMADE", "BEINGMADE"} = {} <=> made[c] = MADE
    BY <1>5, Zenon DEF Flags, NOTMADE, MADE, BEINGMADE
  <1>7. DoneOf(g, made, c) => made[c] = MADE \/ DeadOf(g, made, c)
    BY <1>4, Zenon DEF DoneOf
  <1>8. DeadOf(g, made, c) => DeadOf(g, made, top.node)
    BY <1>4, ZenonT(30) DEF DeadOf
  <1> QED BY <1>6, <1>7, <1>8, ZenonT(30) DEF c

\* The loop over the arcs.
LEMMA KeptLoop ==
    ASSUME Alive, Kept, WorkArc \/ WorkBack
    PROVE  Kept'
  <1>1. /\ Working /\ Quiet /\ made' = made
        /\ top.at = "enter" => made[top.node] = NOTMADE
        /\ \/ \E f, h \in WorkFrame : Calls(f, h) /\ stack' = Append(Put(stack, f), h)
           \/ \E f \in WorkFrame : Goes(f) /\ stack' = Put(stack, f)
    BY LoopSteps, Zenon
  <1>2. /\ g \in Graphs /\ Root \in Node /\ stack \in Seq(WorkFrame) /\ stack # <<>>
        /\ top = stack[Len(stack)] /\ top \in WorkFrame /\ top.node \in Node /\ pc = "work"
    BY <1>1, RunningIs, ZenonT(30)
  <1>3. /\ made[top.node] = NOTMADE /\ pc # "start"
        /\ top.ready => \A p \in Visited(g, top) : made[p] = MADE
        /\ ~did => /\ \A c \in Visited(g, top) : DoneOf(g, made, c)
                   /\ ~top.ready => DeadOf(g, made, top.node)
                   /\ top.at = "back" => DoneOf(g, made, Child(g, top))
        /\ Entered(g, made, stack) /\ (~did => Looked(g, Root, made, stack))
    BY <1>1, RunningKept, ZenonT(30)
  <1>4. /\ UNCHANGED <<jobs, events, calls, g, opts, pc, ti, did, fake, job, failed>>
        /\ Owner' = Owner /\ Root' = Root
    <2>1. failed' = failed
      BY Zenon DEF WorkArc, WorkBack, ghostVars
    <2> QED BY <1>1, <2>1, ZenonT(30) DEF Quiet, schedVars, Owner, Root
  <1>5. ASSUME Entered(g, made, stack'), ~did => Looked(g, Root, made, stack')
        PROVE  Kept'
    <2>1. Explored'
      BY <1>1, <1>2, <1>4, <1>5, ZenonT(30) DEF Explored
    <2>2. Ending'
      BY <1>2, <1>4, Zenon DEF Ending
    <2> QED BY <1>1, <1>3, <1>4, <1>5, <2>1, <2>2, Same, ZenonT(30)
  <1>6. CASE \E f, h \in WorkFrame : Calls(f, h) /\ stack' = Append(Put(stack, f), h)
    <2>1. PICK f \in WorkFrame, h \in WorkFrame : Calls(f, h) /\ stack' = Append(Put(stack, f), h)
      BY <1>6, Zenon
    <2> QED BY <1>2, <1>3, <1>5, <2>1, LookedPush, ZenonT(30) DEF Calls
  <1>7. CASE \E f \in WorkFrame : Goes(f) /\ stack' = Put(stack, f)
    <2>1. PICK f \in WorkFrame : Goes(f) /\ stack' = Put(stack, f)
      BY <1>7, Zenon
    <2> DEFINE c == Child(g, top)
    <2>2. /\ f.node = top.node /\ f.at = "arc" /\ f.i = top.i + 1 /\ top.i <= Len(g.arcs[top.node])
          /\ c = nil \/ top.at = "back"
          /\ f.ready <=> top.ready /\ (c = nil \/ made[c] \cap {"NOTMADE", "BEINGMADE"} = {})
      BY <2>1, Zenon DEF Goes
    <2>3. Visited(g, f) = Visited(g, top) \cup ({c} \ {nil})
      BY <1>2, <2>2, VisitedGoes, ZenonT(30)
    <2>4. c # nil => /\ made[c] \cap {"NOTMADE", "BEINGMADE"} = {} => made[c] = MADE
                     /\ made[c] \cap {"NOTMADE", "BEINGMADE"} # {} /\ DoneOf(g, made, c)
                           => DeadOf(g, made, top.node)
      BY <1>1, <2>2, ChildIs, ZenonT(30)
    <2> HIDE DEF c
    <2>5. f.ready => \A p \in Visited(g, f) : made[p] = MADE
      BY <1>3, <2>2, <2>3, <2>4, ZenonT(30)
    <2>6. ~did => /\ \A v \in Visited(g, f) : DoneOf(g, made, v)
                  /\ ~f.ready => DeadOf(g, made, f.node)
      BY <1>3, <2>2, <2>3, <2>4, ZenonT(30) DEF c
    <2>7. f.at # "back"
      BY <2>2, Zenon
    <2> QED BY <1>2, <1>3, <1>5, <2>1, <2>2, <2>5, <2>6, <2>7, LookedPut, ZenonT(30)
  <1> QED BY <1>1, <1>6, <1>7, ZenonT(30)

-----------------------------------------------------------------------------
(***************************************************************************)
(* The steps of mk() keep the invariant.                                   *)
(***************************************************************************)
\* If the target is made, no job is left.
LEMMA NoneNeeded ==
    ASSUME Types, pc # "start", Supported, Owned, made[Root] = MADE
    PROVE  Owner = {}
  <1>1. \A m \in ReachOf(g, Root) : made[m] = MADE
    <2>1. "NOTMADE" \notin made[Root]
      BY Zenon DEF MADE
    <2> QED BY <2>1, Below, ZenonT(30)
  <1>2. MADE # BEINGMADE
    BY Zenon DEF MADE, BEINGMADE
  <1>3. ASSUME NEW j \in Owner PROVE FALSE
    <2>1. PICK n \in job[j].t : TRUE
      BY Zenon DEF Owned
    <2>2. made[n] = BEINGMADE /\ made[n] = MADE
      BY <1>1, Zenon DEF Owned
    <2> QED BY <1>2, <2>2, Zenon
  <1> QED BY <1>3, Zenon

\* Between two rounds.
LEMMA KeptBetween ==
    ASSUME Alive, Kept, mkstate' = "alive",
           \/ MkLoop /\ "NOTMADE" \notin made[Root]
           \/ MkWorked \/ MkEmpty \/ MkAfter \/ MkDrain \/ MkReturn
    PROVE  Kept'
  <1>1. calls = <<>> /\ pc # "start" /\ (pc = "work" => stack = <<>>)
    BY Zenon DEF MkLoop, MkWorked, MkEmpty, MkAfter, MkDrain, MkReturn, InMk
  <1>2. stack = <<>>
    BY <1>1, Zenon DEF Alive, Types
  <1>3. UNCHANGED <<jobs, events, g, opts, made, ti, did, runerrs, fake, job, stack, failed>>
    BY Zenon DEF MkLoop, MkWorked, MkEmpty, MkAfter, MkDrain, MkReturn, R!CallWaitup, R!Quit,
                 R!queueVars, R!slotVars, schedVars, nodeVars, ghostVars
  <1>4. Root' = Root
    BY <1>3, Zenon DEF Root
  <1>5. Supported /\ Owned /\ Explored /\ Ending /\ Types
    BY <1>1, Zenon DEF Kept, InMake, Alive
  <1>6. ASSUME calls' = <<>> \/ \E ok \in BOOLEAN : calls' = WaitCall(ok), Explored', Ending' \/ Owner' # Owner
        PROVE  Kept'
    <2>1. Owner' = Owner
      BY <1>1, <1>3, <1>6, WaitCallIs, ZenonT(30) DEF Owner
    <2>2. ~(calls' # <<>> /\ calls'[1].k = "upd")
      <3>1. \A ok \in BOOLEAN : WaitCall(ok)[1].k = "wait"
        BY WaitCallIs, Zenon
      <3> QED BY <1>6, <3>1, Zenon
    <2>3. Entered(g, made, stack')
      BY <1>2, <1>3, SMTT(30) DEF Entered
    <2> QED BY <1>1, <1>3, <1>6, <2>1, <2>2, <2>3, Same, ZenonT(30)
  <1>7. CASE MkLoop /\ "NOTMADE" \notin made[Root]
    <2>1. pc' = "after" /\ calls' = <<>>
      BY <1>1, <1>7, ZenonT(30) DEF MkLoop, schedVars
    <2> QED BY <1>3, <1>4, <1>6, <1>7, <2>1, ZenonT(30) DEF Explored, Ending
  <1>8. CASE MkWorked
    <2>1. pc = "work" /\ (did => pc' = "loop" /\ calls' = <<>>)
      BY <1>1, <1>8, ZenonT(30) DEF MkWorked, schedVars
    <2>2. ~did => pc' = "waitup" /\ calls' = WaitCall(TRUE)
      BY <1>8, ZenonT(30) DEF MkWorked, R!CallWaitup, WaitCall
    <2>3. ~did => DoneOf(g, made, Root)
      BY <1>2, <1>5, <2>1, ZenonT(30) DEF Explored, Looked
    <2>4. pc' \in {"loop", "waitup"} /\ (calls' = <<>> \/ \E ok \in BOOLEAN : calls' = WaitCall(ok))
      BY <2>1, <2>2, ZenonT(30)
    <2>5. Explored'
      BY <1>3, <1>4, <2>1, <2>2, <2>3, ZenonT(30) DEF Explored
    <2>6. Ending'
      BY <2>4, Zenon DEF Ending
    <2> QED BY <1>6, <2>4, <2>5, <2>6, ZenonT(30)
  <1>9. CASE MkEmpty
    <2>1. pc = "empty" /\ calls' = <<>> /\ (pc' = "loop" \/ (pc' = "after" /\ runerrs # 0))
      BY <1>1, <1>9, ZenonT(30) DEF MkEmpty, schedVars, R!Quit
    <2>2. Owner = {} /\ DoneOf(g, made, Root)
      BY <1>5, <2>1, ZenonT(30) DEF Ending, Explored
    <2>3. Explored'
      BY <2>1, ZenonT(30) DEF Explored
    <2>4. Owner' = Owner => Ending'
      BY <1>3, <1>4, <2>1, <2>2, ZenonT(30) DEF Ending
    <2> QED BY <1>6, <2>1, <2>3, <2>4, ZenonT(30)
  <1>10. CASE MkAfter
    <2>1. pc = "after" /\ pc' = "drain" /\ (calls' = WaitCall(FALSE) \/ (calls' = <<>> /\ "BEINGMADE" \notin made[Root]))
      BY <1>1, <1>10, ZenonT(30) DEF MkAfter, R!CallWaitup, schedVars, WaitCall
    <2>2. Explored'
      BY <2>1, Zenon DEF Explored
    <2>3. calls' = <<>> => Owner = {}
      <3>1. WaitCall(FALSE) # <<>>
        BY WaitCallIs, Zenon
      <3> SUFFICES ASSUME "BEINGMADE" \notin made[Root], "NOTMADE" \notin made[Root] PROVE Owner = {}
        BY <1>5, <2>1, <3>1, ZenonT(30) DEF Ending
      <3>2. Root \in Node /\ Root \in ReachOf(g, Root)
        BY <1>1, <1>5, RootIs, Zenon
      <3>3. made[Root] \in Flags /\ made[Root] # {}
        BY <1>5, <3>2, Zenon DEF Types, Supported
      <3>4. made[Root] = MADE
        BY <3>3, Zenon DEF Flags, NOTMADE, BEINGMADE, MADE
      <3> QED BY <1>1, <1>5, <3>4, NoneNeeded, ZenonT(30)
    <2>4. Owner' = Owner => Ending'
      BY <1>3, <1>4, <1>5, <2>1, <2>3, ZenonT(30) DEF Ending
    <2>5. calls' = <<>> \/ \E ok \in BOOLEAN : calls' = WaitCall(ok)
      BY <2>1, ZenonT(30)
    <2> QED BY <1>6, <2>2, <2>4, <2>5, ZenonT(30)
  <1>11. CASE MkDrain
    <2>1. pc = "drain" /\ ((pc' = "drain" /\ calls' = WaitCall(FALSE)) \/ (pc' = "return" /\ calls' = <<>>))
      BY <1>1, <1>11, ZenonT(30) DEF MkDrain, R!CallWaitup, R!Quit, schedVars, WaitCall
    <2>2. Explored'
      BY <2>1, ZenonT(30) DEF Explored
    <2>3. Owner = {}
      BY <1>1, <1>5, <2>1, ZenonT(30) DEF Ending
    <2>4. Owner' = Owner => Ending'
      BY <1>3, <1>4, <1>5, <2>1, <2>3, ZenonT(30) DEF Ending
    <2>5. calls' = <<>> \/ \E ok \in BOOLEAN : calls' = WaitCall(ok)
      BY <2>1, Zenon
    <2> QED BY <1>6, <2>2, <2>4, <2>5, ZenonT(30)
  <1>12. CASE MkReturn
    <2>1. pc = "return" /\ pc' = "start" /\ calls' = <<>>
      BY <1>1, <1>12, Zenon DEF MkReturn, schedVars
    <2>2. Explored'
      BY <2>1, Zenon DEF Explored
    <2>3. Owner' = Owner => Ending'
      BY <1>5, <2>1, Zenon DEF Ending
    <2> QED BY <1>6, <2>1, <2>2, <2>3, ZenonT(30)
  <1> QED BY <1>7, <1>8, <1>9, <1>10, <1>11, <1>12, ZenonT(30)

\* mk() calls work() for its target.
LEMMA KeptCall ==
    ASSUME Alive, Kept, MkLoop, "NOTMADE" \in made[Root]
    PROVE  Kept'
  <1> DEFINE h == Call(Root)
  <1>1. /\ calls = <<>> /\ pc = "loop" /\ pc' = "work" /\ did' = FALSE /\ stack' = <<h>>
        /\ UNCHANGED <<schedVars, nodeVars, ti, runerrs, fake, job, ghostVars>>
    BY ZenonT(30) DEF MkLoop, InMk
  <1>2. /\ UNCHANGED <<jobs, events, calls, g, opts, made, ti, runerrs, fake, job, failed>>
        /\ Root' = Root /\ Owner' = Owner
    BY <1>1, Zenon DEF schedVars, nodeVars, ghostVars, Root, Owner
  <1>3. g \in Graphs /\ Root \in Node
    BY <1>1, RootIs, ZenonT(30) DEF Alive, Types
  <1>4. h \in WorkFrame /\ h.node = Root /\ h.at = "enter" /\ h.i = 1 /\ h.ready = TRUE
    BY <1>3 DEF Call, WorkFrame, aflag
  <1> HIDE DEF h
  <1>5. Len(stack') = 1 /\ stack' # <<>> /\ stack'[Len(stack')] = h /\ \A k \in 1 .. Len(stack') : stack'[k] = h
    BY <1>1
  <1>6. Visited(g, h) = {}
    BY <1>3, <1>4, VisitedAre, ZenonT(30)
  <1>7. Entered(g, made, stack')
    BY <1>4, <1>5, <1>6, ZenonT(30) DEF Entered
  <1>8. Looked(g, Root, made, stack')
    <2>1. h.at # "back"
      BY <1>4, ZenonT(30)
    <2> QED BY <1>4, <1>5, <1>6, <2>1, ZenonT(30) DEF Looked
  <1>9. Explored'
    BY <1>1, <1>2, <1>8, ZenonT(30) DEF Explored
  <1>10. Ending'
    BY <1>1, Zenon DEF Ending
  <1> QED BY <1>1, <1>2, <1>7, <1>9, <1>10, Same, ZenonT(30)

\* mk() is called for the next target.
LEMMA KeptStart ==
    ASSUME Alive, Kept, MkStart
    PROVE  Kept'
  <1>1. /\ calls = <<>> /\ pc = "start" /\ pc' = "loop"
        /\ UNCHANGED <<schedVars, g, opts, stack, did, fake, job>>
    BY Zenon DEF MkStart, InMk
  <1>2. UNCHANGED <<jobs, events, calls, g, opts, stack, did, fake, job>> /\ Owner' = Owner
    BY <1>1, ZenonT(30) DEF schedVars, Owner
  <1>3. stack = <<>> /\ made \in [Node -> Flags] /\ NOTMADE \in Flags /\ Types'
    BY <1>1, Starts, ZenonT(30) DEF Alive, Types, Flags
  <1>4. g \in Graphs /\ Root' \in Node /\ ReachOf(g, Root') \subseteq Node
    <2>1. g \in Graphs /\ ti' \in 1 .. Len(g.targets)
      BY <1>1, <1>2, <1>3 DEF Types
    <2>2. g.targets \in Seq(Node)
      BY <2>1, GraphsAssumption, ZenonT(30) DEF IsGraph
    <2>3. Root' \in Node
      BY <1>2, <2>1, <2>2, SMTT(30) DEF Root
    <2> QED BY <2>1, <2>3, ReachIs, ZenonT(30)
  <1>5. \A m \in ReachOf(g, Root') : made'[m] = NOTMADE
    <2>1. made' = MADESET(ReachOf(g, Root'), NOTMADE)
      BY <1>2, GraphIs, ZenonT(30) DEF MkStart, Root
    <2> QED BY <1>3, <1>4, <2>1, MadesetIs, ZenonT(30)
  <1>6. NOTMADE # {} /\ "NOTMADE" \in NOTMADE /\ "BEINGMADE" \notin NOTMADE /\ NOTMADE # NOTMADE \cup BEINGMADE
    BY DEF NOTMADE, BEINGMADE
  <1>7. Owner = {} /\ Placed
    BY <1>1, Zenon DEF Kept, Ending
  <1>8. Supported'
    BY <1>2, <1>5, <1>6, ZenonT(30) DEF Supported
  <1>9. Owned'
    BY <1>2, <1>7, ZenonT(30) DEF Owned
  <1>10. Failures'
    BY <1>1, <1>2, <1>5, <1>6, ZenonT(30) DEF Failures
  <1>11. Entered(g, made, stack)'
    BY <1>2, <1>3, SMTT(30) DEF Entered
  <1>12. Explored' /\ Ending'
    BY <1>1, Zenon DEF Explored, Ending
  <1>13. Placed'
    BY <1>2, <1>7, ZenonT(30) DEF Placed
  <1> QED BY <1>8, <1>9, <1>10, <1>11, <1>12, <1>13, ZenonT(30) DEF Kept, InMake

-----------------------------------------------------------------------------
(***************************************************************************)
(* The steps of waitup() and dorecipe() keep it.                           *)
(***************************************************************************)
\* The queue without its head.
LEMMA TailApart ==
    ASSUME NEW q, IsSeq(q), q # <<>>, \A i, k \in DOMAIN q : q[i] = q[k] => i = k
    PROVE  /\ \A i, k \in DOMAIN Tail(q) : Tail(q)[i] = Tail(q)[k] => i = k
           /\ \A i \in DOMAIN Tail(q) : Tail(q)[i] # Head(q) /\ \E k \in DOMAIN q : Tail(q)[i] = q[k]
           /\ \E k \in DOMAIN q : Head(q) = q[k]
  <1>1. PICK S : q \in Seq(S)
    BY Zenon DEF IsSeq
  <1>2. Len(q) \in Nat \ {0} /\ DOMAIN q = 1 .. Len(q) /\ Head(q) = q[1]
    BY <1>1
  <1>3. /\ Tail(q) \in Seq(S) /\ Len(Tail(q)) = Len(q) - 1 /\ DOMAIN Tail(q) = 1 .. Len(Tail(q))
        /\ \A i \in 1 .. Len(q) - 1 : Tail(q)[i] = q[i + 1]
    BY <1>1, <1>2, SMTT(30)
  <1>4. 1 \in DOMAIN q /\ \A i \in DOMAIN Tail(q) : i + 1 \in DOMAIN q /\ i + 1 # 1 /\ Tail(q)[i] = q[i + 1]
    BY <1>2, <1>3, SMTT(30)
  <1>5. \A i, k \in DOMAIN Tail(q) : i + 1 = k + 1 => i = k
    BY <1>3
  <1> QED BY <1>2, <1>4, <1>5, ZenonT(30)

\* A job goes from the queue to a slot.
LEMMA ApartSched ==
    ASSUME R!TypeOK, SetFacts, NEW q, IsSeq(q), R!SchedIfRoom(q), mkstate = "alive",
           mkstate' = "alive", Apart(q, events)
    PROVE  Apart(jobs', events')
  <1> DEFINE n == R!nextslot
  <1>1. \/ jobs' = q /\ events' = events
        \/ /\ q # <<>> /\ jobs' = Tail(q) /\ R!FreeSlots # {}
           /\ \/ dry /\ events' = [events EXCEPT ![n].job = Head(q)]
              \/ \E p \in R!FreshPid : events' = [events EXCEPT ![n] = [pid |-> p, job |-> Head(q)]]
    BY Zenon DEF R!SchedIfRoom, R!Sched, R!slotVars
  <1>2. CASE ~(jobs' = q /\ events' = events)
    <2>1. q # <<>> /\ jobs' = Tail(q) /\ \A i, k \in DOMAIN q : q[i] = q[k] => i = k
      BY <1>1, <1>2, ZenonT(30) DEF Apart
    <2>2. /\ \A i, k \in DOMAIN jobs' : jobs'[i] = jobs'[k] => i = k
          /\ \A i \in DOMAIN jobs' : jobs'[i] # Head(q) /\ \E k \in DOMAIN q : jobs'[i] = q[k]
          /\ \E k \in DOMAIN q : Head(q) = q[k]
      <3>1. /\ \A i, k \in DOMAIN Tail(q) : Tail(q)[i] = Tail(q)[k] => i = k
            /\ \A i \in DOMAIN Tail(q) : Tail(q)[i] # Head(q) /\ \E k \in DOMAIN q : Tail(q)[i] = q[k]
            /\ \E k \in DOMAIN q : Head(q) = q[k]
        BY <2>1, TailApart, ZenonT(30)
      <3> QED BY <2>1, <3>1, Zenon
    <2>3. n \in R!Slot /\ events[n].pid \notin Pid
      BY <1>1, <1>2, ZenonT(30) DEF SetFacts, R!FreeSlots, R!Busy
    <2>4. events \in [R!Slot -> [pid : Pid \cup {NoPid}, job : Job \cup {NoJob}]]
      BY Zenon DEF R!TypeOK
    <2> HIDE DEF n
    <2>5. \A s \in BusyIn(events') : \/ s = n /\ events'[s].job = Head(q)
                                     \/ s \in BusyIn(events) /\ events'[s].job = events[s].job
      <3>1. \A s \in R!Slot : s # n => events'[s] = events[s]
        BY <1>1, <1>2, <2>3, <2>4, ZenonT(30)
      <3>2. events'[n].pid \in Pid => events'[n].job = Head(q)
        BY <1>1, <1>2, <2>3, <2>4, SMTT(30)
      <3> QED BY <3>1, <3>2, ZenonT(30) DEF BusyIn
    <2>6. /\ \A s, t \in BusyIn(events) : events[s].job = events[t].job => s = t
          /\ \A k \in DOMAIN q : \A s \in BusyIn(events) : q[k] # events[s].job
      BY Zenon DEF Apart
    <2>7. \A s \in BusyIn(events) : events[s].job # Head(q)
      BY <2>2, <2>6, ZenonT(30)
    <2>8. \A s, t \in BusyIn(events') : events'[s].job = events'[t].job => s = t
      BY <2>5, <2>6, <2>7, ZenonT(30)
    <2>9. \A i \in DOMAIN jobs' : \A s \in BusyIn(events') : jobs'[i] # events'[s].job
      <3> SUFFICES ASSUME NEW i \in DOMAIN jobs', NEW s \in BusyIn(events'), jobs'[i] = events'[s].job
                   PROVE  FALSE
        BY Zenon
      <3>1. PICK k \in DOMAIN q : jobs'[i] = q[k]
        BY <2>2, Zenon
      <3>2. events'[s].job # Head(q)
        BY <2>2, Zenon
      <3>3. s \in BusyIn(events) /\ events'[s].job = events[s].job
        BY <2>5, <3>2, ZenonT(30)
      <3> QED BY <2>6, <3>1, <3>3, ZenonT(30)
    <2> QED BY <2>2, <2>8, <2>9, ZenonT(30) DEF Apart
  <1> QED BY <1>1, <1>2, Zenon

\* A recipe ends.
LEMMA KeptEnds ==
    ASSUME Alive, Kept, R!TypeOK, mkstate = "alive", NEW p \in Pid, NEW st \in R!Status, RecipeEnds(p, st)
    PROVE  Kept'
  <1>1. UNCHANGED <<jobs, events, calls>> /\ UNCHANGED <<nodeVars, mkVars, failed>> /\ procs[p] = "running"
    BY Zenon DEF RecipeEnds, R!ChildExits, R!queueVars, R!slotVars
  <1>2. /\ UNCHANGED <<g, opts, made, pc, ti, stack, did, runerrs, fake, job>>
        /\ Root' = Root /\ dry' = dry /\ Owner' = Owner
    BY <1>1, Zenon DEF nodeVars, mkVars, Root, dry, nflag, tflag, Owner
  <1>3. Placed' = Placed /\ Ending' = Ending
    BY <1>1, <1>2, ZenonT(30) DEF Placed, Ending
  <1>4. InMake => InMake'
    <2>1. Supported' = Supported /\ Owned' = Owned /\ Explored' = Explored
      BY <1>1, <1>2, ZenonT(30) DEF Supported, Owned, Explored
    <2>2. Failures' = Failures /\ Entered(g, made, stack)' = Entered(g, made, stack)
      BY <1>1, <1>2, Zenon DEF Failures
    <2> QED BY <2>1, <2>2, ZenonT(30) DEF InMake
  <1> QED BY <1>2, <1>3, <1>4, ZenonT(30) DEF Kept

\* waitup() finds that there is no child.
LEMMA KeptNoChild ==
    ASSUME Alive, Kept, SchedOK, SetFacts, mkstate' = "alive", MkNoChild
    PROVE  Kept'
  <1>1. Owner = {} /\ Owner' = {} /\ calls' = <<>>
    BY NoChildStep, ZenonT(30)
  <1>2. /\ pc' = (IF pc = "waitup" THEN "empty" ELSE pc) /\ calls # <<>>
        /\ UNCHANGED <<jobs, events, nodeVars, ti, stack, did, runerrs, fake, job, ghostVars>>
    BY Zenon DEF MkNoChild, R!NoChild, R!TopIs, R!queueVars, R!slotVars
  <1>3. UNCHANGED <<g, opts, made, failed>> /\ Root' = Root
    BY <1>2, ZenonT(30) DEF nodeVars, ghostVars, Root
  <1>4. pc \in {"waitup", "drain"} /\ pc # "start" /\ stack = <<>>
    BY <1>2, WaitingIs, ZenonT(30) DEF SchedOK
  <1>5. Explored /\ Ending
    BY <1>4, ZenonT(30) DEF Kept, InMake
  <1>6. Entered(g, made, stack')
    BY <1>2, <1>4, SMTT(30) DEF Entered
  <1>7. Explored'
    BY <1>2, <1>3, <1>4, <1>5, ZenonT(30) DEF Explored
  <1>8. Ending'
    BY <1>1, <1>2, <1>3, <1>4, <1>5, ZenonT(30) DEF Ending
  <1> QED BY <1>1, <1>2, <1>3, <1>4, <1>6, <1>7, <1>8, Same, ZenonT(30)

\* waitup() reaps a child: it is that of a job.
LEMMA KeptReap ==
    ASSUME Alive, Kept, SchedOK, mkstate' = "alive", NEW p \in Pid, MkReap(p)
    PROVE  Kept'
  <1>1. /\ Owner' = Owner /\ jobs' = jobs /\ calls # <<>> /\ calls[1].k = "wait" /\ Len(calls') = 1
        /\ \/ UNCHANGED <<events, calls>>
           \/ \E s \in R!pidslot(p) :
                 /\ events'[s].pid = NoPid /\ \A t \in R!Slot : t # s => events'[t] = events[t]
                 /\ calls'[1].k = "upd" /\ calls'[1].job = events[s].job
    BY ReapStep, Zenon DEF SchedOK
  <1>2. /\ UNCHANGED <<nodeVars, pc, ti, stack, did, job>>
        /\ failed' = IF procs[p] = "err" THEN failed \cup ({ti} \X JobOf(p).t) ELSE failed
        /\ fake' => procs[p] = "err" /\ runerrs' = runerrs + 1
        /\ runerrs' = runerrs \/ runerrs' = runerrs + 1
    BY ZenonT(30) DEF MkReap
  <1>3. UNCHANGED <<g, opts, made>> /\ Root' = Root /\ dry' = dry
    BY <1>2, ZenonT(30) DEF nodeVars, Root, dry, nflag, tflag
  <1>4. pc \in {"waitup", "drain"} /\ pc # "start" /\ stack = <<>> /\ runerrs \in Nat
    BY <1>1, WaitingIs, ZenonT(30) DEF SchedOK
  <1>5. failed \subseteq failed' /\ (runerrs # 0 => runerrs' # 0) /\ calls' # <<>> /\ calls[1].k # "upd"
    BY <1>1, <1>2, <1>4, SMTT(30)
  <1>6. Placed /\ InMake /\ Explored /\ Ending /\ Failures
    BY <1>4, ZenonT(30) DEF Kept, InMake
  <1>7. Entered(g, made, stack')
    BY <1>2, <1>4, SMTT(30) DEF Entered
  <1>8. Explored'
    BY <1>2, <1>3, <1>4, <1>6, ZenonT(30) DEF Explored
  <1>9. Ending'
    BY <1>1, <1>2, <1>3, <1>4, <1>5, <1>6, ZenonT(30) DEF Ending
  <1>10. CASE UNCHANGED <<events, calls>>
    BY <1>1, <1>2, <1>3, <1>4, <1>5, <1>7, <1>8, <1>9, <1>10, Same, ZenonT(30)
  <1>11. ASSUME NEW s \in R!pidslot(p), events'[s].pid = NoPid,
                \A t \in R!Slot : t # s => events'[t] = events[t],
                calls'[1].k = "upd", calls'[1].job = events[s].job
         PROVE  Kept'
    <2>1. s \in BusyIn(events) /\ events[s].pid = p /\ NoPid \notin Pid
      BY SchedulerAssumption, Zenon DEF R!pidslot, BusyIn
    <2>2. \A t \in BusyIn(events') : t # s /\ t \in BusyIn(events) /\ events'[t] = events[t]
      BY <1>11, <2>1, ZenonT(30) DEF BusyIn
    <2>3. Apart(jobs', events')
      <3>1. Apart(jobs, events)
        BY <1>6, Zenon DEF Placed
      <3>2. Apart(jobs, events')
        BY <2>2, <3>1, ZenonT(30) DEF Apart
      <3> QED BY <1>1, <3>2, ZenonT(30)
    <2>4. events[s].job \notin OwnersOf(jobs', events', <<>>)
      <3>1. events[s].job \notin Range(jobs)
        BY <1>6, <2>1, ZenonT(30) DEF Placed, Apart, Range
      <3>2. \A t \in BusyIn(events') : events'[t].job # events[s].job
        BY <1>6, <2>1, <2>2, ZenonT(30) DEF Placed, Apart
      <3>3. {i \in 1 .. Len(<<>>) : <<>>[i].k = "upd"} = {}
        OBVIOUS
      <3> QED BY <1>1, <3>1, <3>2, <3>3, ZenonT(30) DEF OwnersOf, BusyIn
    <2>5. Placed'
      BY <1>11, <2>3, <2>4, ZenonT(30) DEF Placed
    <2>6. JobOf(p) = job[events[s].job]
      <3>1. s \in R!Busy /\ \A t \in R!Slot : events[t].pid = p => t \in R!Busy /\ t = s
        BY <2>1, Zenon DEF SchedOK, R!SlotsAreChildren, R!Busy, BusyIn
      <3>2. s \in R!Slot /\ \A t \in R!Slot : events[t].pid = p => t = s
        BY <3>1, Zenon DEF R!Busy
      <3>3. (CHOOSE t \in R!Slot : events[t].pid = p) = s
        BY <2>1, <3>2, ZenonT(30)
      <3> QED BY <3>3, Zenon DEF JobOf
    <2>7. Failures'
      <3>1. \A m \in ReachOf(g, Root) :
               /\ "BEINGMADE" \in made[m] => <<ti, m>> \in failed' \/ \E j \in Owner : m \in job[j].t
               /\ made[m] = NOTMADE \cup BEINGMADE => PrereqsOf(g, m) = {}
        BY <1>5, <1>6, ZenonT(30) DEF Failures
      <3>2. fake' => \A m \in job[calls'[1].job].t : <<ti, m>> \in failed'
        <4>1. fake' => failed' = failed \cup ({ti} \X job[calls'[1].job].t)
          BY <1>2, <1>11, <2>6, ZenonT(30)
        <4> QED BY <4>1, ZenonT(30)
      <3> QED BY <1>1, <1>2, <1>3, <3>1, <3>2, ZenonT(30) DEF Failures
    <2>8. Supported' /\ Owned'
      BY <1>1, <1>2, <1>3, <1>6, ZenonT(30) DEF InMake, Supported, Owned
    <2> QED BY <1>2, <1>3, <1>7, <1>8, <1>9, <2>5, <2>7, <2>8, ZenonT(30) DEF Kept, InMake
  <1> QED BY <1>1, <1>10, <1>11, ZenonT(30)

\* waitup() has updated the targets of a job.
LEMMA KeptUpdate ==
    ASSUME Alive, Kept, SchedOK, SetFacts, mkstate' = "alive", MkEndUpdate
    PROVE  Kept'
  <1> DEFINE j == calls[1].job
             T == job[j].t
  <1>1. /\ Len(calls) = 1 /\ calls[1].k = "upd" /\ calls' = <<>> /\ R!SchedIfRoom(jobs)
        /\ Owner = OwnersOf(jobs, events, <<>>) \cup {j}
        /\ Owner' \subseteq OwnersOf(jobs, events, <<>>)
        /\ ~dry => OwnersOf(jobs, events, <<>>) \subseteq Owner'
        /\ \A m \in Node : made'[m] = IF m \in T THEN UpdatedFlags(fake) ELSE made[m]
    BY UpdateStep, Zenon DEF SchedOK
  <1>2. /\ pc' = (IF pc = "waitup" THEN "loop" ELSE pc) /\ calls # <<>> /\ mkstate = "alive"
        /\ UNCHANGED <<g, opts, ti, stack, did, runerrs, fake, job, ghostVars>>
    BY Zenon DEF MkEndUpdate, R!EndUpdate, R!TopIs
  <1>3. failed' = failed /\ Root' = Root /\ dry' = dry
    BY <1>2, ZenonT(30) DEF ghostVars, Root, dry, nflag, tflag
  <1>4. /\ pc \in {"waitup", "drain"} /\ pc # "start" /\ stack = <<>> /\ g \in Graphs /\ Root \in Node
        /\ ReachOf(g, Root) \subseteq Node /\ Root \in ReachOf(g, Root)
    BY <1>2, WaitingIs, Zenon DEF SchedOK
  <1>5. Placed /\ Supported /\ Owned /\ Failures /\ Ending /\ Types
    BY <1>4, ZenonT(30) DEF Kept, InMake, Alive
  <1>6. j \in Owner /\ ~dry
    BY <1>1, <1>5, ZenonT(30) DEF Owned
  <1>7. \A i : i \in Owner' <=> i \in Owner /\ i # j
    <2>1. j \notin OwnersOf(jobs, events, <<>>)
      BY <1>1, <1>2, <1>5, ZenonT(30) DEF Placed
    <2> QED BY <1>1, <1>6, <2>1, ZenonT(30)
  <1>8. \A m \in T : m \in ReachOf(g, Root) /\ m \in Node /\ made[m] = BEINGMADE /\ made'[m] = UpdatedFlags(fake)
    <2>1. \A m \in T : m \in ReachOf(g, Root) /\ made[m] = BEINGMADE
      BY <1>5, <1>6, ZenonT(30) DEF Owned
    <2> QED BY <1>1, <1>4, <2>1, ZenonT(30)
  <1>9. \A m \in Node : m \notin T => made'[m] = made[m]
    BY <1>1, Zenon
  <1>10. /\ UpdatedFlags(fake) \in {MADE, BEINGMADE} /\ (~fake => UpdatedFlags(fake) = MADE)
         /\ MADE # BEINGMADE /\ "NOTMADE" \notin BEINGMADE /\ "NOTMADE" \notin MADE
         /\ MADE # {} /\ BEINGMADE # {} /\ "BEINGMADE" \notin MADE /\ "BEINGMADE" \in BEINGMADE
         /\ MADE # NOTMADE \cup BEINGMADE /\ BEINGMADE # NOTMADE \cup BEINGMADE
    BY DEF UpdatedFlags, MADE, BEINGMADE, NOTMADE
  <1> HIDE DEF T
  <1>11. Supported'
    <2>1. \A m \in Node : made[m] = MADE => made'[m] = MADE
      BY <1>8, <1>9, <1>10, ZenonT(30)
    <2>2. ASSUME NEW m \in ReachOf(g, Root)
          PROVE  made'[m] # {} /\ ("NOTMADE" \notin made'[m] => \A p \in PrereqsOf(g, m) : made[p] = MADE)
      <3>1. CASE m \in T
        BY <1>5, <1>8, <1>10, <3>1, ZenonT(30) DEF Supported
      <3>2. CASE m \notin T
        BY <1>4, <1>5, <1>9, <3>2, ZenonT(30) DEF Supported
      <3> QED BY <3>1, <3>2, ZenonT(30)
    <2>3. \A m \in ReachOf(g, Root) : PrereqsOf(g, m) \subseteq Node
      BY <1>4, ReachIs, ZenonT(30)
    <2> QED BY <1>2, <1>3, <2>1, <2>2, <2>3, ZenonT(30) DEF Supported
  <1>12. Owned'
    <2>1. ASSUME NEW i \in Owner' PROVE job[i].t # {} /\ \A n \in job[i].t : n \in ReachOf(g, Root) /\ made'[n] = BEINGMADE
      <3>1. i \in Owner /\ i # j
        BY <1>7, Zenon
      <3>2. job[i].t # {} /\ \A n \in job[i].t : n \in ReachOf(g, Root) /\ made[n] = BEINGMADE
        BY <1>5, <3>1, ZenonT(30) DEF Owned
      <3>3. \A n \in job[i].t : n \notin T
        <4>1. job[i].t \cap T = {}
          BY <1>5, <1>6, <3>1, ZenonT(30) DEF Owned, T
        <4> QED BY <4>1, Zenon
      <3> QED BY <1>4, <1>9, <3>2, <3>3, ZenonT(30)
    <2>2. \A i, k \in Owner' : job[i].t \cap job[k].t # {} => i = k
      BY <1>5, <1>7, ZenonT(30) DEF Owned
    <2> QED BY <1>2, <1>3, <1>6, <2>1, <2>2, ZenonT(30) DEF Owned
  <1>13. Placed'
    <2>1. IsSeq(jobs) /\ R!TypeOK
      BY Zenon DEF SchedOK, R!TypeOK, IsSeq
    <2>2. Apart(jobs', events')
      BY <1>1, <1>2, <1>5, <2>1, ApartSched, ZenonT(30) DEF Placed
    <2> QED BY <1>1, <2>2, ZenonT(30) DEF Placed
  <1>14. Failures'
    <2>1. ASSUME NEW m \in ReachOf(g, Root), "BEINGMADE" \in made'[m]
          PROVE  <<ti, m>> \in failed \/ \E i \in Owner' : m \in job[i].t
      <3>1. CASE m \in T
        <4>1. fake
          BY <1>8, <1>10, <2>1, <3>1, ZenonT(30)
        <4> QED BY <1>1, <1>2, <1>5, <3>1, <4>1, ZenonT(30) DEF Failures, T
      <3>2. CASE m \notin T
        <4>1. "BEINGMADE" \in made[m]
          BY <1>4, <1>9, <2>1, <3>2, ZenonT(30)
        <4>2. <<ti, m>> \in failed \/ \E i \in Owner : m \in job[i].t
          BY <1>5, <4>1, ZenonT(30) DEF Failures
        <4> QED BY <1>7, <3>2, <4>2, ZenonT(30) DEF T
      <3> QED BY <3>1, <3>2, ZenonT(30)
    <2>2. ASSUME NEW m \in ReachOf(g, Root), made'[m] = NOTMADE \cup BEINGMADE
          PROVE  PrereqsOf(g, m) = {}
      <3>1. m \notin T
        BY <1>8, <1>10, <2>2, ZenonT(30)
      <3> QED BY <1>4, <1>5, <1>9, <2>2, <3>1, ZenonT(30) DEF Failures
    <2> QED BY <1>1, <1>2, <1>3, <2>1, <2>2, ZenonT(30) DEF Failures
  <1>15. Entered(g, made, stack)'
    BY <1>2, <1>4, SMTT(30) DEF Entered
  <1>16. pc' \in {"loop", "drain"} /\ (pc' = "drain" => pc = "drain")
    BY <1>2, <1>4, Zenon
  <1>17. Explored'
    BY <1>16, Zenon DEF Explored
  <1>18. Ending'
    <2> SUFFICES ASSUME pc = "drain" PROVE "NOTMADE" \notin made'[Root] /\ Owner' = {}
      BY <1>3, <1>16, ZenonT(30) DEF Ending
    <2>1. "NOTMADE" \notin made[Root]
      BY <1>5, <1>6, ZenonT(30) DEF Ending
    <2>2. "NOTMADE" \notin made'[Root]
      BY <1>4, <1>8, <1>9, <1>10, <2>1, ZenonT(30)
    <2>3. \A m \in ReachOf(g, Root) : m = Root \/ made[m] = MADE
      BY <1>4, <1>5, <2>1, Below, ZenonT(30)
    <2>4. ASSUME NEW i \in Owner PROVE Root \in job[i].t
      <3>1. PICK m \in job[i].t : m \in ReachOf(g, Root) /\ made[m] = BEINGMADE
        BY <1>5, Zenon DEF Owned
      <3> QED BY <1>10, <2>3, <3>1, ZenonT(30)
    <2>5. ASSUME NEW i \in Owner' PROVE FALSE
      <3>1. i \in Owner /\ i # j
        BY <1>7, ZenonT(30)
      <3>2. Root \in job[i].t /\ Root \in job[j].t
        BY <1>6, <2>4, <3>1, ZenonT(30)
      <3> QED BY <1>5, <1>6, <3>1, <3>2, ZenonT(30) DEF Owned
    <2> QED BY <2>2, <2>5, ZenonT(30)
  <1> QED BY <1>11, <1>12, <1>13, <1>14, <1>15, <1>17, <1>18, ZenonT(30) DEF Kept, InMake

\* With -n or -t a job is not queued and gets no child.
LEMMA DryRuns ==
    ASSUME SchedOK, SetFacts, dry, mkstate = "alive", mkstate' = "alive", calls = <<>>, calls' = calls,
           Owner = {}, NEW j, R!SchedIfRoom(Append(jobs, j))
    PROVE  Owner' = {}
  <1>1. jobs = <<>> /\ R!Busy = {}
    <2>1. Range(jobs) = {} /\ \A s \in R!Slot : events[s].pid \notin Pid
      BY ZenonT(30) DEF Owner, OwnersOf
    <2>2. IsSeq(jobs)
      BY Zenon DEF SchedOK, R!TypeOK, IsSeq
    <2>3. DOMAIN jobs = {}
      BY <2>1, Zenon DEF Range
    <2>4. jobs = <<>>
      <3>1. 1 .. Len(jobs) = {} /\ Len(jobs) \in Nat
        BY <2>2, <2>3, SeqIs, ZenonT(30)
      <3>2. Len(jobs) = 0
        BY <3>1
      <3> QED BY <2>2, <3>2, SeqIs, ZenonT(30)
    <2> QED BY <2>1, <2>4, ZenonT(30) DEF R!Busy
  <1>2. nrunning = 0 /\ R!nproclimit > 0
    <2>1. nrunning = 0
      BY <1>1, ZenonT(30) DEF SchedOK, R!CountIsSlots, SetFacts
    <2> QED BY <2>1, SchedulerAssumption, SMTT(30) DEF R!nproclimit
  <1>3. Append(jobs, j) = <<j>> /\ <<j>> # <<>> /\ Tail(<<j>>) = <<>>
    BY <1>1
  <1>4. R!Sched(<<j>>)
    BY <1>2, <1>3, ZenonT(30) DEF R!SchedIfRoom
  <1>5. jobs' = <<>> /\ R!FreeSlots # {} /\ events' = [events EXCEPT ![R!nextslot].job = Head(<<j>>)]
    BY <1>3, <1>4, ZenonT(30) DEF R!Sched
  <1>6. events \in [R!Slot -> [pid : Pid \cup {NoPid}, job : Job \cup {NoJob}]]
    BY Zenon DEF SchedOK, R!TypeOK
  <1>7. \A s \in R!Slot : events'[s].pid = events[s].pid
    <2>1. R!nextslot \in R!Slot
      BY <1>5, Zenon DEF SetFacts, R!FreeSlots
    <2> QED BY <1>5, <1>6, <2>1, ZenonT(30)
  <1>8. Range(<<>>) = {} /\ {i \in 1 .. Len(<<>>) : <<>>[i].k = "upd"} = {}
    BY DEF Range
  <1>9. \A s \in R!Slot : events'[s].pid \notin Pid
    BY <1>1, <1>7, ZenonT(30) DEF R!Busy
  <1> QED BY <1>5, <1>8, <1>9, ZenonT(30) DEF Owner, OwnersOf

\* The job is that of one node.
LEMMA OneTarget ==
    ASSUME Alive, SetFacts, Single, MustMake, master(top.node) # 0
    PROVE  /\ oldtargets(RuleOf(top.node)) \subseteq {top.node}
           /\ ~dry => oldtargets(RuleOf(top.node)) = {top.node}
  <1> DEFINE n == top.node
             r == RuleOf(n)
  <1>1. n \in Range(g.all[r]) /\ r \in DOMAIN g.all /\ (~dry => n \in oldtargets(r))
    BY MasterIs, ZenonT(30)
  <1>2. DOMAIN g.all[r] = 1 .. Len(g.all[r])
    <2>1. g \in Graphs
      BY Zenon DEF Alive, Types
    <2>2. g.all \in Seq(Seq(Node))
      BY <2>1, GraphsAssumption, ZenonT(30) DEF IsGraph
    <2>3. g.all[r] \in Seq(Node)
      <3> HIDE DEF r
      <3> QED BY <1>1, <2>2, SMTT(30)
    <2> HIDE DEF r
    <2> QED BY <2>3, SMTT(30)
  <1>3. \A m \in Range(g.all[r]) : m = n
    <2> HIDE DEF r
    <2>1. \A i, k \in DOMAIN g.all[r] : g.all[r][i] = g.all[r][k]
      BY <1>1, <1>2, ZenonT(30) DEF Single
    <2> QED BY <1>1, <2>1, ZenonT(30) DEF Range
  <1> QED BY <1>1, <1>3, ZenonT(30) DEF oldtargets

\* The queue with a new job.
LEMMA ApartAppend ==
    ASSUME NEW q, IsSeq(q), NEW ev, Apart(q, ev), NEW j, j \notin OwnersOf(q, ev, <<>>)
    PROVE  Apart(Append(q, j), ev)
  <1> DEFINE u == Append(q, j)
             l == Len(q) + 1
  <1>1. /\ IsSeq(u) /\ Len(u) = l /\ u[l] = j /\ (\A i \in 1 .. Len(q) : u[i] = q[i])
        /\ Len(q) \in Nat /\ DOMAIN q = 1 .. Len(q)
    BY AppendIs, SeqIs
  <1>2. DOMAIN u = 1 .. Len(u)
    BY <1>1, SeqIs, ZenonT(30)
  <1> HIDE DEF u
  <1>3. \A i \in DOMAIN u : i = l \/ i \in DOMAIN q
    BY <1>1, <1>2
  <1>4. \A i \in DOMAIN q : q[i] # j /\ u[i] = q[i]
    BY <1>1, Zenon DEF OwnersOf, Range
  <1>5. \A s \in BusyIn(ev) : ev[s].job # j
    BY Zenon DEF OwnersOf, BusyIn
  <1> HIDE DEF l
  <1>6. \A i, k \in DOMAIN u : u[i] = u[k] => i = k
    BY <1>1, <1>3, <1>4, ZenonT(30) DEF Apart
  <1>7. \A i \in DOMAIN u : \A s \in BusyIn(ev) : u[i] # ev[s].job
    <2>1. \A i \in DOMAIN q : \A s \in BusyIn(ev) : u[i] # ev[s].job
      BY <1>4, ZenonT(30) DEF Apart
    <2>2. \A s \in BusyIn(ev) : u[l] # ev[s].job
      BY <1>1, <1>5, ZenonT(30)
    <2> QED BY <1>3, <2>1, <2>2, ZenonT(30)
  <1> QED BY <1>6, <1>7, ZenonT(30) DEF Apart, u

\* work() creates a job.
LEMMA KeptRecipe ==
    ASSUME Alive, Kept, JobSeq, SchedOK, SetFacts, Single, mkstate = "alive", mkstate' = "alive", DoRecipe
    PROVE  Kept'
  <1> DEFINE n == top.node
             j == Len(job) + 1
             F == IF dry THEN MADE ELSE BEINGMADE
  <1>1. /\ Working /\ stack' = Pop(stack) /\ did' = TRUE /\ MustMake /\ master(n) # 0
        /\ R!SchedIfRoom(Append(jobs, j)) /\ IsSeq(Append(jobs, j))
        /\ top.ready /\ top.at = "arc" /\ top.i > Len(g.arcs[n])
        /\ made' = MADESET({n} \cup oldtargets(RuleOf(n)), F)
        /\ job'[j].t = oldtargets(RuleOf(n)) /\ Len(job) \in Nat
        /\ \A i \in 1 .. Len(job) : job'[i] = job[i]
        /\ ~dry => Owner' = Owner \cup {j}
        /\ UNCHANGED <<g, opts, pc, ti, calls>>
    BY RecipeStep, ZenonT(30) DEF SchedOK
  <1>2. failed' = failed /\ fake' = fake /\ Root' = Root /\ dry' = dry
    <2>1. failed' = failed /\ fake' = fake
      BY ZenonT(30) DEF DoRecipe, ghostVars
    <2> QED BY <1>1, <2>1, ZenonT(30) DEF Root, dry, nflag, tflag
  <1>3. /\ g \in Graphs /\ Root \in Node /\ stack \in Seq(WorkFrame) /\ stack # <<>>
        /\ top = stack[Len(stack)] /\ top \in WorkFrame /\ n \in Node /\ n \in ReachOf(g, Root)
        /\ pc = "work" /\ pc # "start" /\ calls = <<>> /\ made \in [Node -> Flags] /\ PathOK(g, Root, stack)
    BY <1>1, RunningIs, ZenonT(30) DEF Alive, Types
  <1>4. ReachOf(g, Root) \subseteq Node /\ \A m \in ReachOf(g, Root) : PrereqsOf(g, m) \subseteq ReachOf(g, Root)
    BY <1>3, ReachIs, ZenonT(30)
  <1>5. /\ made[n] = NOTMADE /\ \A p \in PrereqsOf(g, n) : made[p] = MADE
    <2>1. Visited(g, top) = PrereqsOf(g, n)
      BY <1>1, <1>3, AllVisited, ZenonT(30)
    <2>2. top.at # "enter"
      BY <1>1, ZenonT(30)
    <2> QED BY <1>1, <2>1, <2>2, RunningKept, ZenonT(30)
  <1>6. Placed /\ Supported /\ Owned /\ Failures /\ Entered(g, made, stack)
    BY <1>3, ZenonT(30) DEF Kept, InMake
  <1>7. oldtargets(RuleOf(n)) \subseteq {n} /\ (~dry => job'[j].t = {n})
    BY <1>1, OneTarget, ZenonT(30)
  <1>8. made'[n] = F /\ \A m \in Node : m # n => made'[m] = made[m]
    <2>1. {n} \cup oldtargets(RuleOf(n)) = {n}
      BY <1>7, ZenonT(30)
    <2>2. made' = MADESET({n}, F)
      BY <1>1, <2>1, ZenonT(30)
    <2> QED BY <1>3, <2>2, ZenonT(30) DEF MADESET
  <1>9. /\ F \in {MADE, BEINGMADE} /\ (dry => F = MADE) /\ (~dry => F = BEINGMADE)
        /\ MADE # NOTMADE /\ BEINGMADE # NOTMADE /\ "BEINGMADE" \notin NOTMADE
        /\ MADE # {} /\ BEINGMADE # {} /\ "BEINGMADE" \notin MADE
        /\ MADE # NOTMADE \cup BEINGMADE /\ BEINGMADE # NOTMADE \cup BEINGMADE
    BY DEF MADE, BEINGMADE, NOTMADE
  <1> HIDE DEF F
  <1>10. \A m \in Node : made[m] = MADE => m # n /\ made'[m] = MADE
    BY <1>5, <1>8, <1>9, ZenonT(30)
  <1>11. Owner \subseteq 1 .. Len(job) /\ j \notin 1 .. Len(job)
    <2>1. Owner \subseteq 1 .. Len(job)
      BY <1>1, ZenonT(30) DEF Alive, Covered
    <2>2. PICK l \in Nat : l = Len(job)
      BY <1>1, Zenon
    <2>3. l + 1 \notin 1 .. l
      OBVIOUS
    <2> QED BY <2>1, <2>2, <2>3, ZenonT(30)
  <1>12. dry => Owner = {} /\ Owner' = {}
    BY <1>1, <1>3, <1>6, DryRuns, ZenonT(30) DEF Owned
  <1> HIDE DEF j
  <1>13. ASSUME NEW i \in Owner PROVE job'[i] = job[i] /\ n \notin job[i].t /\ i # j
    BY <1>1, <1>5, <1>6, <1>9, <1>11, ZenonT(30) DEF Owned
  <1>14. Supported'
    <2> SUFFICES ASSUME NEW m \in ReachOf(g, Root)
                 PROVE  /\ made'[m] # {}
                        /\ "NOTMADE" \notin made'[m] => \A p \in PrereqsOf(g, m) : made[p] = MADE
      BY <1>1, <1>2, <1>4, <1>10, ZenonT(30) DEF Supported
    <2>1. CASE m = n
      BY <1>5, <1>8, <1>9, <2>1, ZenonT(30)
    <2>2. CASE m # n
      BY <1>4, <1>6, <1>8, <2>2, ZenonT(30) DEF Supported
    <2> QED BY <2>1, <2>2, ZenonT(30)
  <1>15. Owned'
    <2>1. CASE dry
      BY <1>12, <2>1, ZenonT(30) DEF Owned
    <2>2. CASE ~dry
      <3>1. \A i \in Owner' : i = j \/ i \in Owner
        BY <1>1, <2>2, ZenonT(30)
      <3>2. ASSUME NEW i \in Owner' PROVE job'[i].t # {} /\ \A m \in job'[i].t : m \in ReachOf(g, Root) /\ made'[m] = BEINGMADE
        <4>1. CASE i = j
          BY <1>3, <1>7, <1>8, <1>9, <2>2, <4>1, ZenonT(30)
        <4>2. CASE i \in Owner
          <5>1. job[i].t # {} /\ \A m \in job[i].t : m \in ReachOf(g, Root) /\ made[m] = BEINGMADE /\ m # n
            BY <1>6, <1>13, <4>2, ZenonT(30) DEF Owned
          <5> QED BY <1>4, <1>8, <1>13, <4>2, <5>1, ZenonT(30)
        <4> QED BY <3>1, <4>1, <4>2, ZenonT(30)
      <3>3. ASSUME NEW i \in Owner', NEW k \in Owner', job'[i].t \cap job'[k].t # {} PROVE i = k
        <4>1. CASE i \in Owner /\ k \in Owner
          BY <1>6, <1>13, <3>3, <4>1, ZenonT(30) DEF Owned
        <4>2. CASE i = j /\ k \in Owner
          BY <1>7, <1>13, <2>2, <3>3, <4>2, ZenonT(30)
        <4>3. CASE i \in Owner /\ k = j
          BY <1>7, <1>13, <2>2, <3>3, <4>3, ZenonT(30)
        <4> QED BY <3>1, <4>1, <4>2, <4>3, ZenonT(30)
      <3> QED BY <1>1, <1>2, <2>2, <3>2, <3>3, ZenonT(30) DEF Owned
    <2> QED BY <2>1, <2>2, Zenon
  <1>16. Placed'
    <2>1. IsSeq(jobs) /\ R!TypeOK
      BY Zenon DEF SchedOK, R!TypeOK, IsSeq
    <2>2. j \notin OwnersOf(jobs, events, <<>>)
      BY <1>3, <1>11, ZenonT(30) DEF Owner
    <2>3. Apart(Append(jobs, j), events)
      BY <1>6, <2>1, <2>2, ApartAppend, ZenonT(30) DEF Placed
    <2>4. Apart(jobs', events')
      BY <1>1, <2>1, <2>3, ApartSched, ZenonT(30)
    <2> QED BY <1>1, <1>3, <2>4, ZenonT(30) DEF Placed
  <1>17. Entered(g, made, stack)'
    <2>1. Entered(g, made', Pop(stack))
      BY <1>3, <1>6, <1>8, <1>10, EnteredPop, ZenonT(30)
    <2> QED BY <1>1, <2>1, ZenonT(30)
  <1>18. Failures'
    <2>1. ASSUME NEW m \in ReachOf(g, Root), "BEINGMADE" \in made'[m]
          PROVE  <<ti, m>> \in failed \/ \E i \in Owner' : m \in job'[i].t
      <3>1. CASE m = n
        BY <1>1, <1>7, <1>8, <1>9, <2>1, <3>1, ZenonT(30)
      <3>2. CASE m # n
        <4>1. "BEINGMADE" \in made[m]
          BY <1>4, <1>8, <2>1, <3>2, ZenonT(30)
        <4>2. <<ti, m>> \in failed \/ \E i \in Owner : m \in job[i].t
          BY <1>6, <4>1, ZenonT(30) DEF Failures
        <4> QED BY <1>1, <1>12, <1>13, <4>2, ZenonT(30)
      <3> QED BY <3>1, <3>2, ZenonT(30)
    <2>2. ASSUME NEW m \in ReachOf(g, Root), made'[m] = NOTMADE \cup BEINGMADE
          PROVE  PrereqsOf(g, m) = {}
      BY <1>4, <1>6, <1>8, <1>9, <2>2, ZenonT(30) DEF Failures
    <2> QED BY <1>1, <1>2, <1>3, <2>1, <2>2, ZenonT(30) DEF Failures
  <1>19. Explored' /\ Ending'
    BY <1>1, <1>3, ZenonT(30) DEF Explored, Ending
  <1> QED BY <1>14, <1>15, <1>16, <1>17, <1>18, <1>19, ZenonT(30) DEF Kept, InMake

=============================================================================
