--------------------------------- MODULE Mk ---------------------------------
(***************************************************************************)
(* The evaluation of a dependency graph by mk: mk() and work() of mk/mk.c, *)
(* dorecipe() of mk/recipe.c, and the scheduler of module MkRun, together  *)
(* with the recipes, which run concurrently and change the files.          *)
(*                                                                         *)
(* work() is a depth-first search that calls itself for every              *)
(* prerequisite.  `stack' holds its activations.  It decides from          *)
(* Node.time, which mk reads from the file system when it creates the node *)
(* and again, in update(), when a recipe for the node has ended.           *)
(*                                                                         *)
(* The graph is what graph() returned.  Names of archive members and arcs  *)
(* with a P program are left out, and so are the pretended nodes: iflag is *)
(* TRUE in every run of the program (mk/globals.c).                        *)
(***************************************************************************)
EXTENDS Integers, Sequences, FiniteSets, FiniteSetsExt, Functions

CONSTANTS
    N,          \* the number of nodes
    Graphs,     \* the graphs to evaluate
    Times,      \* the modification times a file may have when mk starts
    MaxClock,   \* bound: ticks of the clock of the file system
    WritesAll,  \* a recipe writes all the targets of its rule, not only $target
    MaxJobs,    \* bound: jobs created by one invocation of mk (TypeOK checks it)
    Pid, NoPid, NPROC

ASSUME NAssumption == N \in Nat \ {0}
ASSUME TimesAssumption == Times \subseteq Nat \ {0, 1} /\ MaxClock \in Nat
ASSUME MaxJobsAssumption == MaxJobs \in Nat
ASSUME WritesAllAssumption == WritesAll \in BOOLEAN
ASSUME SchedulerAssumption == NPROC \in Int /\ NoPid \notin Pid

Node == 1 .. N
nil == 0
Job == 1 .. MaxJobs
NoJob == 0

VARIABLES
    \* the scheduler (module MkRun)
    jobs, events, nrunning, procs, phead, calls, kflag, mkstate, nnote, order, started,
    \* the graph and its nodes
    g,          \* the graph, with the list of the targets to make
    opts,       \* the options of the command line, other than -k
    known,      \* the nodes newnode() has created
    time,       \* Node.time
    made,       \* Node.flags, restricted to NOTMADE, BEINGMADE and MADE
    next,       \* Node.next, which links the nodes of a job
    \* mk()
    pc,         \* where mk() is
    ti,         \* which of the targets it makes
    stack,      \* the activations of work()
    did, runerrs,
    fake,       \* the local of waitup(): the recipe has failed
    job,        \* the Job structures, by number
    \* the file system
    mtime,      \* modification time of the file of a node, 0 when there is none
    clock,
    \* history
    stale,      \* <<n, p>>: the file n was not made from what the file p contains
    changed,    \* per process: the files written since it started
    failed,     \* <<i, n>>: n could not be made in the i-th call of mk()
    needed      \* nodes whose recipe has to be run, computed from the initial files

schedVars == <<jobs, events, nrunning, procs, phead, calls, kflag, mkstate, nnote,
               order, started>>
nodeVars  == <<g, opts, known, time, made, next>>
mkVars    == <<pc, ti, stack, did, runerrs, fake, job>>
fileVars  == <<mtime, clock>>
ghostVars == <<stale, changed, failed, needed>>
vars == <<schedVars, nodeVars, mkVars, fileVars, ghostVars>>

nflag == "n" \in opts
tflag == "t" \in opts
aflag == "a" \in opts
dry == nflag \/ tflag

\* The scheduler.
R == INSTANCE MkRun WITH MaxNotes <- 0, MaxDepth <- 0

(***************************************************************************)
(* Graphs.  arcs[n] is the list of the arcs of n: an arc leads to a node   *)
(* or, for a rule without prerequisites, to nil, and carries its rule.     *)
(* all[r] lists the targets of rule r; recipe is the set of the rules that *)
(* have one; VIRTUAL, DELETE and NORECIPE are the nodes with that flag;    *)
(* options has the sets of options, of "a", "n" and "t", to evaluate it    *)
(* with.                                                                   *)
(* Nodes are numbered so that arcs lead to smaller numbers.                *)
(***************************************************************************)
IsGraph(x) ==
    /\ x.options \subseteq SUBSET {"a", "n", "t"} /\ x.targets \in Seq(Node)
    /\ x.all \in Seq(Seq(Node))
    /\ x.arcs \in [Node -> Seq([n : Node \cup {nil}, r : DOMAIN x.all])]
    /\ \A n \in Node : \A i \in 1 .. Len(x.arcs[n]) :
        /\ x.arcs[n][i].n \in 0 .. n - 1
        /\ \E k \in 1 .. Len(x.all[x.arcs[n][i].r]) : x.all[x.arcs[n][i].r][k] = n

ASSUME GraphsAssumption == \A x \in Graphs : IsGraph(x)

Arcs(n) == g.arcs[n]
Prereqs(n) == {Arcs(n)[i].n : i \in 1 .. Len(Arcs(n))} \ {nil}
Root == g.targets[ti]

\* The nodes graph(n) visits: the smallest set with n and the prerequisites of its nodes.
Reach(n) ==
    {m \in Node : \A S \in SUBSET Node :
                     n \in S /\ (\A x \in S : Prereqs(x) \subseteq S) => m \in S}

HasArcs(n) == Arcs(n) # <<>>
HasRecipe(n) == \E i \in 1 .. Len(Arcs(n)) : Arcs(n)[i].r \in g.recipe

\* Nodes that stand for their prerequisites: virtual ones, and those that have neither
\* a recipe nor a file.
Phantom == g.VIRTUAL \cup {n \in Node : HasArcs(n) /\ ~HasRecipe(n) /\ mtime[n] = 0}

\* The files a recipe for n is made from.
Inputs(n) ==
    LET inputs[m \in Node] == (Prereqs(m) \ Phantom) \cup
                              UNION {inputs[v] : v \in Prereqs(m) \cap Phantom}
    IN  inputs[n]

-----------------------------------------------------------------------------
(***************************************************************************)
(* Node times.                                                             *)
(***************************************************************************)
\* Broken: equal times are up to date.
Broken_outofdate(tm, n, p) == tm[n] < tm[p]

\* outofdate() on an arc from n to p, with the node times tm; equal times are out
\* of date.
outofdate(tm, n, p) == tm[n] <= tm[p]
OutOfDate(tm, n) == \E p \in Prereqs(n) : outofdate(tm, n, p)

\* Broken: a missing file has the time -1.
Broken_UpdatedTime(tm, n) == IF mtime[n] = 0 THEN -1 ELSE mtime[n]

\* Broken: the time is not read again.
Broken_UpdatedTimeKept(tm, n) == IF tm[n] = 0 THEN mtime[n] ELSE tm[n]

\* The time update() gives to n.  A virtual node, or one without a file, gets the
\* time of its most recent prerequisite.
UpdatedTime(tm, n) ==
    IF n \in g.VIRTUAL \/ mtime[n] = 0
    THEN Max({1} \cup {tm[p] : p \in Prereqs(n)})
    ELSE mtime[n]

Update(tm, n) == [m \in Node |-> IF m = n THEN UpdatedTime(tm, n) ELSE tm[m]]

NOTMADE == {"NOTMADE"}
BEINGMADE == {"BEINGMADE"}
MADE == {"MADE"}

\* Broken: a failed recipe counts as done.
Broken_UpdatedFlags(fk) == MADE

\* The flag update() gives to a node: with -k the targets of a failed recipe stay
\* BEINGMADE.
UpdatedFlags(fk) == IF fk THEN BEINGMADE ELSE MADE

\* MADESET: the three flags exclude each other, but for work() which adds BEINGMADE
\* to a node it cannot make.
MADESET(S, m) == [n \in Node |-> IF n \in S THEN m ELSE made[n]]

-----------------------------------------------------------------------------
(***************************************************************************)
(* History.  A file that exists was made from its inputs or from earlier   *)
(* versions of them: from earlier versions if it is older than the input,  *)
(* and possibly so if both were written in the same tick of the clock.     *)
(***************************************************************************)
Made == {e \in Node \X Node : /\ HasRecipe(e[1]) /\ e[2] \in Inputs(e[1])
                              /\ mtime[e[1]] # 0 /\ mtime[e[2]] # 0}
Older == {e \in Made : mtime[e[1]] < mtime[e[2]]}
Tied  == {e \in Made : mtime[e[1]] = mtime[e[2]]}

\* The nodes whose recipe has to be run, given the files at the start: those of a
\* virtual node, of a node without a file, of a node not newer than one of its inputs,
\* or with an input that has to be made itself.
Needed ==
    LET need[n \in Node] ==
            /\ HasRecipe(n)
            /\ \/ aflag
               \/ n \in g.VIRTUAL
               \/ mtime[n] = 0
               \/ \E p \in Inputs(n) : mtime[n] <= mtime[p] \/ need[p]
    IN  {n \in Node : need[n]}

Init ==
    /\ g \in Graphs
    /\ opts \in g.options
    /\ R!Init
    /\ known = {}
    /\ time = [n \in Node |-> 0]
    /\ made = [n \in Node |-> {}]
    /\ next = [n \in Node |-> nil]
    /\ pc = "start" /\ ti = 0
    /\ stack = <<>> /\ did = FALSE /\ runerrs = 0 /\ fake = FALSE /\ job = <<>>
    /\ mtime \in {m \in [Node -> Times \cup {0}] : \A v \in g.VIRTUAL : m[v] = 0}
    /\ clock = Max(Times)
    /\ stale \in {Older \cup S : S \in SUBSET Tied}
    /\ changed = [p \in Pid |-> {}]
    /\ failed = {}
    /\ needed = Needed

-----------------------------------------------------------------------------
(***************************************************************************)
(* work().                                                                 *)
(***************************************************************************)
Working == mkstate = "alive" /\ pc = "work" /\ stack # <<>>
top == stack[Len(stack)]
Return(s) == stack' = SubSeq(s, 1, Len(s) - 1)
SetTop(f) == stack' = [stack EXCEPT ![Len(stack)] = f]
Call(n) == [node |-> n, at |-> "enter", i |-> 1, ready |-> TRUE, weoutofdate |-> aflag]

\* A node that is being made, or made: return at once.
WorkSeen ==
    /\ Working /\ top.at = "enter"
    /\ made[top.node] \cap {"BEINGMADE", "MADE"} # {}
    /\ Return(stack)
    /\ UNCHANGED <<schedVars, nodeVars, pc, ti, did, runerrs, fake, job, fileVars, ghostVars>>

\* A leaf: the file exists, or mk does not know how to make it.
WorkLeaf ==
    /\ Working /\ top.at = "enter"
    /\ made[top.node] = NOTMADE
    /\ Arcs(top.node) = <<>>
    /\ \/ /\ time[top.node] # 0
          /\ made' = MADESET({top.node}, MADE)
          /\ Return(stack)
          /\ UNCHANGED <<schedVars, runerrs, failed>>
       \/ /\ time[top.node] = 0 /\ kflag
          /\ made' = [made EXCEPT ![top.node] = @ \cup BEINGMADE]
          /\ runerrs' = runerrs + 1
          /\ failed' = failed \cup {<<ti, top.node>>}
          /\ Return(stack)
          /\ UNCHANGED schedVars
       \/ /\ time[top.node] = 0 /\ ~kflag
          /\ R!Quit("exiting")
          /\ UNCHANGED <<made, stack, runerrs, failed>>
    /\ UNCHANGED <<g, opts, known, time, next, pc, ti, did, fake, job, fileVars,
                   stale, changed, needed>>

\* Broken: a node whose recipe is running is entered again.
Broken_WorkArc ==
    /\ Working /\ top.at \in {"enter", "arc"}
    /\ "MADE" \notin made[top.node] /\ top.i <= Len(Arcs(top.node))
    /\ LET p == Arcs(top.node)[top.i].n
       IN  stack' = IF p # nil
                    THEN Append([stack EXCEPT ![Len(stack)].at = "back"], Call(p))
                    ELSE [stack EXCEPT ![Len(stack)] = [@ EXCEPT !.at = "arc", !.i = @ + 1]]
    /\ UNCHANGED <<schedVars, nodeVars, pc, ti, did, runerrs, fake, job, fileVars, ghostVars>>

\* The loop over the arcs: call work() for the prerequisite of the next one, or
\* handle a rule without prerequisites.
WorkArc ==
    /\ Working
    /\ \/ top.at = "enter" /\ made[top.node] = NOTMADE /\ HasArcs(top.node)
       \/ top.at = "arc" /\ top.i <= Len(Arcs(top.node))
    /\ LET p == Arcs(top.node)[top.i].n
       IN  IF p # nil
           THEN stack' = Append([stack EXCEPT ![Len(stack)].at = "back"], Call(p))
           ELSE SetTop([top EXCEPT !.at = "arc", !.i = @ + 1,
                                   !.weoutofdate = @ \/ time[top.node] = 0])
    /\ UNCHANGED <<schedVars, nodeVars, pc, ti, did, runerrs, fake, job, fileVars, ghostVars>>

\* Broken: a prerequisite whose recipe is running counts as made.
Broken_WorkBack ==
    /\ Working /\ top.at = "back"
    /\ LET p == Arcs(top.node)[top.i].n
       IN  SetTop([top EXCEPT !.at = "arc", !.i = @ + 1,
                     !.ready = @ /\ "NOTMADE" \notin made[p],
                     !.weoutofdate = @ \/ outofdate(time, top.node, p)])
    /\ UNCHANGED <<schedVars, nodeVars, pc, ti, did, runerrs, fake, job, fileVars, ghostVars>>

\* Broken: nothing more is ready after an error.
Broken_WorkBackGivesUp ==
    /\ Working /\ top.at = "back"
    /\ LET p == Arcs(top.node)[top.i].n
       IN  SetTop([top EXCEPT !.at = "arc", !.i = @ + 1,
                     !.ready = @ /\ runerrs = 0 /\ made[p] \cap {"NOTMADE", "BEINGMADE"} = {},
                     !.weoutofdate = @ \/ outofdate(time, top.node, p)])
    /\ UNCHANGED <<schedVars, nodeVars, pc, ti, did, runerrs, fake, job, fileVars, ghostVars>>

\* Broken: the loop ends at the first prerequisite that is not made.
Broken_WorkBackStops ==
    /\ Working /\ top.at = "back"
    /\ LET p == Arcs(top.node)[top.i].n
           ok == made[p] \cap {"NOTMADE", "BEINGMADE"} = {}
       IN  SetTop([top EXCEPT !.at = "arc", !.i = IF ok THEN @ + 1 ELSE Len(Arcs(top.node)) + 1,
                     !.ready = @ /\ ok,
                     !.weoutofdate = @ \/ outofdate(time, top.node, p)])
    /\ UNCHANGED <<schedVars, nodeVars, pc, ti, did, runerrs, fake, job, fileVars, ghostVars>>

\* Back from that call.
WorkBack ==
    /\ Working /\ top.at = "back"
    /\ LET p == Arcs(top.node)[top.i].n
       IN  SetTop([top EXCEPT !.at = "arc", !.i = @ + 1,
                     !.ready = @ /\ made[p] \cap {"NOTMADE", "BEINGMADE"} = {},
                     !.weoutofdate = @ \/ outofdate(time, top.node, p)])
    /\ UNCHANGED <<schedVars, nodeVars, pc, ti, did, runerrs, fake, job, fileVars, ghostVars>>

AfterLoop == Working /\ top.at = "arc" /\ top.i > Len(Arcs(top.node))

\* A prerequisite is not made yet: try later.
WorkNotReady ==
    /\ AfterLoop /\ ~top.ready
    /\ Return(stack)
    /\ UNCHANGED <<schedVars, nodeVars, pc, ti, did, runerrs, fake, job, fileVars, ghostVars>>

WorkUpToDate ==
    /\ AfterLoop /\ top.ready /\ ~top.weoutofdate
    /\ made' = MADESET({top.node}, MADE)
    /\ Return(stack)
    /\ UNCHANGED <<schedVars, g, opts, known, time, next, pc, ti, did, runerrs, fake, job,
                   fileVars, ghostVars>>

-----------------------------------------------------------------------------
(***************************************************************************)
(* dorecipe(), at the end of work().                                       *)
(***************************************************************************)
MustMake == AfterLoop /\ top.ready /\ top.weoutofdate

\* The master rule is that of the last arc with a recipe; 0 when there is none.
master(n) == Max({0} \cup {i \in 1 .. Len(Arcs(n)) : Arcs(n)[i].r \in g.recipe})

Tick == clock' \in {clock, clock + 1} /\ clock' <= MaxClock

\* Broken: a missing file is not created.
Broken_Touch(S, T) ==
    mtime' = [n \in Node |-> IF tflag /\ ~nflag /\ n \in S \ g.VIRTUAL /\ mtime[n] # 0
                             THEN T[n] ELSE mtime[n]]

\* touch() the files of S, unless -n was given, at the times T.
Touch(S, T) ==
    mtime' = [n \in Node |-> IF tflag /\ ~nflag /\ n \in S \ g.VIRTUAL THEN T[n] ELSE mtime[n]]

\* No rule has a recipe: a virtual node or one with the N attribute is taken as made,
\* another one ends mk.
DoNoRecipe ==
    /\ MustMake /\ master(top.node) = 0
    /\ \/ /\ top.node \in g.VIRTUAL \cup g.NORECIPE
          /\ time' = Update(time, top.node)
          /\ made' = MADESET({top.node}, MADE)
          /\ Tick
          /\ Touch({top.node}, [n \in Node |-> clock'])
          /\ Return(stack)
          /\ UNCHANGED schedVars
       \/ /\ top.node \notin g.VIRTUAL \cup g.NORECIPE
          /\ R!Quit("exiting")
          /\ UNCHANGED <<time, made, stack, fileVars>>
    /\ UNCHANGED <<g, opts, known, next, pc, ti, did, runerrs, fake, job, ghostVars>>

\* $target: the targets of the rule that are nodes and are out of date.
oldtargets(r) ==
    {w \in Range(g.all[r]) \cap known : aflag \/ time[w] = 0 \/ OutOfDate(time, w)}

\* The node list of the job: n, followed by the other old targets of rule r.
LinkNodes(n, r, old) ==
    LET link[i \in 0 .. Len(g.all[r])] ==
            IF i = 0 THEN [next EXCEPT ![n] = nil]
            ELSE LET w == g.all[r][i]
                 IN  IF w \in old \ {n} THEN [link[i - 1] EXCEPT ![w] = link[i - 1][n], ![n] = w]
                     ELSE link[i - 1]
    IN  link[Len(g.all[r])]

\* The nodes on the list that starts at n.
NodeList(nx, n) ==
    LET upto[k \in 0 .. N] ==
            IF k = 0 THEN {n}
            ELSE upto[k - 1] \cup ({nx[m] : m \in upto[k - 1]} \ {nil})
    IN  upto[N]

\* Create the job and run() it.  With -n or -t sched() takes the nodes as made now.
DoRecipe ==
    /\ MustMake /\ master(top.node) # 0
    /\ LET n == top.node
           r == Arcs(n)[master(n)].r
           old == oldtargets(r)
           L == {n} \cup old
       IN  /\ next' = LinkNodes(n, r, old)
           /\ job' = Append(job, [r |-> r, n |-> n, t |-> old])
           /\ R!Run(Len(job) + 1)
           /\ IF dry
              THEN /\ made' = MADESET(L, MADE)
                   /\ Tick
                   /\ \E T, U \in [L -> {clock, clock'}] :
                        /\ \A m \in L : T[m] <= U[m]
                        /\ Touch(L, T)
                        /\ time' = [m \in Node |-> IF m \in L THEN U[m] ELSE time[m]]
              ELSE /\ made' = MADESET(L, BEINGMADE)
                   /\ UNCHANGED <<fileVars, time>>
    /\ did' = TRUE
    /\ Return(stack)
    /\ UNCHANGED <<g, opts, known, pc, ti, runerrs, fake, ghostVars>>

\* touch() fails on one of the files, after it has touched some of the others: Exit().
\* What dorecipe() has noted in the nodes and the queue by then is not looked at again.
TouchFails ==
    /\ MustMake /\ tflag /\ ~nflag
    /\ LET n == top.node
           L == IF master(n) = 0 THEN {n} \cap g.NORECIPE
                ELSE {n} \cup oldtargets(Arcs(n)[master(n)].r)
       IN  \E S \in SUBSET (L \ g.VIRTUAL) :
            /\ S # L \ g.VIRTUAL
            /\ IF S = {} THEN UNCHANGED clock ELSE Tick
            /\ Touch(S, [m \in Node |-> clock'])
    /\ R!Quit("exiting")
    /\ UNCHANGED <<nodeVars, mkVars, ghostVars>>

-----------------------------------------------------------------------------
(***************************************************************************)
(* mk(), called by main() for one target after the other.                  *)
(***************************************************************************)
InMk == mkstate = "alive" /\ calls = <<>>

\* graph() and clrmade(): new nodes get the time of their file, virtual nodes none.
MkStart ==
    /\ InMk /\ pc = "start" /\ ti < Len(g.targets)
    /\ ti' = ti + 1
    /\ LET S == Reach(g.targets[ti + 1])
       IN  /\ known' = known \cup S
           /\ time' = [n \in Node |-> IF n \in S \cap g.VIRTUAL THEN 0
                                      ELSE IF n \in S \ known THEN mtime[n]
                                      ELSE time[n]]
           /\ made' = MADESET(S, NOTMADE)
    /\ runerrs' = 0
    /\ pc' = "loop"
    /\ UNCHANGED <<schedVars, g, opts, next, stack, did, fake, job, fileVars, ghostVars>>

\* main() has made all targets.
MkExits ==
    /\ pc = "start" /\ ti = Len(g.targets)
    /\ R!Quit("dead")
    /\ UNCHANGED <<nodeVars, mkVars, fileVars, ghostVars>>

\* Broken: every round starts with clrmade().
Broken_MkLoop ==
    /\ InMk /\ pc = "loop"
    /\ IF "NOTMADE" \in made[Root]
       THEN did' = FALSE /\ stack' = <<Call(Root)>> /\ pc' = "work" /\ made' = MADESET(Reach(Root), NOTMADE)
       ELSE pc' = "after" /\ UNCHANGED <<did, stack, made>>
    /\ UNCHANGED <<schedVars, g, opts, known, time, next, ti, runerrs, fake, job, fileVars,
                   ghostVars>>

\* while(root->flags&NOTMADE) work(root, ...)
MkLoop ==
    /\ InMk /\ pc = "loop"
    /\ IF "NOTMADE" \in made[Root]
       THEN did' = FALSE /\ stack' = <<Call(Root)>> /\ pc' = "work"
       ELSE pc' = "after" /\ UNCHANGED <<did, stack>>
    /\ UNCHANGED <<schedVars, nodeVars, ti, runerrs, fake, job, fileVars, ghostVars>>

\* Broken: after an error mk() does not wait for what still runs.
Broken_MkWorked ==
    /\ InMk /\ pc = "work" /\ stack = <<>>
    /\ IF did \/ runerrs # 0
       THEN pc' = (IF did THEN "loop" ELSE "after") /\ UNCHANGED schedVars
       ELSE pc' = "waitup" /\ R!CallWaitup(TRUE)
    /\ UNCHANGED <<nodeVars, ti, stack, did, runerrs, fake, job, fileVars, ghostVars>>

\* work() returned: wait for a job unless it started one.
MkWorked ==
    /\ InMk /\ pc = "work" /\ stack = <<>>
    /\ IF did
       THEN pc' = "loop" /\ UNCHANGED schedVars
       ELSE pc' = "waitup" /\ R!CallWaitup(TRUE)
    /\ UNCHANGED <<nodeVars, ti, stack, did, runerrs, fake, job, fileVars, ghostVars>>

\* Broken: the loop goes on when there is nothing to wait for.
Broken_MkEmpty ==
    /\ InMk /\ pc = "empty" /\ pc' = "loop"
    /\ UNCHANGED <<schedVars, nodeVars, ti, stack, did, runerrs, fake, job, fileVars, ghostVars>>

\* waitup() found no children: assert(runerrs) and leave the loop, if root is not made.
MkEmpty ==
    /\ InMk /\ pc = "empty"
    /\ IF made[Root] \cap {"NOTMADE", "BEINGMADE"} = {}
       THEN pc' = "loop" /\ UNCHANGED schedVars
       ELSE IF runerrs # 0
       THEN pc' = "after" /\ UNCHANGED schedVars
       ELSE R!Quit("abort") /\ UNCHANGED pc
    /\ UNCHANGED <<nodeVars, ti, stack, did, runerrs, fake, job, fileVars, ghostVars>>

\* Broken: the job of the root is not waited for.
Broken_MkAfter ==
    /\ InMk /\ pc = "after" /\ pc' = "drain"
    /\ UNCHANGED <<schedVars, nodeVars, ti, stack, did, runerrs, fake, job, fileVars, ghostVars>>

\* After the loop: wait for the job of the root.
MkAfter ==
    /\ InMk /\ pc = "after"
    /\ pc' = "drain"
    /\ IF "BEINGMADE" \in made[Root] THEN R!CallWaitup(FALSE) ELSE UNCHANGED schedVars
    /\ UNCHANGED <<nodeVars, ti, stack, did, runerrs, fake, job, fileVars, ghostVars>>

\* while(jobs) waitup(...); assert(runerrs || root->flags&MADE).
MkDrain ==
    /\ InMk /\ pc = "drain"
    /\ IF jobs # <<>>
       THEN R!CallWaitup(FALSE) /\ UNCHANGED pc
       ELSE IF runerrs # 0 \/ "MADE" \in made[Root]
       THEN pc' = "return" /\ UNCHANGED schedVars
       ELSE R!Quit("abort") /\ UNCHANGED pc
    /\ UNCHANGED <<nodeVars, ti, stack, did, runerrs, fake, job, fileVars, ghostVars>>

MkReturn ==
    /\ InMk /\ pc = "return"
    /\ pc' = "start"
    /\ UNCHANGED <<schedVars, nodeVars, ti, stack, did, runerrs, fake, job, fileVars, ghostVars>>

-----------------------------------------------------------------------------
(***************************************************************************)
(* waitup(), and the recipes.                                              *)
(***************************************************************************)
JobOf(p) == job[events[CHOOSE s \in R!Slot : events[s].pid = p].job]

\* A job has ended.  If it failed, the nodes on its list that have the D attribute are
\* deleted, and with -k its targets will be left as BEINGMADE.
MkReap(p) ==
    /\ R!Reap(p)
    /\ LET j == JobOf(p)
           err == procs[p] = "err"
           del == IF err THEN NodeList(next, j.n) \cap g.DELETE ELSE {}
       IN  /\ fake' = (err /\ kflag)
           /\ runerrs' = IF err /\ kflag THEN runerrs + 1 ELSE runerrs
           /\ failed' = IF err THEN failed \cup ({ti} \X j.t) ELSE failed
           /\ mtime' = [n \in Node |-> IF n \in del THEN 0 ELSE mtime[n]]
           /\ stale' = {e \in stale : e[1] \notin del /\ e[2] \notin del}
    /\ UNCHANGED <<nodeVars, pc, ti, stack, did, job, clock, changed, needed>>

\* update() the nodes of S, all targets of rule r, one after the other.
UpdateAll(r, S) ==
    LET tm[i \in 0 .. Len(g.all[r])] ==
            IF i = 0 THEN time
            ELSE IF g.all[r][i] \in S THEN Update(tm[i - 1], g.all[r][i])
            ELSE tm[i - 1]
    IN  tm[Len(g.all[r])]

\* update() its targets, start another job and return JOB_ENDED.
MkEndUpdate ==
    /\ R!EndUpdate
    /\ LET j == job[R!Top.job]
       IN  /\ time' = UpdateAll(j.r, j.t)
           /\ made' = MADESET(j.t, UpdatedFlags(fake))
    /\ pc' = IF pc = "waitup" THEN "loop" ELSE pc
    /\ UNCHANGED <<g, opts, known, next, ti, stack, did, runerrs, fake, job, fileVars, ghostVars>>

MkNoChild ==
    /\ R!NoChild
    /\ pc' = IF pc = "waitup" THEN "empty" ELSE pc
    /\ UNCHANGED <<nodeVars, ti, stack, did, runerrs, fake, job, fileVars, ghostVars>>

\* Exit() waits for the children.
MkExit ==
    /\ (\E p \in Pid : R!ExitReap(p)) \/ R!ExitDone
    /\ UNCHANGED <<nodeVars, mkVars, fileVars, ghostVars>>

\* A recipe ends.  One that succeeds has written its targets from its inputs; one that
\* fails has left them alone, or left something else in them.
RecipeEnds(p, st) ==
    /\ R!ChildExits(p, st)
    /\ LET j == JobOf(p)
           targets == (IF WritesAll THEN Range(g.all[j.r]) ELSE j.t) \ g.VIRTUAL
       IN  \E W \in {targets} \cup (IF st = "err" THEN {{}} ELSE {}) :
            /\ IF W = {} THEN UNCHANGED clock ELSE Tick
            /\ mtime' = [n \in Node |-> IF n \in W THEN clock' ELSE mtime[n]]
            /\ stale' = {e \in stale : e[1] \notin W} \cup
                        {e \in W \X Node : e[2] \in Inputs(e[1]) /\ (st = "err" \/ e[2] \in changed[p])}
                        \cup {e \in Node \X W : e[2] \in Inputs(e[1]) /\ mtime[e[1]] # 0}
            /\ changed' = [q \in Pid |-> IF q = p \/ procs[q] # "running" THEN {}
                                         ELSE changed[q] \cup W]
    /\ UNCHANGED <<nodeVars, mkVars, failed, needed>>

-----------------------------------------------------------------------------
Work ==
    \/ WorkSeen \/ WorkLeaf \/ WorkArc \/ WorkBack \/ WorkNotReady \/ WorkUpToDate
    \/ DoNoRecipe \/ DoRecipe \/ TouchFails

MkStep ==
    \/ Work
    \/ MkStart \/ MkExits \/ MkLoop \/ MkWorked \/ MkEmpty \/ MkAfter \/ MkDrain \/ MkReturn
    \/ \E p \in Pid : MkReap(p)
    \/ MkEndUpdate \/ MkNoChild \/ MkExit

Next == MkStep \/ \E p \in Pid, st \in R!Status : RecipeEnds(p, st)

Spec == Init /\ [][Next]_vars

\* mk goes on unless it is blocked in xwaitfor(), and every recipe ends.
FairSpec ==
    /\ Spec
    /\ WF_vars(MkStep)
    /\ \A p \in Pid : WF_vars(\E st \in R!Status : RecipeEnds(p, st))

-----------------------------------------------------------------------------
(***************************************************************************)
(* Properties.                                                             *)
(***************************************************************************)
\* The type of every variable of this module.
TypeOK ==
    /\ R!TypeOK
    /\ IsGraph(g) /\ opts \in g.options /\ known \subseteq Node
    /\ time \in [Node -> Nat] /\ mtime \in [Node -> Nat] /\ clock \in Nat
    /\ made \in [Node -> SUBSET {"NOTMADE", "BEINGMADE", "MADE"}]
    /\ next \in [Node -> Node \cup {nil}]
    /\ pc \in {"start", "loop", "work", "waitup", "empty", "after", "drain", "return"}
    /\ ti \in Nat /\ did \in BOOLEAN /\ runerrs \in Nat /\ fake \in BOOLEAN
    /\ stack \in Seq([node : Node, at : {"enter", "arc", "back"}, i : Nat,
                      ready : BOOLEAN, weoutofdate : BOOLEAN])
    /\ job \in Seq([r : DOMAIN g.all, n : Node, t : SUBSET Node])
    /\ stale \subseteq Node \X Node /\ failed \subseteq Nat \X Node /\ needed \subseteq Node
    /\ changed \in [Pid -> SUBSET Node]

\* The jobs that are queued or running.
Active == Range(jobs) \cup {events[s].job : s \in R!Busy}

\* The recipe of a job is queued and runs only when every prerequisite of every node
\* on its list has been made: mk "executes the recipes in reverse order" (docs/mk.ms).
PrereqsMade ==
    mkstate = "alive" =>
        \A j \in Active : \A n \in job[j].t : \A p \in Prereqs(n) : made[p] = MADE

\* No two recipes that are queued or running have a target in common.
NoTwoWriters ==
    mkstate = "alive" =>
        \A j, k \in Active : job[j].t \cap job[k].t # {} => j = k

\* main() has returned, and nothing has failed.
Succeeded == mkstate = "dead" /\ pc = "start" /\ failed = {}

\* When mk has made all its targets without an error, no file it makes is out of date
\* in the sense that matters: each was made from the contents its inputs have now.
UpToDate ==
    Succeeded /\ ~dry =>
        \A n \in known \ g.VIRTUAL : HasRecipe(n) =>
            mtime[n] # 0 /\ \A p \in Inputs(n) : <<n, p>> \notin stale

\* mk runs the recipes it has to, and no other.
Remade == UNION {job[k].t : k \in 1 .. Len(job)}
MakesWhatIsNeeded == Succeeded => Remade = needed \cap known

\* After mk -t every file exists and is at least as recent as its inputs, if no target
\* has the N attribute.
TouchedInOrder ==
    Succeeded /\ tflag /\ ~nflag /\ g.NORECIPE = {} =>
        \A n \in known \ g.VIRTUAL : HasRecipe(n) =>
            mtime[n] # 0 /\ \A p \in Inputs(n) : mtime[n] >= mtime[p]

\* A file that does not exist is not taken as made ("a target is considered out of date
\* when it does not exist", docs/mk.ms), unless recipes are only announced (-n).
MadeFilesExist ==
    pc = "return" /\ ~nflag =>
        \A n \in Reach(Root) \ Phantom : made[n] = MADE => mtime[n] # 0

\* The assertions of mk() hold: it stops waiting only after an error, and it returns
\* only when its target is made or there was an error.
AssertsHold == mkstate # "abort"

\* The first of them, on any graph: mk() never finds that nothing runs and nothing can be
\* started while its target is unmade, unless there was an error.
NeverStuck == mkstate = "abort" => pc # "empty"

\* mk() leaves no recipe queued or running behind.
NothingLeftBehind == pc = "return" => Active = {}

\* With -k a target is given up only if it, or something it needs, could not be made.
KeepsGoing ==
    pc = "return" =>
        \A n \in Reach(Root) :
            made[n] = MADE \/ <<ti, n>> \in failed \/ \E p \in Prereqs(n) : made[p] # MADE

\* A node that is made stays so until the next call of mk().
MadeIsFinal ==
    [][pc # "start" => \A n \in Node : made[n] = MADE => made'[n] = MADE]_vars

\* mk() waits only when it can start nothing more ("When possible, mk executes recipes in
\* parallel", docs/mk.ms): each node below its target is made, or something it needs is
\* being made or could not be; and while a recipe is queued, all $NPROC slots are taken.
StartsAllItCan ==
    mkstate = "alive" /\ pc = "waitup" /\ calls[1].k = "wait" =>
        /\ \A n \in Reach(Root) :
              made[n] = MADE \/ \E b \in Reach(n) : "BEINGMADE" \in made[b]
        /\ jobs # <<>> => nrunning >= R!nproclimit

\* mk terminates.
Terminates == <>(mkstate \notin {"alive", "exiting"})
=============================================================================
