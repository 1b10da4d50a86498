------------------------------- MODULE MkRun -------------------------------
(***************************************************************************)
(* The job scheduler of mk: mk/run.c, with the process primitives it uses  *)
(* from mk/exec_fork.c and mk/goken.c.                                     *)
(*                                                                         *)
(* dorecipe() hands a job to run().  A job waits in the queue `jobs' until *)
(* sched() gives it one of the nproclimit slots of events[] and forks a    *)
(* shell for it.  waitup() reaps one child, frees its slot, has the nodes  *)
(* of the job updated and schedules the next job.                          *)
(*                                                                         *)
(* waitup() is reentrant.  Updating the nodes of a finished job may run a  *)
(* P-attribute program, which pcmp() waits for with a nested waitup(); that*)
(* call may reap other jobs, or the program an outer waitup() is waiting   *)
(* for.  An included program (<| in a mkfile) nests in the same way.  The  *)
(* variable `calls' is the stack of these activations.  Children that      *)
(* nobody waits for (the shells of backquoted commands) are reaped too and *)
(* recorded in phead.                                                      *)
(***************************************************************************)
EXTENDS Integers, Sequences, FiniteSets, Functions

CONSTANTS
    Job,        \* the jobs dorecipe() may create
    Pid,        \* process ids
    NoPid,      \* events[].pid when the slot is free, and "no pid wanted"
    NoJob,      \* events[].job before the slot was ever used
    NPROC,      \* the value of $NPROC, as atoi() read it
    MaxNotes,   \* bound: notes (interrupt, hangup) received
    MaxDepth    \* bound: nested activations of waitup()

ASSUME NPROCAssumption == NPROC \in Int
ASSUME NoPidAssumption == NoPid \notin Pid
ASSUME NoJobAssumption == NoJob \notin Job
ASSUME BoundAssumption == MaxNotes \in Nat /\ MaxDepth \in Nat

VARIABLES
    jobs,       \* the queue of jobs that have no slot yet
    events,     \* slot -> the pid running there and its job
    nrunning,   \* how many recipes are running
    procs,      \* the children, as the kernel knows them
    phead,      \* the list of reaped children that were not jobs
    calls,      \* the activations of waitup() and its callers, innermost last
    kflag,      \* -k was given, or killchildren() set it
    dry,        \* -n or -t was given: sched() forks nothing
    mkstate,    \* what has become of the mk process itself
    nnote,      \* notes received so far
    order,      \* history: the jobs given to run(), in order
    started     \* history: the jobs sched() took from the queue, in order

queueVars == <<jobs, order, started>>
slotVars  == <<events, nrunning>>
vars == <<queueVars, slotVars, procs, phead, calls, kflag, mkstate, nnote>>

(***************************************************************************)
(* nproc(): a missing, zero or negative $NPROC means one slot.             *)
(***************************************************************************)
nproclimit == IF NPROC < 1 THEN 1 ELSE NPROC
Slot == 0 .. nproclimit - 1

Status == {"ok", "err"}
ProcState == {"free", "running"} \cup Status

\* An activation.  "reading": the command was forked and mk parses its output;
\* "entry": at the head of waitup(); "wait": blocked in xwaitfor(); "upd": in the
\* loop that updates the targets of `job', with the call of sched() still to come.
\* want is the pid retstatus points to, ok is echildok, kill marks the loop of
\* killchildren().
Frame == [k : {"reading", "entry", "wait", "upd"}, want : Pid \cup {NoPid},
          job : Job \cup {NoJob}, ok : BOOLEAN, kill : BOOLEAN]

Top == calls[Len(calls)]
TopIs(k) == calls # <<>> /\ Top.k = k
SetTop(f) == calls' = [calls EXCEPT ![Len(calls)] = f]
Front(s) == SubSeq(s, 1, Len(s) - 1)

Busy == {s \in Slot : events[s].pid \in Pid}
Children == {p \in Pid : procs[p] # "free"}
Listed == {phead[i].pid : i \in 1 .. Len(phead)}

\* A pid the kernel may give to a new child.  It is not the pid of a child that
\* was not reaped yet, and it is assumed not to be one that phead still lists.
FreshPid == Pid \ (Children \cup Listed)

-----------------------------------------------------------------------------
Init ==
    /\ jobs = <<>> /\ order = <<>> /\ started = <<>>
    /\ events = [s \in Slot |-> [pid |-> NoPid, job |-> NoJob]]
    /\ nrunning = 0
    /\ procs = [p \in Pid |-> "free"]
    /\ phead = <<>>
    /\ calls = <<>>
    /\ kflag \in BOOLEAN /\ dry \in BOOLEAN
    /\ mkstate = "alive"
    /\ nnote = 0

-----------------------------------------------------------------------------
(***************************************************************************)
(* Scheduling.                                                             *)
(***************************************************************************)
\* nextslot(): the first free slot.
FreeSlots == Slot \ Busy
nextslot == CHOOSE s \in FreeSlots : \A t \in FreeSlots : s <= t

\* sched() on the queue q: the head of the queue gets a slot and a process.  The
\* assertion of nextslot() and a failing fork() end mk.
Sched(q) ==
    IF q = <<>>
    THEN jobs' = q /\ UNCHANGED <<started, slotVars, procs, mkstate>>
    ELSE /\ jobs' = Tail(q)
         /\ started' = Append(started, Head(q))
         /\ IF FreeSlots = {}
            THEN mkstate' = "noslot" /\ UNCHANGED <<slotVars, procs>>
            ELSE \/ /\ dry
                    /\ events' = [events EXCEPT ![nextslot].job = Head(q)]
                    /\ UNCHANGED <<nrunning, procs, mkstate>>
                 \/ /\ ~dry
                    /\ \E p \in FreshPid :
                        /\ procs' = [procs EXCEPT ![p] = "running"]
                        /\ events' = [events EXCEPT
                                        ![nextslot] = [pid |-> p, job |-> Head(q)]]
                    /\ nrunning' = nrunning + 1
                    /\ UNCHANGED mkstate
                 \/ /\ ~dry
                    /\ events' = [events EXCEPT ![nextslot].job = Head(q)]
                    /\ mkstate' = "exiting"
                    /\ UNCHANGED <<nrunning, procs>>

\* Broken: one job too many.
Broken_SchedIfRoom(q) ==
    IF nrunning <= nproclimit
    THEN Sched(q)
    ELSE jobs' = q /\ UNCHANGED <<started, slotVars, procs, mkstate>>

\* The code shared by run() and the end of waitup().
SchedIfRoom(q) ==
    IF nrunning < nproclimit
    THEN Sched(q)
    ELSE jobs' = q /\ UNCHANGED <<started, slotVars, procs, mkstate>>

\* Broken: the new job goes to the head of the queue.
Broken_Run(j) ==
    /\ mkstate = "alive" /\ calls = <<>>
    /\ j \notin Range(order)
    /\ order' = Append(order, j)
    /\ SchedIfRoom(<<j>> \o jobs)
    /\ UNCHANGED <<phead, calls, kflag, nnote>>

\* run(j): enqueue, and start a job if a slot is free.
Run(j) ==
    /\ mkstate = "alive" /\ calls = <<>>
    /\ j \notin Range(order)
    /\ order' = Append(order, j)
    /\ SchedIfRoom(Append(jobs, j))
    /\ UNCHANGED <<phead, calls, kflag, nnote>>

-----------------------------------------------------------------------------
(***************************************************************************)
(* Commands that mk runs besides recipes.                                  *)
(***************************************************************************)
MayRunCommand ==
    /\ mkstate = "alive"
    /\ Len(calls) < MaxDepth
    /\ calls # <<>> => Top.k \in {"reading", "upd"}

Fork(p) == p \in FreshPid /\ procs' = [procs EXCEPT ![p] = "running"]

\* pipecmd() for a P program (from work() or from update()) or for <|.
Pipecmd(p) ==
    /\ MayRunCommand
    /\ Fork(p)
    /\ calls' = Append(calls, [k |-> "reading", want |-> p, job |-> NoJob,
                               ok |-> FALSE, kill |-> FALSE])
    /\ UNCHANGED <<queueVars, slotVars, phead, kflag, mkstate, nnote>>

\* A backquoted command of the mkfile: execsh() forks a shell, reads its output
\* and never waits for it.  All parsing precedes the first job.
Bquote(p) ==
    /\ mkstate = "alive" /\ order = <<>>
    /\ calls # <<>> => Top.k = "reading"
    /\ Fork(p)
    /\ UNCHANGED <<queueVars, slotVars, phead, calls, kflag, mkstate, nnote>>

\* The caller of pipecmd() starts to wait for it.
StartWait ==
    /\ mkstate = "alive"
    /\ TopIs("reading")
    /\ SetTop([Top EXCEPT !.k = "entry"])
    /\ UNCHANGED <<queueVars, slotVars, procs, phead, kflag, mkstate, nnote>>

\* mk() calls waitup(): with EMPTY_CHILDREN_IS_OK (ok) or with IS_ERROR.
CallWaitup(ok) ==
    /\ mkstate = "alive" /\ calls = <<>>
    /\ calls' = <<[k |-> "wait", want |-> NoPid, job |-> NoJob,
                   ok |-> ok, kill |-> FALSE]>>
    /\ UNCHANGED <<queueVars, slotVars, procs, phead, kflag, mkstate, nnote>>

\* pipecmd() or execsh() cannot make a pipe or a process, or the command of a <|
\* failed: Exit().
ForkFails ==
    /\ MayRunCommand
    /\ mkstate' = "exiting"
    /\ UNCHANGED <<queueVars, slotVars, procs, phead, calls, kflag, nnote>>

-----------------------------------------------------------------------------
(***************************************************************************)
(* waitup().                                                               *)
(***************************************************************************)
\* Broken: phead is not looked at.
Broken_CheckPhead ==
    /\ mkstate = "alive"
    /\ TopIs("entry")
    /\ SetTop([Top EXCEPT !.k = "wait"])
    /\ UNCHANGED <<queueVars, slotVars, procs, phead, kflag, mkstate, nnote>>

pdelete(i) == phead' = SubSeq(phead, 1, i - 1) \o SubSeq(phead, i + 1, Len(phead))
pnew(p, status) == phead' = <<[pid |-> p, status |-> status]>> \o phead

\* A waitup() that wants a pid looks in phead first: pdelete() and return.
CheckPhead ==
    /\ mkstate = "alive"
    /\ TopIs("entry")
    /\ IF Top.want \in Listed
       THEN /\ \E i \in 1 .. Len(phead) :
                 /\ phead[i].pid = Top.want
                 /\ \A h \in 1 .. i - 1 : phead[h].pid # Top.want
                 /\ pdelete(i)
            /\ calls' = Front(calls)
       ELSE /\ SetTop([Top EXCEPT !.k = "wait"])
            /\ UNCHANGED phead
    /\ UNCHANGED <<queueVars, slotVars, procs, kflag, mkstate, nnote>>

pidslot(p) == {s \in Slot : events[s].pid = p}

\* xwaitfor() returned p, the pid this activation wants: waitup() returns.
ReapWanted(p) ==
    /\ p = Top.want
    /\ calls' = Front(calls)
    /\ UNCHANGED <<queueVars, slotVars, phead, mkstate>>

\* Broken: nrunning is not decremented for a failed recipe.
Broken_ReapJob(p) ==
    /\ p # Top.want
    /\ \E s \in pidslot(p) :
         /\ events' = [events EXCEPT ![s].pid = NoPid]
         /\ nrunning' = IF procs[p] = "err" THEN nrunning ELSE nrunning - 1
         /\ SetTop([Top EXCEPT !.k = "upd", !.job = events[s].job])
    /\ UNCHANGED <<queueVars, phead, mkstate>>

\* Broken: the slot is not freed.
Broken_ReapJobKeepsSlot(p) ==
    /\ p # Top.want
    /\ \E s \in pidslot(p) : SetTop([Top EXCEPT !.k = "upd", !.job = events[s].job])
    /\ nrunning' = nrunning - 1
    /\ UNCHANGED <<queueVars, events, phead, mkstate>>

\* It returned a job.  A failed recipe ends mk unless -k was given.
ReapJob(p) ==
    /\ p # Top.want
    /\ \E s \in pidslot(p) :
         /\ \A t \in pidslot(p) : s <= t
         /\ events' = [events EXCEPT ![s].pid = NoPid]
         /\ nrunning' = nrunning - 1
         /\ IF procs[p] = "err" /\ ~kflag
            THEN jobs' = <<>> /\ mkstate' = "exiting" /\ UNCHANGED calls
            ELSE /\ SetTop([Top EXCEPT !.k = "upd", !.job = events[s].job])
                 /\ UNCHANGED <<jobs, mkstate>>
    /\ UNCHANGED <<order, started, phead>>

\* Broken: the status is read after the child is gone.
Broken_ReapRogue(p) ==
    /\ p # Top.want
    /\ pidslot(p) = {}
    /\ pnew(p, procs'[p])
    /\ UNCHANGED <<queueVars, slotVars, calls, mkstate>>

\* It returned a process that has no slot: pnew(), and wait again.
ReapRogue(p) ==
    /\ p # Top.want
    /\ pidslot(p) = {}
    /\ pnew(p, procs[p])
    /\ UNCHANGED <<queueVars, slotVars, calls, mkstate>>

Reap(p) ==
    /\ mkstate = "alive"
    /\ TopIs("wait")
    /\ procs[p] \in Status
    /\ procs' = [procs EXCEPT ![p] = "free"]
    /\ ReapWanted(p) \/ ReapJob(p) \/ ReapRogue(p)
    /\ UNCHANGED <<kflag, nnote>>

\* Broken: waitup() waits again when there is no child.
Broken_NoChild ==
    /\ mkstate = "alive"
    /\ TopIs("wait")
    /\ Children = {}
    /\ Top.ok
    /\ calls' = Front(calls)
    /\ UNCHANGED <<queueVars, slotVars, procs, phead, kflag, mkstate, nnote>>

\* xwaitfor() found no child.
NoChild ==
    /\ mkstate = "alive"
    /\ TopIs("wait")
    /\ Children = {}
    /\ \/ Top.ok /\ ~Top.kill /\ calls' = Front(calls) /\ UNCHANGED mkstate
       \/ Top.ok /\ Top.kill /\ mkstate' = "exiting" /\ UNCHANGED calls
       \/ ~Top.ok /\ mkstate' = "nochild" /\ UNCHANGED calls
    /\ UNCHANGED <<queueVars, slotVars, procs, phead, kflag, nnote>>

\* Broken: no other job is started.
Broken_EndUpdate ==
    /\ mkstate = "alive"
    /\ TopIs("upd")
    /\ \/ Top.want \in Pid /\ SetTop([Top EXCEPT !.k = "entry", !.job = NoJob])
       \/ Top.want = NoPid /\ Top.kill /\ SetTop([Top EXCEPT !.k = "wait", !.job = NoJob])
       \/ Top.want = NoPid /\ ~Top.kill /\ calls' = Front(calls)
    /\ UNCHANGED <<queueVars, slotVars, procs, phead, kflag, mkstate, nnote>>

\* The targets of the job are updated: start another job, return JOB_ENDED.  pcmp()
\* and killchildren() call waitup() again, mk() goes on.
EndUpdate ==
    /\ mkstate = "alive"
    /\ TopIs("upd")
    /\ SchedIfRoom(jobs)
    /\ \/ Top.want \in Pid /\ SetTop([Top EXCEPT !.k = "entry", !.job = NoJob])
       \/ Top.want = NoPid /\ Top.kill /\ SetTop([Top EXCEPT !.k = "wait", !.job = NoJob])
       \/ Top.want = NoPid /\ ~Top.kill /\ calls' = Front(calls)
    /\ UNCHANGED <<order, phead, kflag, nnote>>

-----------------------------------------------------------------------------
(***************************************************************************)
(* The end of mk.                                                          *)
(***************************************************************************)
\* Broken: the queue is kept.
Broken_Killchildren ==
    /\ mkstate = "alive"
    /\ nnote < MaxNotes
    /\ nnote' = nnote + 1
    /\ kflag' = TRUE
    /\ calls' = Append(calls, [k |-> "wait", want |-> NoPid, job |-> NoJob,
                               ok |-> TRUE, kill |-> TRUE])
    /\ UNCHANGED <<queueVars, slotVars, procs, phead, mkstate>>

\* notifyf() -> killchildren(): forget the queue, then reap until no child is left.
\* The notes it posts go to processes of phead, which are gone.
Killchildren ==
    /\ mkstate = "alive"
    /\ nnote < MaxNotes
    /\ nnote' = nnote + 1
    /\ jobs' = <<>>
    /\ kflag' = TRUE
    /\ calls' = Append(calls, [k |-> "wait", want |-> NoPid, job |-> NoJob,
                               ok |-> TRUE, kill |-> TRUE])
    /\ UNCHANGED <<order, started, slotVars, procs, phead, mkstate>>

\* Exit() called by work() or dorecipe(), or main() returning with no job queued.
Quit(how) ==
    /\ mkstate = "alive" /\ calls = <<>>
    /\ how = "dead" => jobs = <<>>
    /\ mkstate' = how
    /\ UNCHANGED <<queueVars, slotVars, procs, phead, calls, kflag, nnote>>

\* Exit() waits for every child before it leaves.
ExitReap(p) ==
    /\ mkstate = "exiting"
    /\ procs[p] \in Status
    /\ procs' = [procs EXCEPT ![p] = "free"]
    /\ UNCHANGED <<queueVars, slotVars, phead, calls, kflag, mkstate, nnote>>

ExitDone ==
    /\ mkstate = "exiting"
    /\ Children = {}
    /\ mkstate' = "dead"
    /\ UNCHANGED <<queueVars, slotVars, procs, phead, calls, kflag, nnote>>

\* The environment: a child ends.
ChildExits(p, st) ==
    /\ procs[p] = "running"
    /\ procs' = [procs EXCEPT ![p] = st]
    /\ UNCHANGED <<queueVars, slotVars, phead, calls, kflag, mkstate, nnote>>

-----------------------------------------------------------------------------
Next ==
    \/ \E j \in Job : Run(j)
    \/ \E p \in Pid : Pipecmd(p) \/ Bquote(p) \/ Reap(p) \/ ExitReap(p)
    \/ \E ok \in BOOLEAN : CallWaitup(ok)
    \/ \E how \in {"exiting", "dead", "abort"} : Quit(how)
    \/ \E p \in Pid, st \in Status : ChildExits(p, st)
    \/ StartWait \/ ForkFails \/ CheckPhead \/ NoChild \/ EndUpdate
    \/ Killchildren \/ ExitDone

\* The options -n and -t do not change.
OptNext == Next /\ UNCHANGED dry
optVars == <<vars, dry>>

Spec == Init /\ [][OptNext]_optVars

\* Every child ends, and mk, a single thread that blocks only in xwaitfor(), takes
\* its enabled steps.  mk() comes back to waitup(), and the loop of an update() or
\* parse() that runs commands, at any depth d of the nesting, comes to its end: these
\* loops run over the arcs of a node and the lines of a file.
Fairness ==
    /\ \A p \in Pid : WF_vars(\E st \in Status : ChildExits(p, st))
    /\ \A p \in Pid : WF_vars(Reap(p)) /\ WF_vars(ExitReap(p))
    /\ WF_vars(NoChild) /\ WF_vars(CheckPhead) /\ WF_vars(ExitDone)
    /\ SF_vars(CallWaitup(TRUE))
    /\ \A d \in 1 .. MaxDepth : /\ SF_vars(Len(calls) = d /\ EndUpdate)
                               /\ SF_vars(Len(calls) = d /\ StartWait)

FairSpec == Spec /\ Fairness

-----------------------------------------------------------------------------
(***************************************************************************)
(* Properties.                                                             *)
(***************************************************************************)
\* The type of every variable.
TypeOK ==
    /\ jobs \in Seq(Job) /\ order \in Seq(Job) /\ started \in Seq(Job)
    /\ events \in [Slot -> [pid : Pid \cup {NoPid}, job : Job \cup {NoJob}]]
    /\ nrunning \in Int
    /\ procs \in [Pid -> ProcState]
    /\ phead \in Seq([pid : Pid, status : Status])
    /\ calls \in Seq(Frame)
    /\ kflag \in BOOLEAN /\ dry \in BOOLEAN
    /\ mkstate \in {"alive", "exiting", "dead", "abort", "noslot", "nochild"}
    /\ nnote \in Nat

\* nrunning, which run() and waitup() compare with nproclimit, is the number of slots
\* in use: no interleaving of nested waitup()s lets the count and the table drift.
CountIsSlots == nrunning = Cardinality(Busy)

\* The recipes that run at one time have different slots, hence a different $nproc,
\* and every slot in use belongs to a child that was not reaped yet: docs/mk.ms
\* says that $nproc can be used to create unique names.
SlotsAreChildren ==
    /\ mkstate = "alive" => \A s \in Busy : events[s].pid \in Children
    /\ \A s, t \in Busy : events[s].pid = events[t].pid => s = t

\* The assertion "out of slots!!" of nextslot() never fails.
NeverOutOfSlots == mkstate # "noslot"

\* Every job given to run() starts exactly once, first come first served, as long as
\* the queue was not dropped by an error or by killchildren().
FirstComeFirstServed ==
    mkstate = "alive" /\ nnote = 0 => order = started \o jobs

Updating == {i \in 1 .. Len(calls) : calls[i].k = "upd"}

\* No slot stays free while a job is queued, except the one slot for each waitup()
\* that has reaped a job and not yet come to its call of sched().
WorkConserving ==
    mkstate = "alive" /\ jobs # <<>> =>
        nproclimit - nrunning <= Cardinality(Updating)

\* A waitup() for one process, even if a nested waitup() reaps that process first,
\* always gets its status: it never ends mk with "mk wait" for want of children.
NeverStranded == mkstate = "nochild" => Top.want = NoPid

\* After killchildren() no recipe is started any more ("make sure no more get
\* scheduled", mk/run.c).
NothingStartsAfterKill == [][nnote > 0 => UNCHANGED started]_vars

\* Every job given to run() ends, unless mk itself is ended.
Ended(j) == j \in Range(started) /\ \A s \in Busy : events[s].job # j
EveryJobEnds ==
    \A j \in Job :
        j \in Range(order) ~> (Ended(j) \/ mkstate # "alive" \/ nnote > 0)

\* Every activation of waitup() returns, unless mk is ended: pcmp() gets its answer.
EveryWaitReturns == (calls # <<>>) ~> (calls = <<>> \/ mkstate # "alive")

=============================================================================
