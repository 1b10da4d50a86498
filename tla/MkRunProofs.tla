----------------------------- MODULE MkRunProofs -----------------------------
(***************************************************************************)
(* Proofs about the scheduler of mk, for every number of jobs, processes,  *)
(* slots, notes and nested commands.                                       *)
(***************************************************************************)
EXTENDS MkRun, TLAPS, FiniteSetTheorems, SequenceTheorems

-----------------------------------------------------------------------------
(***************************************************************************)
(* Sequences used as stacks and lists.                                     *)
(***************************************************************************)
\* Replacing the last element of a stack.
LEMMA TopSet ==
    ASSUME NEW S, NEW s \in Seq(S), s # <<>>, NEW e \in S
    PROVE  LET t == [s EXCEPT ![Len(s)] = e]
           IN  /\ t \in Seq(S) /\ t # <<>>
               /\ Len(t) = Len(s)
               /\ \A i \in 1 .. Len(s) : t[i] = IF i = Len(s) THEN e ELSE s[i]
  <1>1. Len(s) \in 1 .. Len(s)
    BY EmptySeq, LenProperties
  <1> QED
    BY <1>1, ExceptSeq, EmptySeq

\* Popping a stack.
LEMMA TopPop ==
    ASSUME NEW S, NEW s \in Seq(S), s # <<>>
    PROVE  /\ Front(s) \in Seq(S)
           /\ Len(Front(s)) = Len(s) - 1
           /\ Len(s) \in Nat \ {0}
           /\ \A i \in 1 .. Len(s) - 1 : Front(s)[i] = s[i]
           /\ s[Len(s)] \in S
  <1>1. Len(s) \in Nat \ {0}
    BY EmptySeq, Zenon
  <1>2. \A i \in 1 .. Len(s) : s[i] \in S
    BY ElementOfSeq, Zenon
  <1> DEFINE n == Len(s) - 1
  <1>3. n \in Nat /\ \A i \in 1 .. n : s[i] \in S
    BY <1>1, <1>2
  <1>4. Front(s) = SubSeq(s, 1, n)
    BY Zenon DEF Front
  <1>5. /\ Front(s) \in Seq(S)
        /\ Len(Front(s)) = n
        /\ \A i \in 1 .. n : Front(s)[i] = s[i]
    <2> HIDE DEF n
    <2>1. /\ SubSeq(s, 1, n) \in Seq(S)
          /\ Len(SubSeq(s, 1, n)) = IF 1 <= n THEN n - 1 + 1 ELSE 0
          /\ \A i \in 1 .. n - 1 + 1 : SubSeq(s, 1, n)[i] = s[1 + i - 1]
      BY <1>3, SubSeqProperties
    <2> QED BY <2>1, <1>3, <1>4
  <1> QED
    BY <1>1, <1>2, <1>5

\* What pdelete() leaves of a list.
RemoveAt(s, i) == SubSeq(s, 1, i - 1) \o SubSeq(s, i + 1, Len(s))

\* Deleting an element of a list.
LEMMA ListDelete ==
    ASSUME NEW S, NEW s \in Seq(S), NEW i \in 1 .. Len(s)
    PROVE  /\ RemoveAt(s, i) \in Seq(S)
           /\ Len(RemoveAt(s, i)) = Len(s) - 1
           /\ \A h \in 1 .. i - 1 : RemoveAt(s, i)[h] = s[h]
           /\ \A h \in i .. Len(s) - 1 : RemoveAt(s, i)[h] = s[h + 1]
  <1> DEFINE a == SubSeq(s, 1, i - 1)
             b == SubSeq(s, i + 1, Len(s))
  <1>1. Len(s) \in Nat /\ \A h \in 1 .. Len(s) : s[h] \in S
    BY ElementOfSeq, LenProperties, Zenon
  <1>2. /\ a \in Seq(S) /\ Len(a) = i - 1
        /\ \A h \in 1 .. i - 1 : a[h] = s[h]
    BY <1>1
  <1>3. /\ b \in Seq(S) /\ Len(b) = Len(s) - i
        /\ \A h \in 1 .. Len(s) - i : b[h] = s[i + h]
    BY <1>1
  <1>4. RemoveAt(s, i) = a \o b
    BY Zenon DEF RemoveAt
  <1> HIDE DEF a, b
  <1>5. /\ a \o b \in Seq(S) /\ Len(a \o b) = Len(a) + Len(b)
        /\ \A h \in 1 .. Len(a) + Len(b) :
             (a \o b)[h] = IF h <= Len(a) THEN a[h] ELSE b[h - Len(a)]
    BY <1>2, <1>3, ConcatProperties, Zenon
  <1>6. \A h \in 1 .. Len(s) - 1 : (a \o b)[h] = IF h <= i - 1 THEN s[h] ELSE s[h + 1]
    <2> SUFFICES ASSUME NEW h \in 1 .. Len(s) - 1
                 PROVE  (a \o b)[h] = IF h <= i - 1 THEN s[h] ELSE s[h + 1]
      BY Zenon
    <2>1. /\ h \in 1 .. Len(a) + Len(b) /\ Len(a) = i - 1
          /\ h <= i - 1 => h \in 1 .. i - 1
          /\ ~(h <= i - 1) => h - Len(a) \in 1 .. Len(s) - i /\ i + (h - Len(a)) = h + 1
      BY <1>1, <1>2, <1>3
    <2> QED BY <1>2, <1>3, <1>5, <2>1, Zenon
  <1> QED
    BY <1>1, <1>2, <1>3, <1>4, <1>5, <1>6

-----------------------------------------------------------------------------
(***************************************************************************)
(* Type correctness.                                                       *)
(***************************************************************************)
\* What a call of sched() on the queue q may do: nothing; fail the assertion of
\* nextslot(); announce the head of the queue; fork a shell p for it; fail to.
SchedIdle(q) == jobs' = q /\ UNCHANGED <<started, events, nrunning, procs, mkstate>>
SchedPops(q) == /\ q # <<>> /\ nrunning < nproclimit
                /\ jobs' = Tail(q) /\ started' = Append(started, Head(q))
SchedNoSlot(q) == /\ SchedPops(q) /\ FreeSlots = {} /\ mkstate' = "noslot"
                  /\ UNCHANGED <<events, nrunning, procs>>
SchedDry(q) == /\ SchedPops(q) /\ FreeSlots # {} /\ dry
               /\ events' = [events EXCEPT ![nextslot].job = Head(q)]
               /\ UNCHANGED <<nrunning, procs, mkstate>>
SchedForks(q, p) == /\ SchedPops(q) /\ FreeSlots # {} /\ ~dry /\ p \in FreshPid
                    /\ procs' = [procs EXCEPT ![p] = "running"]
                    /\ events' = [events EXCEPT ![nextslot] = [pid |-> p, job |-> Head(q)]]
                    /\ nrunning' = nrunning + 1
                    /\ UNCHANGED mkstate
SchedFails(q) == /\ SchedPops(q) /\ FreeSlots # {} /\ mkstate' = "exiting"
                 /\ events' = [events EXCEPT ![nextslot].job = Head(q)]
                 /\ UNCHANGED <<nrunning, procs>>

\* What sched() may do with the queue q.
LEMMA SchedCases ==
    ASSUME NEW q, SchedIfRoom(q)
    PROVE  \/ SchedIdle(q) /\ (q = <<>> \/ ~(nrunning < nproclimit))
           \/ SchedNoSlot(q) \/ SchedDry(q) \/ SchedFails(q)
           \/ \E p \in FreshPid : SchedForks(q, p)
  BY Zenon DEF SchedIfRoom, Sched, SchedIdle, SchedPops, SchedNoSlot, SchedDry, SchedForks,
       SchedFails, slotVars

\* sched() keeps the types of what it changes.
LEMMA SchedType ==
    ASSUME TypeOK, NEW q \in Seq(Job), SchedIfRoom(q)
    PROVE  /\ jobs' \in Seq(Job) /\ started' \in Seq(Job)
           /\ events' \in [Slot -> [pid : Pid \cup {NoPid}, job : Job \cup {NoJob}]]
           /\ nrunning' \in Int
           /\ procs' \in [Pid -> ProcState]
           /\ mkstate' \in {"alive", "exiting", "dead", "abort", "noslot", "nochild"}
  <1>1. q # <<>> => /\ Head(q) \in Job /\ Tail(q) \in Seq(Job)
                    /\ Append(started, Head(q)) \in Seq(Job)
    BY HeadTailProperties, AppendProperties, Zenon DEF TypeOK
  <1>2. CASE SchedIdle(q)
    BY <1>2, Zenon DEF SchedIdle, TypeOK
  <1>3. CASE SchedNoSlot(q)
    BY <1>1, <1>3, Zenon DEF SchedNoSlot, SchedPops, TypeOK
  <1>4. CASE SchedDry(q)
    BY <1>1, <1>4, Zenon DEF SchedDry, SchedPops, TypeOK
  <1>5. CASE SchedFails(q)
    BY <1>1, <1>5, Zenon DEF SchedFails, SchedPops, TypeOK
  <1>6. ASSUME NEW p \in FreshPid, SchedForks(q, p)
        PROVE  /\ jobs' \in Seq(Job) /\ started' \in Seq(Job)
               /\ events' \in [Slot -> [pid : Pid \cup {NoPid}, job : Job \cup {NoJob}]]
               /\ nrunning' \in Int
               /\ procs' \in [Pid -> ProcState]
               /\ mkstate' \in {"alive", "exiting", "dead", "abort", "noslot", "nochild"}
    <2>1. p \in Pid /\ "running" \in ProcState
      BY Zenon DEF FreshPid, ProcState
    <2>2. [pid |-> p, job |-> Head(q)] \in [pid : Pid \cup {NoPid}, job : Job \cup {NoJob}]
      BY <1>1, <1>6, <2>1, Zenon DEF SchedForks, SchedPops
    <2>3. jobs' \in Seq(Job) /\ started' \in Seq(Job)
      BY <1>1, <1>6, Zenon DEF SchedForks, SchedPops
    <2>4. events' \in [Slot -> [pid : Pid \cup {NoPid}, job : Job \cup {NoJob}]]
      BY <1>6, <2>2, Zenon DEF SchedForks, TypeOK
    <2>5. nrunning' \in Int /\ procs' \in [Pid -> ProcState]
      BY <1>6, <2>1 DEF SchedForks, TypeOK
    <2> QED
      BY <1>6, <2>3, <2>4, <2>5, Zenon DEF SchedForks, TypeOK
  <1> QED BY <1>2, <1>3, <1>4, <1>5, <1>6, SchedCases, Zenon

\* A step of the specification.
Step == [Next]_vars /\ dry' = dry

\* Every step is one.
LEMMA StepIs == [OptNext]_optVars => Step
  BY Zenon DEF Step, OptNext, optVars

\* Every step keeps the types.
LEMMA TypeStep == TypeOK /\ Step => TypeOK'
  <1> SUFFICES ASSUME TypeOK, [Next]_vars, dry' = dry PROVE TypeOK'
    BY Zenon DEF Step
  <1>0. calls # <<>> => /\ Top \in Frame /\ Front(calls) \in Seq(Frame)
                        /\ \A f \in Frame : [calls EXCEPT ![Len(calls)] = f] \in Seq(Frame)
    BY TopPop, TopSet, Zenon DEF TypeOK, Top
  <1>1. ASSUME NEW j \in Job, Run(j) PROVE TypeOK'
    <2>1. Append(jobs, j) \in Seq(Job) /\ Append(order, j) \in Seq(Job)
      BY AppendProperties, Zenon DEF TypeOK
    <2>2. SchedIfRoom(Append(jobs, j))
      BY <1>1, Zenon DEF Run
    <2> QED BY <1>1, <2>1, <2>2, SchedType, Zenon DEF TypeOK, Run
  <1>2. ASSUME NEW p \in Pid, Pipecmd(p) PROVE TypeOK'
    <2>1. [k |-> "reading", want |-> p, job |-> NoJob, ok |-> FALSE, kill |-> FALSE] \in Frame
      BY Zenon DEF Frame
    <2>2. calls' \in Seq(Frame)
      BY <1>2, <2>1, AppendProperties, Zenon DEF TypeOK, Pipecmd
    <2> QED BY <1>2, <2>2, Zenon DEF TypeOK, Pipecmd, Fork, ProcState, queueVars, slotVars
  <1>3. ASSUME NEW p \in Pid, Bquote(p) PROVE TypeOK'
    BY <1>3, Zenon DEF TypeOK, Bquote, Fork, ProcState, queueVars, slotVars
  <1>4. ASSUME NEW p \in Pid, Reap(p) PROVE TypeOK'
    <2>1. calls # <<>> /\ Top \in Frame /\ Front(calls) \in Seq(Frame)
      BY <1>0, <1>4, Zenon DEF Reap, TopIs
    <2>2. procs' \in [Pid -> ProcState] /\ procs[p] \in Status
      BY <1>4, Zenon DEF Reap, TypeOK, ProcState
    <2>3. CASE ReapWanted(p)
      BY <1>4, <2>1, <2>2, <2>3, Zenon DEF TypeOK, Reap, ReapWanted, queueVars, slotVars
    <2>4. CASE ReapJob(p)
      <3>1. PICK s \in pidslot(p) :
              /\ events' = [events EXCEPT ![s].pid = NoPid]
              /\ nrunning' = nrunning - 1
              /\ IF procs[p] = "err" /\ ~kflag
                 THEN jobs' = <<>> /\ mkstate' = "exiting" /\ UNCHANGED calls
                 ELSE /\ SetTop([Top EXCEPT !.k = "upd", !.job = events[s].job])
                      /\ UNCHANGED <<jobs, mkstate>>
        BY <2>4, Zenon DEF ReapJob
      <3>2. events[s].job \in Job \cup {NoJob}
        BY <3>1, Zenon DEF pidslot, TypeOK
      <3>3. [Top EXCEPT !.k = "upd", !.job = events[s].job] \in Frame
        BY <2>1, <3>2, Zenon DEF Frame
      <3>4. calls' \in Seq(Frame) /\ jobs' \in Seq(Job)
        <4>1. jobs \in Seq(Job) /\ calls \in Seq(Frame) /\ <<>> \in Seq(Job)
          BY DEF TypeOK
        <4>2. CASE procs[p] = "err" /\ ~kflag
          BY <3>1, <4>1, <4>2, Zenon
        <4>3. CASE ~(procs[p] = "err" /\ ~kflag)
          BY <1>0, <2>1, <3>1, <3>3, <4>1, <4>3, Zenon DEF SetTop
        <4> QED BY <4>2, <4>3, Zenon
      <3>5. events' \in [Slot -> [pid : Pid \cup {NoPid}, job : Job \cup {NoJob}]]
        BY <3>1, Zenon DEF TypeOK, pidslot
      <3>6. nrunning' \in Int /\ mkstate' \in {"alive", "exiting", "dead", "abort", "noslot", "nochild"}
        BY <3>1 DEF TypeOK
      <3> QED BY <1>4, <2>2, <2>4, <3>4, <3>5, <3>6, Zenon DEF TypeOK, Reap, ReapJob
    <2>5. CASE ReapRogue(p)
      <3>1. <<[pid |-> p, status |-> procs[p]]>> \o phead \in Seq([pid : Pid, status : Status])
        BY <2>2 DEF TypeOK
      <3> QED BY <1>4, <2>2, <2>5, <3>1, Zenon DEF TypeOK, Reap, ReapRogue, pnew, queueVars, slotVars
    <2> QED BY <1>4, <2>3, <2>4, <2>5, Zenon DEF Reap
  <1>5. ASSUME NEW p \in Pid, ExitReap(p) PROVE TypeOK'
    BY <1>5, Zenon DEF TypeOK, ExitReap, ProcState, queueVars, slotVars
  <1>6. ASSUME NEW ok \in BOOLEAN, CallWaitup(ok) PROVE TypeOK'
    <2>1. [k |-> "wait", want |-> NoPid, job |-> NoJob, ok |-> ok, kill |-> FALSE] \in Frame
      BY Zenon DEF Frame
    <2>2. calls' \in Seq(Frame)
      BY <1>6, <2>1 DEF CallWaitup
    <2> QED BY <1>6, <2>2, Zenon DEF TypeOK, CallWaitup, queueVars, slotVars
  <1>7. ASSUME NEW how \in {"exiting", "dead", "abort"}, Quit(how) PROVE TypeOK'
    BY <1>7, Zenon DEF TypeOK, Quit, queueVars, slotVars
  <1>8. ASSUME NEW p \in Pid, NEW st \in Status, ChildExits(p, st) PROVE TypeOK'
    BY <1>8, Zenon DEF TypeOK, ChildExits, ProcState, queueVars, slotVars
  <1>9. CASE StartWait
    <2>1. [Top EXCEPT !.k = "entry"] \in Frame
      BY <1>0, <1>9, Zenon DEF StartWait, TopIs, Frame
    <2>2. calls' \in Seq(Frame)
      BY <1>0, <1>9, <2>1, Zenon DEF StartWait, TopIs, SetTop
    <2> QED BY <1>9, <2>2, Zenon DEF TypeOK, StartWait, queueVars, slotVars
  <1>10. CASE ForkFails
    BY <1>10, Zenon DEF TypeOK, ForkFails, queueVars, slotVars
  <1>11. CASE CheckPhead
    <2>1. [Top EXCEPT !.k = "wait"] \in Frame
      BY <1>0, <1>11, Zenon DEF CheckPhead, TopIs, Frame
    <2>2. calls' \in Seq(Frame)
      BY <1>0, <1>11, <2>1, Zenon DEF CheckPhead, TopIs, SetTop
    <2>3. phead' \in Seq([pid : Pid, status : Status])
      <3>1. phead' = phead \/ \E i \in 1 .. Len(phead) : phead' = RemoveAt(phead, i)
        BY <1>11, Zenon DEF CheckPhead, pdelete, RemoveAt
      <3>2. phead \in Seq([pid : Pid, status : Status])
        BY Zenon DEF TypeOK
      <3>3. ASSUME NEW i \in 1 .. Len(phead)
            PROVE  RemoveAt(phead, i) \in Seq([pid : Pid, status : Status])
        BY <3>2, ListDelete, Zenon
      <3> QED BY <3>1, <3>2, <3>3, Zenon
    <2> QED BY <1>11, <2>2, <2>3, Zenon DEF TypeOK, CheckPhead, queueVars, slotVars
  <1>12. CASE NoChild
    BY <1>0, <1>12, Zenon DEF TypeOK, NoChild, TopIs, queueVars, slotVars
  <1>13. CASE EndUpdate
    <2>1. calls # <<>> /\ Top \in Frame /\ SchedIfRoom(jobs) /\ jobs \in Seq(Job)
      BY <1>0, <1>13, Zenon DEF EndUpdate, TopIs, TypeOK
    <2>2. /\ [Top EXCEPT !.k = "entry", !.job = NoJob] \in Frame
          /\ [Top EXCEPT !.k = "wait", !.job = NoJob] \in Frame
      BY <2>1, Zenon DEF Frame
    <2>3. calls' \in Seq(Frame)
      BY <1>0, <1>13, <2>1, <2>2, Zenon DEF EndUpdate, SetTop
    <2> QED BY <1>13, <2>1, <2>3, SchedType, Zenon DEF TypeOK, EndUpdate
  <1>14. CASE Killchildren
    <2>1. [k |-> "wait", want |-> NoPid, job |-> NoJob, ok |-> TRUE, kill |-> TRUE] \in Frame
      BY Zenon DEF Frame
    <2>2. calls' \in Seq(Frame)
      BY <1>14, <2>1, AppendProperties DEF TypeOK, Killchildren
    <2> QED BY <1>14, <2>2 DEF TypeOK, Killchildren, slotVars
  <1>15. CASE ExitDone
    BY <1>15, Zenon DEF TypeOK, ExitDone, queueVars, slotVars
  <1>16. CASE UNCHANGED vars
    BY <1>16, Zenon DEF TypeOK, vars, queueVars, slotVars
  <1> QED
    BY <1>1, <1>2, <1>3, <1>4, <1>5, <1>6, <1>7, <1>8, <1>9, <1>10, <1>11, <1>12,
       <1>13, <1>14, <1>15, <1>16, Zenon DEF Next

\* The initial state has the types.
LEMMA TypeInit == Init => TypeOK
  BY DEF Init, TypeOK, ProcState

\* The scheduler of mk/run.c keeps the type of its queue, slots, lists and stack,
\* whatever jobs, commands, notes and failures it meets.
THEOREM TypeCorrect == Spec => []TypeOK
  BY TypeInit, TypeStep, StepIs, PTL DEF Spec

-----------------------------------------------------------------------------
(***************************************************************************)
(* The table of slots.                                                     *)
(***************************************************************************)
\* A set of natural numbers has a smallest element.
LEMMA SmallestElement ==
    ASSUME NEW T \in SUBSET Nat, T # {}
    PROVE  \E x \in T : \A y \in T : x <= y
  <1>1. PICK x \in T : \A y \in T : ~(<<y, x>> \in OpToRel(<, Nat))
    BY NatLessThanWellFounded, WFMin, Zenon
  <1>2. \A y \in T : ~(y < x)
    BY <1>1, Zenon DEF OpToRel
  <1> QED BY <1>2

\* The slots are nproclimit in number, and so are the busy and the free ones together.
LEMMA SlotCount ==
    /\ nproclimit \in Nat \ {0}
    /\ Slot \subseteq Nat
    /\ IsFiniteSet(Slot) /\ Cardinality(Slot) = nproclimit
    /\ IsFiniteSet(Busy) /\ Cardinality(Busy) \in Nat /\ Cardinality(Busy) <= nproclimit
  <1>1. nproclimit \in Nat \ {0}
    BY NPROCAssumption DEF nproclimit
  <1>2. IsFiniteSet(Slot) /\ Cardinality(Slot) = nproclimit
    BY <1>1, FS_Interval DEF Slot
  <1>3. Busy \in SUBSET Slot
    BY Zenon DEF Busy
  <1>4. IsFiniteSet(Busy) /\ Cardinality(Busy) <= Cardinality(Slot)
    BY <1>2, <1>3, FS_Subset, Zenon
  <1>5. Cardinality(Busy) \in Nat
    BY <1>4, FS_CardinalityType, Zenon
  <1> QED BY <1>1, <1>2, <1>4, <1>5 DEF Slot

\* nextslot() finds a free slot if there is one.
LEMMA NextslotIsFree == FreeSlots # {} => nextslot \in FreeSlots
  <1>1. FreeSlots \in SUBSET Nat
    BY SlotCount, Zenon DEF FreeSlots
  <1> QED BY <1>1, SmallestElement, Zenon DEF nextslot

\* run() and waitup() compare nrunning with nproclimit: that there is room means that
\* there is a slot.
LEMMA RoomIsSlot == CountIsSlots /\ nrunning < nproclimit => FreeSlots # {}
  <1>1. FreeSlots = {} => Busy = Slot
    BY Zenon DEF FreeSlots, Busy
  <1> QED BY <1>1, SlotCount DEF CountIsSlots

\* Taking a free slot adds one to the count, and freeing a busy one subtracts one.
LEMMA TakeSlot ==
    ASSUME NEW s \in Slot, s \notin Busy, Busy' = Busy \cup {s}, CountIsSlots,
           nrunning' = nrunning + 1
    PROVE  CountIsSlots'
  BY SlotCount, FS_AddElement, Zenon DEF CountIsSlots

\* The slot of a process that has exited is free again.
LEMMA FreeSlot ==
    ASSUME NEW s \in Busy, Busy' = Busy \ {s}, CountIsSlots, nrunning' = nrunning - 1
    PROVE  CountIsSlots'
  BY SlotCount, FS_RemoveElement, Zenon DEF CountIsSlots

\* The activation of waitup() that waits for the process w, or will do so, finds it:
\* it is a child, or in the list of those that were reaped, and it is no job.
Awaited(w) == w \in Children \cup Listed /\ \A s \in Slot : events[s].pid # w

\* Every process a waitup() waits for is awaited, by one activation only.
WaitersFindTheirs ==
    mkstate = "alive" =>
        /\ \A i \in 1 .. Len(calls) : calls[i].want \in Pid => Awaited(calls[i].want)
        /\ \A i, h \in 1 .. Len(calls) :
             calls[i].want \in Pid /\ calls[i].want = calls[h].want => i = h

\* The inductive invariant behind the properties of the slots.
SlotInv == TypeOK /\ CountIsSlots /\ SlotsAreChildren /\ NeverOutOfSlots /\ WaitersFindTheirs

\* sched() keeps the table of slots in order.
LEMMA SchedSlots ==
    ASSUME TypeOK, CountIsSlots, SlotsAreChildren, mkstate = "alive",
           NEW q \in Seq(Job), SchedIfRoom(q), UNCHANGED phead
    PROVE  /\ CountIsSlots' /\ SlotsAreChildren' /\ NeverOutOfSlots'
           /\ \A w \in Pid : Awaited(w) => Awaited(w)'
  <1>1. CASE SchedIdle(q)
    BY <1>1, Zenon DEF SchedIdle, CountIsSlots, SlotsAreChildren, NeverOutOfSlots, Busy, Children,
                Awaited, Listed
  <1>2. CASE SchedNoSlot(q)
    BY <1>2, RoomIsSlot, Zenon DEF SchedNoSlot, SchedPops
  <1>3. CASE SchedDry(q) \/ SchedFails(q)
    <2>1. \A s \in Slot : events'[s].pid = events[s].pid
      BY <1>3, ZenonT(30) DEF SchedDry, SchedFails, TypeOK
    <2>2. Busy' = Busy /\ Children' = Children /\ Listed' = Listed /\ nrunning' = nrunning
      BY <1>3, <2>1, Zenon DEF SchedDry, SchedFails, Busy, Children, Listed
    <2>3. mkstate' \in {"alive", "exiting"}
      BY <1>3, Zenon DEF SchedDry, SchedFails
    <2>4. \A s \in Busy : s \in Slot
      BY Zenon DEF Busy
    <2> QED BY <2>1, <2>2, <2>3, <2>4 DEF CountIsSlots, SlotsAreChildren, NeverOutOfSlots, Awaited
  <1>4. ASSUME NEW p \in FreshPid, SchedForks(q, p)
        PROVE  /\ CountIsSlots' /\ SlotsAreChildren' /\ NeverOutOfSlots'
               /\ \A w \in Pid : Awaited(w) => Awaited(w)'
    <2>1. nextslot \in Slot /\ nextslot \notin Busy
      BY <1>4, NextslotIsFree, Zenon DEF SchedForks, FreeSlots
    <2>2. /\ events'[nextslot].pid = p
          /\ \A s \in Slot : s # nextslot => events'[s] = events[s]
      BY <1>4, <2>1, Zenon DEF SchedForks, TypeOK
    <2>3. p \in Pid /\ p \notin Children /\ p \notin Listed
      BY Zenon DEF FreshPid
    <2>4. Busy' = Busy \cup {nextslot}
      BY <2>1, <2>2, <2>3, Zenon DEF Busy
    <2>5. Children' = Children \cup {p} /\ Listed' = Listed
      BY <1>4, <2>3, ZenonT(30) DEF SchedForks, Children, Listed, TypeOK, ProcState, Status
    <2>6. CountIsSlots'
      BY <1>4, <2>1, <2>4, TakeSlot, Zenon DEF SchedForks
    <2>7. SlotsAreChildren'
      BY <2>1, <2>2, <2>3, <2>4, <2>5, ZenonT(30) DEF SlotsAreChildren, Busy
    <2>8. NeverOutOfSlots'
      BY <1>4, Zenon DEF SchedForks, NeverOutOfSlots
    <2>9. \A w \in Pid : Awaited(w) => Awaited(w)'
      BY <2>1, <2>2, <2>3, <2>5, Zenon DEF Awaited
    <2> QED BY <2>6, <2>7, <2>8, <2>9, Zenon
  <1> QED BY <1>1, <1>2, <1>3, <1>4, SchedCases, Zenon

\* Steps that add no waiter, and leave those there are something to find.
LEMMA WaitersKept ==
    ASSUME WaitersFindTheirs, mkstate' = "alive" => mkstate = "alive",
           \A i \in 1 .. Len(calls') : calls'[i].want \in Pid =>
               /\ i \in 1 .. Len(calls) /\ calls'[i].want = calls[i].want
               /\ mkstate' = "alive" /\ Awaited(calls[i].want) => Awaited(calls[i].want)'
    PROVE  WaitersFindTheirs'
  BY Zenon DEF WaitersFindTheirs

\* Replacing the innermost activation by one with the same want, and returning from it.
LEMMA TopReplaced ==
    ASSUME TypeOK, calls # <<>>, NEW f \in Frame, f.want = Top.want, SetTop(f)
    PROVE  /\ Len(calls') = Len(calls)
           /\ \A i \in 1 .. Len(calls') : i \in 1 .. Len(calls) /\ calls'[i].want = calls[i].want
  <1>1. calls \in Seq(Frame) /\ Top = calls[Len(calls)] /\ Len(calls) \in Nat
    BY TopPop, Zenon DEF TypeOK, Top
  <1>2. /\ Len(calls') = Len(calls)
        /\ \A i \in 1 .. Len(calls) : calls'[i] = IF i = Len(calls) THEN f ELSE calls[i]
    BY <1>1, TopSet DEF SetTop
  <1> QED BY <1>1, <1>2, Zenon

\* A call returns: those below it are left as they were.
LEMMA TopReturned ==
    ASSUME TypeOK, calls # <<>>, calls' = Front(calls)
    PROVE  /\ Len(calls) \in Nat \ {0} /\ Len(calls') = Len(calls) - 1
           /\ \A i \in 1 .. Len(calls') : i \in 1 .. Len(calls) - 1 /\ calls'[i] = calls[i]
           /\ Top = calls[Len(calls)] /\ Top \in Frame
  BY TopPop, Zenon DEF TypeOK, Top

\* The steps that touch neither processes nor slots keep the table in order.
LEMMA SlotsUntouched ==
    ASSUME SlotInv, UNCHANGED <<events, nrunning, procs>>,
           mkstate' = "alive" => mkstate = "alive", mkstate' # "noslot"
    PROVE  CountIsSlots' /\ SlotsAreChildren' /\ NeverOutOfSlots'
  BY Zenon DEF SlotInv, CountIsSlots, SlotsAreChildren, NeverOutOfSlots, Busy, Children

\* Reaping a process.
LEMMA ReapSlots ==
    ASSUME SlotInv, TypeOK', NEW p \in Pid, Reap(p)
    PROVE  SlotInv'
  <1>1. /\ TypeOK /\ CountIsSlots /\ SlotsAreChildren /\ NeverOutOfSlots /\ WaitersFindTheirs
        /\ mkstate = "alive" /\ calls # <<>> /\ calls \in Seq(Frame) /\ Top.k = "wait"
    BY Zenon DEF SlotInv, Reap, TopIs, TypeOK
  <1>2. Children' = Children \ {p} /\ p \in Children
    BY Zenon DEF Reap, Children, SlotInv, TypeOK, Status
  <1>3. /\ Len(calls) \in Nat \ {0} /\ Top = calls[Len(calls)] /\ Top \in Frame
        /\ Len(calls) \in 1 .. Len(calls)
    BY <1>1, TopPop DEF Top
  <1>4. CASE ReapWanted(p)
    <2>1. p = Top.want /\ calls' = Front(calls) /\ Listed' = Listed /\ mkstate' = mkstate
          /\ UNCHANGED <<events, nrunning>>
      BY <1>4, Zenon DEF ReapWanted, Listed, slotVars
    <2>2. \A s \in Slot : events[s].pid # p
      BY <1>1, <1>3, <2>1, Zenon DEF WaitersFindTheirs, Awaited
    <2>3. CountIsSlots' /\ SlotsAreChildren' /\ NeverOutOfSlots'
      BY <1>1, <1>2, <2>1, <2>2, Zenon DEF CountIsSlots, SlotsAreChildren, NeverOutOfSlots, Busy
    <2>4. \A i \in 1 .. Len(calls') : calls'[i] = calls[i] /\ i \in 1 .. Len(calls) /\ i # Len(calls)
      BY <1>1, <2>1, TopReturned
    <2>5. \A i \in 1 .. Len(calls') : calls[i].want \in Pid => calls[i].want # p
      BY <1>1, <1>3, <2>1, <2>4, Zenon DEF WaitersFindTheirs
    <2>6. WaitersFindTheirs'
      BY <1>1, <1>2, <2>1, <2>4, <2>5, WaitersKept, ZenonT(30) DEF Awaited
    <2> QED BY <2>3, <2>6, Zenon DEF SlotInv
  <1>5. CASE ReapJob(p)
    <2>1. PICK s \in pidslot(p) :
              /\ events' = [events EXCEPT ![s].pid = NoPid]
              /\ nrunning' = nrunning - 1
              /\ IF procs[p] = "err" /\ ~kflag
                 THEN jobs' = <<>> /\ mkstate' = "exiting" /\ UNCHANGED calls
                 ELSE /\ SetTop([Top EXCEPT !.k = "upd", !.job = events[s].job])
                      /\ UNCHANGED <<jobs, mkstate>>
      BY <1>5, Zenon DEF ReapJob
    <2>2. s \in Slot /\ events[s].pid = p /\ s \in Busy /\ events[s].job \in Job \cup {NoJob}
      BY <1>1, <2>1, Zenon DEF pidslot, Busy, TypeOK
    <2>3. /\ events'[s].pid = NoPid
          /\ \A t \in Slot : t # s => events'[t] = events[t]
      BY <1>1, <2>1, <2>2, Zenon DEF TypeOK
    <2>4. Busy' = Busy \ {s}
      BY <2>2, <2>3, NoPidAssumption, Zenon DEF Busy
    <2>5. CountIsSlots'
      BY <1>1, <2>1, <2>2, <2>4, FreeSlot, Zenon
    <2>6. mkstate' \in {"alive", "exiting"}
      BY <1>1, <2>1, Zenon
    <2>7. SlotsAreChildren' /\ NeverOutOfSlots'
      BY <1>1, <1>2, <2>2, <2>3, <2>4, <2>6, Zenon DEF SlotsAreChildren, NeverOutOfSlots, Busy
    <2>8. \A w \in Pid : Awaited(w) => Awaited(w)'
      <3>1. Listed' = Listed
        BY <1>5, Zenon DEF ReapJob, Listed
      <3> QED BY <1>2, <2>2, <2>3, <3>1, NoPidAssumption, Zenon DEF Awaited
    <2>9. \A i \in 1 .. Len(calls') : i \in 1 .. Len(calls) /\ calls'[i].want = calls[i].want
      <3>1. CASE procs[p] = "err" /\ ~kflag
        BY <2>1, <3>1, Zenon
      <3>2. CASE ~(procs[p] = "err" /\ ~kflag)
        <4>1. /\ [Top EXCEPT !.k = "upd", !.job = events[s].job] \in Frame
              /\ [Top EXCEPT !.k = "upd", !.job = events[s].job].want = Top.want
          BY <1>3, <2>2, Zenon DEF Frame
        <4> QED BY <1>1, <2>1, <3>2, <4>1, TopReplaced, Zenon
      <3> QED BY <3>1, <3>2, Zenon
    <2>10. WaitersFindTheirs'
      BY <1>1, <2>8, <2>9, WaitersKept, Zenon
    <2> QED BY <2>5, <2>7, <2>10, Zenon DEF SlotInv
  <1>6. CASE ReapRogue(p)
    <2>1. /\ UNCHANGED <<events, nrunning, calls, mkstate>>
          /\ \A s \in Slot : events[s].pid # p
      BY <1>6, Zenon DEF ReapRogue, slotVars, pidslot
    <2>2. Listed \cup {p} \subseteq Listed'
      <3>1. phead \in Seq([pid : Pid, status : Status])
        BY <1>1, Zenon DEF TypeOK
      <3>2. phead' = <<[pid |-> p, status |-> procs[p]]>> \o phead
        BY <1>6, Zenon DEF ReapRogue, pnew
      <3>3. /\ Len(phead') = Len(phead) + 1
            /\ phead'[1].pid = p
            /\ \A i \in 1 .. Len(phead) : phead'[i + 1] = phead[i]
        BY <3>1, <3>2
      <3>4. Len(phead) \in Nat
        BY <3>1, LenProperties, Zenon
      <3>5. p \in Listed'
        BY <3>3, <3>4 DEF Listed
      <3>6. \A i \in 1 .. Len(phead) : phead[i].pid \in Listed'
        BY <3>3, <3>4 DEF Listed
      <3> QED BY <3>5, <3>6, Zenon DEF Listed
    <2>3. CountIsSlots' /\ SlotsAreChildren' /\ NeverOutOfSlots'
      BY <1>1, <1>2, <2>1, Zenon DEF CountIsSlots, SlotsAreChildren, NeverOutOfSlots, Busy
    <2>4. WaitersFindTheirs'
      BY <1>1, <1>2, <2>1, <2>2, WaitersKept, Zenon DEF Awaited
    <2> QED BY <2>3, <2>4, ZenonT(30) DEF SlotInv
  <1> QED BY <1>4, <1>5, <1>6, Zenon DEF Reap

\* The invariant of the slots is inductive.
LEMMA SlotStep == SlotInv /\ Step => SlotInv'
  <1> SUFFICES ASSUME SlotInv, [Next]_vars, Step PROVE SlotInv'
    BY Zenon DEF Step
  <1>0. /\ TypeOK /\ TypeOK'
        /\ CountIsSlots /\ SlotsAreChildren /\ NeverOutOfSlots /\ WaitersFindTheirs
        /\ calls \in Seq(Frame) /\ Len(calls) \in Nat
    BY TypeStep, LenProperties, Zenon DEF SlotInv, TypeOK
  <1>1. ASSUME NEW j \in Job, Run(j) PROVE SlotInv'
    <2>1. Append(jobs, j) \in Seq(Job)
      BY <1>0, AppendProperties, Zenon DEF TypeOK
    <2>2. /\ SchedIfRoom(Append(jobs, j)) /\ UNCHANGED phead /\ UNCHANGED calls
          /\ mkstate = "alive"
      BY <1>1, Zenon DEF Run
    <2>3. /\ CountIsSlots' /\ SlotsAreChildren' /\ NeverOutOfSlots'
          /\ \A w \in Pid : Awaited(w) => Awaited(w)'
      BY <1>0, <2>1, <2>2, SchedSlots, Zenon
    <2>4. WaitersFindTheirs'
      BY <1>0, <2>2, <2>3, WaitersKept, Zenon
    <2> QED BY <1>0, <2>3, <2>4, Zenon DEF SlotInv
  <1>2. ASSUME NEW p \in Pid, Pipecmd(p) PROVE SlotInv'
    <2>1. /\ mkstate = "alive" /\ UNCHANGED <<events, nrunning, mkstate>> /\ Listed' = Listed
          /\ p \notin Children /\ p \notin Listed
          /\ Children' = Children \cup {p}
      BY <1>0, <1>2 DEF Pipecmd, MayRunCommand, Fork, FreshPid, Children, Listed, slotVars,
                        TypeOK, ProcState, Status
    <2>2. CountIsSlots' /\ SlotsAreChildren' /\ NeverOutOfSlots'
      BY <1>0, <2>1, Zenon DEF CountIsSlots, SlotsAreChildren, NeverOutOfSlots, Busy
    <2>3. /\ Len(calls') = Len(calls) + 1
          /\ \A i \in 1 .. Len(calls) : calls'[i] = calls[i]
          /\ calls'[Len(calls) + 1].want = p
      <3> DEFINE f == [k |-> "reading", want |-> p, job |-> NoJob, ok |-> FALSE, kill |-> FALSE]
      <3>1. f \in Frame
        BY Zenon DEF Frame
      <3>2. calls' = Append(calls, f) /\ f.want = p
        BY <1>2, Zenon DEF Pipecmd
      <3> HIDE DEF f
      <3> QED BY <1>0, <3>1, <3>2, AppendProperties
    <2>4. \A s \in Slot : events[s].pid # p
      BY <1>0, <2>1, Zenon DEF SlotsAreChildren, Busy
    <2>5. \A w \in Pid : Awaited(w) => w # p /\ Awaited(w)'
      BY <2>1, Zenon DEF Awaited
    <2>6. Awaited(p)'
      BY <2>1, <2>4, Zenon DEF Awaited
    <2>7. \A i \in 1 .. Len(calls) : calls[i].want \in Pid => calls[i].want # p
      BY <1>0, <2>1, <2>5, Zenon DEF WaitersFindTheirs
    <2>8. \A w \in Pid : \A i \in 1 .. Len(calls') : w = calls'[i].want => Awaited(w)'
      <3> SUFFICES ASSUME NEW w \in Pid, NEW i \in 1 .. Len(calls'), w = calls'[i].want
                   PROVE  Awaited(w)'
        OBVIOUS
      <3>1. CASE i \in 1 .. Len(calls)
        BY <1>0, <2>1, <2>3, <2>5, <3>1, Zenon DEF WaitersFindTheirs
      <3>2. CASE i = Len(calls) + 1
        BY <2>3, <2>6, <3>2, Zenon
      <3> QED BY <1>0, <2>3, <3>1, <3>2
    <2>9. WaitersFindTheirs'
      <3>1. \A i, h \in 1 .. Len(calls') :
              calls'[i].want \in Pid /\ calls'[i].want = calls'[h].want => i = h
        BY <1>0, <2>1, <2>3, <2>7, SMTT(30) DEF WaitersFindTheirs
      <3> QED BY <2>8, <3>1, Zenon DEF WaitersFindTheirs
    <2> QED BY <1>0, <2>2, <2>9, Zenon DEF SlotInv
  <1>3. ASSUME NEW p \in Pid, Bquote(p) PROVE SlotInv'
    <2>1. /\ mkstate = "alive" /\ UNCHANGED <<events, nrunning, mkstate, calls>>
          /\ Listed' = Listed /\ Children' = Children \cup {p}
      BY <1>0, <1>3 DEF Bquote, Fork, FreshPid, Children, Listed, slotVars, TypeOK,
                        ProcState, Status
    <2>2. CountIsSlots' /\ SlotsAreChildren' /\ NeverOutOfSlots'
      BY <1>0, <2>1, Zenon DEF CountIsSlots, SlotsAreChildren, NeverOutOfSlots, Busy
    <2>3. WaitersFindTheirs'
      BY <1>0, <2>1, WaitersKept, Zenon DEF Awaited
    <2> QED BY <1>0, <2>2, <2>3, ZenonT(30) DEF SlotInv
  <1>4. ASSUME NEW p \in Pid, Reap(p) PROVE SlotInv'
    BY <1>0, <1>4, ReapSlots, Zenon
  <1>5. ASSUME NEW p \in Pid, ExitReap(p) PROVE SlotInv'
    <2>1. mkstate' = "exiting" /\ UNCHANGED <<events, nrunning>>
      BY <1>5, Zenon DEF ExitReap, slotVars
    <2> QED BY <1>0, <2>1, Zenon DEF SlotInv, CountIsSlots, SlotsAreChildren, NeverOutOfSlots, Busy,
                              WaitersFindTheirs
  <1>6. ASSUME NEW ok \in BOOLEAN, CallWaitup(ok) PROVE SlotInv'
    <2>1. /\ UNCHANGED <<events, nrunning, procs, phead, mkstate>>
          /\ calls' = <<[k |-> "wait", want |-> NoPid, job |-> NoJob, ok |-> ok, kill |-> FALSE]>>
      BY <1>6, Zenon DEF CallWaitup, slotVars
    <2>2. \A i \in 1 .. Len(calls') : calls'[i].want = NoPid
      BY <2>1
    <2>3. WaitersFindTheirs'
      BY <1>0, <2>1, <2>2, NoPidAssumption, WaitersKept, Zenon
    <2> QED BY <1>0, <2>1, <2>3, SlotsUntouched, Zenon DEF SlotInv, NeverOutOfSlots
  <1>7. ASSUME NEW how \in {"exiting", "dead", "abort"}, Quit(how) PROVE SlotInv'
    <2>1. mkstate' = how /\ UNCHANGED <<events, nrunning, procs>>
      BY <1>7, Zenon DEF Quit, slotVars
    <2> QED BY <1>0, <2>1, SlotsUntouched, Zenon DEF SlotInv, WaitersFindTheirs
  <1>8. ASSUME NEW p \in Pid, NEW st \in Status, ChildExits(p, st) PROVE SlotInv'
    <2>1. /\ UNCHANGED <<events, nrunning, mkstate, calls>> /\ Listed' = Listed
          /\ Children' = Children
      BY <1>0, <1>8, ZenonT(30) DEF ChildExits, Children, Listed, slotVars, TypeOK, ProcState, Status
    <2>2. CountIsSlots' /\ SlotsAreChildren' /\ NeverOutOfSlots'
      BY <1>0, <2>1, Zenon DEF CountIsSlots, SlotsAreChildren, NeverOutOfSlots, Busy
    <2>3. WaitersFindTheirs'
      BY <1>0, <2>1, WaitersKept, Zenon DEF Awaited
    <2> QED BY <1>0, <2>2, <2>3, Zenon DEF SlotInv
  <1>9. CASE StartWait
    <2>1. /\ UNCHANGED <<events, nrunning, procs, phead, mkstate>> /\ calls # <<>>
          /\ SetTop([Top EXCEPT !.k = "entry"])
      BY <1>9, Zenon DEF StartWait, TopIs, slotVars
    <2>2. /\ [Top EXCEPT !.k = "entry"] \in Frame
          /\ [Top EXCEPT !.k = "entry"].want = Top.want
      <3>1. Top \in Frame
        BY <1>0, <2>1, TopPop, Zenon DEF Top
      <3> QED BY <3>1, Zenon DEF Frame
    <2>3. \A i \in 1 .. Len(calls') : i \in 1 .. Len(calls) /\ calls'[i].want = calls[i].want
      BY <1>0, <2>1, <2>2, TopReplaced, Zenon
    <2>4. WaitersFindTheirs'
      BY <1>0, <2>1, <2>3, WaitersKept, Zenon DEF Awaited, Children, Listed
    <2> QED BY <1>0, <2>1, <2>4, SlotsUntouched, Zenon DEF SlotInv, NeverOutOfSlots
  <1>10. CASE ForkFails
    <2>1. mkstate' = "exiting" /\ UNCHANGED <<events, nrunning, procs>>
      BY <1>10, Zenon DEF ForkFails, slotVars
    <2> QED BY <1>0, <2>1, SlotsUntouched, Zenon DEF SlotInv, WaitersFindTheirs
  <1>11. CASE CheckPhead
    <2>1. /\ UNCHANGED <<events, nrunning, procs, mkstate>> /\ calls # <<>>
          /\ mkstate = "alive"
      BY <1>11, Zenon DEF CheckPhead, TopIs, slotVars
    <2>2. CASE Top.want \in Listed
      <3>1. PICK i \in 1 .. Len(phead) : phead[i].pid = Top.want /\ phead' = RemoveAt(phead, i)
        BY <1>11, <2>2, Zenon DEF CheckPhead, pdelete, RemoveAt
      <3>2. calls' = Front(calls)
        BY <1>11, <2>2, Zenon DEF CheckPhead
      <3>3. \A w \in Listed : w # Top.want => w \in Listed'
        <4> SUFFICES ASSUME NEW h \in 1 .. Len(phead), phead[h].pid # Top.want
                     PROVE  phead[h].pid \in Listed'
          BY Zenon DEF Listed
        <4>1. phead \in Seq([pid : Pid, status : Status]) /\ Len(phead) \in Nat
          BY <1>0, LenProperties, Zenon DEF TypeOK
        <4>2. /\ Len(phead') = Len(phead) - 1
              /\ \A m \in 1 .. i - 1 : phead'[m] = phead[m]
              /\ \A m \in i .. Len(phead) - 1 : phead'[m] = phead[m + 1]
          BY <3>1, <4>1, ListDelete, Zenon
        <4>3. h # i
          BY <3>1, Zenon
        <4>4. CASE h < i
          BY <4>1, <4>2, <4>4 DEF Listed
        <4>5. CASE h > i
          <5>1. h - 1 \in 1 .. Len(phead') /\ phead'[h - 1] = phead[h]
            BY <4>1, <4>2, <4>5
          <5> QED BY <5>1, Zenon DEF Listed
        <4> QED BY <4>3, <4>4, <4>5
      <3>4. /\ \A m \in 1 .. Len(calls') : m \in 1 .. Len(calls) /\ calls'[m] = calls[m] /\ m # Len(calls)
            /\ Top = calls[Len(calls)] /\ Len(calls) \in 1 .. Len(calls)
        BY <1>0, <2>1, <3>2, TopReturned
      <3>5. \A m \in 1 .. Len(calls') : calls[m].want \in Pid => calls[m].want # Top.want
        BY <1>0, <2>1, <3>4, Zenon DEF WaitersFindTheirs
      <3>6. WaitersFindTheirs'
        BY <1>0, <2>1, <3>3, <3>4, <3>5, WaitersKept, Zenon DEF Awaited, Children
      <3> QED BY <1>0, <2>1, <3>6, SlotsUntouched, Zenon DEF SlotInv, NeverOutOfSlots
    <2>3. CASE Top.want \notin Listed
      <3>1. SetTop([Top EXCEPT !.k = "wait"]) /\ UNCHANGED phead
        BY <1>11, <2>3, Zenon DEF CheckPhead
      <3>2. /\ [Top EXCEPT !.k = "wait"] \in Frame
            /\ [Top EXCEPT !.k = "wait"].want = Top.want
        <4>1. Top \in Frame
          BY <1>0, <2>1, TopPop, Zenon DEF Top
        <4> QED BY <4>1, Zenon DEF Frame
      <3>3. \A i \in 1 .. Len(calls') : i \in 1 .. Len(calls) /\ calls'[i].want = calls[i].want
        BY <1>0, <2>1, <3>1, <3>2, TopReplaced, Zenon
      <3>4. WaitersFindTheirs'
        BY <1>0, <2>1, <3>1, <3>3, WaitersKept, ZenonT(30) DEF Awaited, Children, Listed
      <3> QED BY <1>0, <2>1, <3>4, SlotsUntouched, Zenon DEF SlotInv, NeverOutOfSlots
    <2> QED BY <2>2, <2>3, Zenon
  <1>12. CASE NoChild
    <2>1. /\ UNCHANGED <<events, nrunning, procs, phead>> /\ calls # <<>> /\ mkstate = "alive"
          /\ mkstate' \in {"alive", "exiting", "nochild"}
          /\ mkstate' = "alive" => calls' = Front(calls)
      BY <1>12, Zenon DEF NoChild, TopIs, slotVars
    <2>2. CASE mkstate' = "alive"
      <3>1. \A m \in 1 .. Len(calls') : m \in 1 .. Len(calls) /\ calls'[m] = calls[m]
        BY <1>0, <2>1, <2>2, TopReturned
      <3>2. WaitersFindTheirs'
        BY <1>0, <2>1, <3>1, WaitersKept, ZenonT(30) DEF Awaited, Children, Listed
      <3> QED BY <1>0, <2>1, <3>2, SlotsUntouched, Zenon DEF SlotInv
    <2>3. CASE mkstate' # "alive"
      BY <1>0, <2>1, <2>3, SlotsUntouched, Zenon DEF SlotInv, WaitersFindTheirs
    <2> QED BY <2>2, <2>3, Zenon
  <1>13. CASE EndUpdate
    <2>1. /\ SchedIfRoom(jobs) /\ UNCHANGED phead /\ mkstate = "alive" /\ calls # <<>>
          /\ jobs \in Seq(Job) /\ Top \in Frame
      BY <1>0, <1>13, TopPop, Zenon DEF EndUpdate, TopIs, TypeOK, Top
    <2>2. /\ CountIsSlots' /\ SlotsAreChildren' /\ NeverOutOfSlots'
          /\ \A w \in Pid : Awaited(w) => Awaited(w)'
      BY <1>0, <2>1, SchedSlots, Zenon
    <2>3. \A i \in 1 .. Len(calls') : i \in 1 .. Len(calls) /\ calls'[i].want = calls[i].want
      <3>1. CASE calls' = Front(calls)
        BY <1>0, <2>1, <3>1, TopReturned
      <3>2. ASSUME NEW k \in {"entry", "wait"}, SetTop([Top EXCEPT !.k = k, !.job = NoJob])
            PROVE  \A i \in 1 .. Len(calls') : i \in 1 .. Len(calls) /\ calls'[i].want = calls[i].want
        <4>1. /\ [Top EXCEPT !.k = k, !.job = NoJob] \in Frame
              /\ [Top EXCEPT !.k = k, !.job = NoJob].want = Top.want
          BY <2>1, Zenon DEF Frame
        <4> QED BY <1>0, <2>1, <3>2, <4>1, TopReplaced, Zenon
      <3> QED BY <1>13, <3>1, <3>2, Zenon DEF EndUpdate
    <2>4. WaitersFindTheirs'
      BY <1>0, <2>1, <2>2, <2>3, WaitersKept, Zenon
    <2> QED BY <1>0, <2>2, <2>4, Zenon DEF SlotInv
  <1>14. CASE Killchildren
    <2>1. UNCHANGED <<events, nrunning, procs, phead, mkstate>>
      BY <1>14, Zenon DEF Killchildren, slotVars
    <2>2. /\ Len(calls') = Len(calls) + 1
          /\ \A i \in 1 .. Len(calls) : calls'[i] = calls[i]
          /\ calls'[Len(calls) + 1].want = NoPid
      <3> DEFINE f == [k |-> "wait", want |-> NoPid, job |-> NoJob, ok |-> TRUE, kill |-> TRUE]
      <3>1. f \in Frame
        BY Zenon DEF Frame
      <3>2. calls' = Append(calls, f) /\ f.want = NoPid
        BY <1>14, Zenon DEF Killchildren
      <3> HIDE DEF f
      <3> QED BY <1>0, <3>1, <3>2, AppendProperties
    <2>3. WaitersFindTheirs'
      BY <1>0, <2>1, <2>2, NoPidAssumption, WaitersKept DEF Awaited, Children, Listed
    <2> QED BY <1>0, <2>1, <2>3, SlotsUntouched, Zenon DEF SlotInv, NeverOutOfSlots
  <1>15. CASE ExitDone
    <2>1. mkstate' = "dead" /\ UNCHANGED <<events, nrunning, procs>>
      BY <1>15, Zenon DEF ExitDone, slotVars
    <2> QED BY <1>0, <2>1, SlotsUntouched, Zenon DEF SlotInv, WaitersFindTheirs
  <1>16. CASE UNCHANGED vars
    <2>1. UNCHANGED <<events, nrunning, procs, phead, mkstate, calls>>
      BY <1>16, Zenon DEF vars, slotVars
    <2>2. WaitersFindTheirs'
      BY <1>0, <2>1, WaitersKept, Zenon DEF Awaited, Children, Listed
    <2> QED BY <1>0, <2>1, <2>2, SlotsUntouched, Zenon DEF SlotInv, NeverOutOfSlots
  <1> QED
    BY <1>1, <1>2, <1>3, <1>4, <1>5, <1>6, <1>7, <1>8, <1>9, <1>10, <1>11, <1>12,
       <1>13, <1>14, <1>15, <1>16, ZenonT(30) DEF Next

\* There is no process yet.
LEMMA SlotInit == Init => SlotInv
  <1> SUFFICES ASSUME Init PROVE SlotInv
    OBVIOUS
  <1>1. Busy = {}
    BY NoPidAssumption, Zenon DEF Init, Busy
  <1>2. CountIsSlots
    BY <1>1, FS_EmptySet, Zenon DEF Init, CountIsSlots
  <1>3. SlotsAreChildren /\ NeverOutOfSlots
    BY <1>1, Zenon DEF SlotsAreChildren, NeverOutOfSlots, Init
  <1>4. WaitersFindTheirs
    BY DEF WaitersFindTheirs, Init
  <1> QED BY <1>2, <1>3, <1>4, TypeInit, Zenon DEF SlotInv

\* nrunning always is the number of slots in use, however the activations of waitup()
\* nest and whichever of them reaps a job.
THEOREM CountCorrect == Spec => []CountIsSlots
  <1>1. SlotInv => CountIsSlots
    BY Zenon DEF SlotInv
  <1> QED BY <1>1, SlotInit, SlotStep, StepIs, PTL DEF Spec

\* Recipes that run at the same time have different slots, and a slot in use belongs to
\* a child that was not reaped.
THEOREM SlotsCorrect == Spec => []SlotsAreChildren
  <1>1. SlotInv => SlotsAreChildren
    BY Zenon DEF SlotInv
  <1> QED BY <1>1, SlotInit, SlotStep, StepIs, PTL DEF Spec

\* The assertion "out of slots!!" of nextslot() never fails.
THEOREM SlotsSuffice == Spec => []NeverOutOfSlots
  <1>1. SlotInv => NeverOutOfSlots
    BY Zenon DEF SlotInv
  <1> QED BY <1>1, SlotInit, SlotStep, StepIs, PTL DEF Spec
-----------------------------------------------------------------------------
(***************************************************************************)
(* The queue.                                                              *)
(***************************************************************************)
\* Moving the head of a queue behind what was taken before it.
LEMMA MoveHead ==
    ASSUME NEW S, NEW s \in Seq(S), NEW q \in Seq(S), q # <<>>
    PROVE  Append(s, Head(q)) \o Tail(q) = s \o q
  <1>1. Head(q) \in S /\ Tail(q) \in Seq(S) /\ <<Head(q)>> \in Seq(S)
    BY HeadTailProperties
  <1>2. q = <<Head(q)>> \o Tail(q)
    <2>1. Len(q) \in Nat \ {0} /\ Head(q) = q[1]
      BY EmptySeq
    <2>2. Len(Tail(q)) = Len(q) - 1 /\ \A i \in 1 .. Len(q) - 1 : Tail(q)[i] = q[i + 1]
      BY HeadTailProperties, Zenon
    <2> DEFINE r == <<Head(q)>> \o Tail(q)
    <2>3. /\ r \in Seq(S) /\ Len(r) = Len(q)
          /\ \A i \in 1 .. Len(q) : r[i] = IF i <= 1 THEN Head(q) ELSE Tail(q)[i - 1]
      <3>1. Len(<<Head(q)>>) = 1 /\ <<Head(q)>>[1] = Head(q)
        OBVIOUS
      <3>2. /\ r \in Seq(S) /\ Len(r) = 1 + Len(Tail(q))
            /\ \A i \in 1 .. 1 + Len(Tail(q)) :
                 r[i] = IF i <= 1 THEN <<Head(q)>>[i] ELSE Tail(q)[i - 1]
        BY <1>1, <3>1, ConcatProperties, ZenonT(30)
      <3> HIDE DEF r
      <3> QED BY <2>1, <2>2, <3>1, <3>2
    <2> HIDE DEF r
    <2>4. \A i \in 1 .. Len(q) : q[i] = r[i]
      BY <2>1, <2>2, <2>3
    <2>5. q = r
      BY <2>3, <2>4, SeqEqual, Zenon
    <2> QED BY <2>5, Zenon DEF r
  <1>3. Append(s, Head(q)) = s \o <<Head(q)>>
    BY <1>1, AppendIsConcat, Zenon
  <1>4. (s \o <<Head(q)>>) \o Tail(q) = s \o (<<Head(q)>> \o Tail(q))
    BY <1>1, ConcatAssociative
  <1> QED BY <1>2, <1>3, <1>4, Zenon

\* Appending to the end of a queue.
LEMMA AppendLast ==
    ASSUME NEW S, NEW s \in Seq(S), NEW q \in Seq(S), NEW e \in S
    PROVE  s \o Append(q, e) = Append(s \o q, e)
  <1>1. <<e>> \in Seq(S) /\ s \o q \in Seq(S)
    BY ConcatProperties
  <1>2. Append(q, e) = q \o <<e>> /\ Append(s \o q, e) = (s \o q) \o <<e>>
    BY <1>1, AppendIsConcat, Zenon
  <1> QED BY <1>1, <1>2, ConcatAssociative

\* What sched() takes from the queue it starts.
LEMMA SchedQueue ==
    ASSUME TypeOK, NEW q \in Seq(Job), SchedIfRoom(q)
    PROVE  /\ started' \o jobs' = started \o q
           /\ q = <<>> => jobs' = <<>> /\ UNCHANGED started
           /\ mkstate' \in {mkstate, "noslot", "exiting"}
  <1>1. SchedIdle(q) \/ SchedPops(q)
    BY SchedCases, Zenon DEF SchedNoSlot, SchedDry, SchedForks, SchedFails
  <1>2. mkstate' \in {mkstate, "noslot", "exiting"}
    BY SchedCases, Zenon DEF SchedIdle, SchedNoSlot, SchedDry, SchedForks, SchedFails
  <1>3. SchedIdle(q) => jobs' = q /\ started' = started
    BY Zenon DEF SchedIdle
  <1>4. SchedPops(q) => q # <<>> /\ started' \o jobs' = started \o q
    BY MoveHead, Zenon DEF SchedPops, TypeOK
  <1> QED BY <1>1, <1>2, <1>3, <1>4, Zenon

\* The steps other than run() and the end of a waitup() take no job from the queue.
QueueStep == [Next]_vars /\ ~(\E j \in Job : Run(j)) /\ ~EndUpdate

\* Only Run and the end of update() put jobs in order or start them.
LEMMA QueueUntouched ==
    ASSUME QueueStep
    PROVE  /\ UNCHANGED <<order, started>>
           /\ mkstate' = "alive" => mkstate = "alive"
           /\ mkstate' = "alive" /\ nnote' = nnote => jobs' = jobs
           /\ nnote' = nnote \/ (nnote' = nnote + 1 /\ Killchildren)
  <1>1. ASSUME NEW p \in Pid, Pipecmd(p) \/ Bquote(p) \/ ExitReap(p)
        PROVE  /\ UNCHANGED <<order, started, jobs, nnote, mkstate>>
    BY <1>1, Zenon DEF Pipecmd, Bquote, ExitReap, queueVars
  <1>2. ASSUME NEW p \in Pid, Reap(p)
        PROVE  /\ UNCHANGED <<order, started, nnote>> /\ mkstate = "alive"
               /\ mkstate' = "alive" => jobs' = jobs
    BY <1>2, Zenon DEF Reap, ReapWanted, ReapJob, ReapRogue, queueVars
  <1>3. ASSUME NEW ok \in BOOLEAN, CallWaitup(ok)
        PROVE  UNCHANGED <<order, started, jobs, nnote, mkstate>>
    BY <1>3, Zenon DEF CallWaitup, queueVars
  <1>4. ASSUME NEW how \in {"exiting", "dead", "abort"}, Quit(how)
        PROVE  UNCHANGED <<order, started, jobs, nnote>> /\ mkstate' # "alive"
    BY <1>4, Zenon DEF Quit, queueVars
  <1>5. ASSUME NEW p \in Pid, NEW st \in Status, ChildExits(p, st)
        PROVE  UNCHANGED <<order, started, jobs, nnote, mkstate>>
    BY <1>5, Zenon DEF ChildExits, queueVars
  <1>6. CASE StartWait \/ CheckPhead \/ UNCHANGED vars
    <2>1. UNCHANGED <<order, started, jobs, nnote, mkstate>>
      BY <1>6, Zenon DEF StartWait, CheckPhead, vars, queueVars
    <2> QED BY <2>1, Zenon
  <1>7. CASE ForkFails \/ NoChild \/ ExitDone
    <2>1. UNCHANGED <<order, started, jobs, nnote>>
      BY <1>7, Zenon DEF ForkFails, NoChild, ExitDone, queueVars
    <2>2. mkstate' = "alive" => mkstate = "alive"
      BY <1>7, Zenon DEF ForkFails, NoChild, ExitDone
    <2> QED BY <2>1, <2>2, Zenon
  <1>8. CASE Killchildren
    BY <1>8 DEF Killchildren
  <1> QED
    BY <1>1, <1>2, <1>3, <1>4, <1>5, <1>6, <1>7, <1>8, ZenonT(30) DEF QueueStep, Next

\* Jobs start in the order they came in.
LEMMA FirstComeStep ==
    TypeOK /\ FirstComeFirstServed /\ Step => FirstComeFirstServed'
  <1> SUFFICES ASSUME TypeOK, FirstComeFirstServed, [Next]_vars,
                      mkstate' = "alive", nnote' = 0
               PROVE  order' = started' \o jobs'
    BY Zenon DEF FirstComeFirstServed, Step
  <1>1. jobs \in Seq(Job) /\ started \in Seq(Job) /\ order \in Seq(Job) /\ nnote \in Nat
    BY Zenon DEF TypeOK
  <1>2. ASSUME NEW j \in Job, Run(j) PROVE order' = started' \o jobs'
    <2>1. /\ order' = Append(order, j) /\ SchedIfRoom(Append(jobs, j))
          /\ mkstate = "alive" /\ nnote = 0
      BY <1>2, Zenon DEF Run
    <2>2. Append(jobs, j) \in Seq(Job)
      BY <1>1, AppendProperties, Zenon
    <2>3. started' \o jobs' = started \o Append(jobs, j)
      BY <2>1, <2>2, SchedQueue, Zenon
    <2>4. started \o Append(jobs, j) = Append(started \o jobs, j)
      BY <1>1, AppendLast
    <2> QED BY <2>1, <2>3, <2>4, Zenon DEF FirstComeFirstServed
  <1>3. CASE EndUpdate
    <2>1. SchedIfRoom(jobs) /\ UNCHANGED order /\ mkstate = "alive" /\ nnote = 0
      BY <1>3, Zenon DEF EndUpdate
    <2>2. started' \o jobs' = started \o jobs
      BY <1>1, <2>1, SchedQueue, Zenon
    <2> QED BY <2>1, <2>2, Zenon DEF FirstComeFirstServed
  <1>4. CASE QueueStep
    <2>1. nnote' = nnote
      BY <1>1, <1>4, QueueUntouched
    <2>2. UNCHANGED <<order, started, jobs>> /\ mkstate = "alive" /\ nnote = 0
      BY <1>4, <2>1, QueueUntouched, Zenon
    <2> QED BY <2>2, Zenon DEF FirstComeFirstServed
  <1> QED BY <1>2, <1>3, <1>4, Zenon DEF QueueStep

\* Jobs start in the order in which run() got them, each exactly once, as long as mk goes
\* on and no note came.
THEOREM FirstComeCorrect == Spec => []FirstComeFirstServed
  <1>1. Init => TypeOK /\ FirstComeFirstServed
    BY TypeInit DEF Init, FirstComeFirstServed
  <1> QED BY <1>1, TypeStep, FirstComeStep, StepIs, PTL DEF Spec

-----------------------------------------------------------------------------
(***************************************************************************)
(* The stack of activations of waitup().                                   *)
(***************************************************************************)
\* killchildren() waits for no process in particular.
KillFrames ==
    \A i \in 1 .. Len(calls) :
        calls[i].kill => calls[i].want = NoPid /\ calls[i].k \in {"wait", "upd"}

\* An activation that is blocked in xwaitfor() is interrupted only by a note, and
\* killchildren() does not return to it.
BlockedCovered ==
    \A i \in 1 .. Len(calls) : i # Len(calls) /\ calls[i].k = "wait" =>
        \E h \in 1 .. Len(calls) : i < h /\ calls[h].kill

\* After a note the queue is empty and killchildren() is active.
KillActive == nnote > 0 => jobs = <<>> /\ \E i \in 1 .. Len(calls) : calls[i].kill

\* The innermost activation blocks only for a process that phead does not list.
BlockedUnlisted ==
    \A i \in 1 .. Len(calls) : i = Len(calls) /\ calls[i].k = "wait" =>
        calls[i].want \notin Listed

StackInv ==
    mkstate = "alive" => KillFrames /\ BlockedCovered /\ KillActive /\ BlockedUnlisted

\* phead lists processes only.
LEMMA NoneListed == TypeOK => NoPid \notin Listed
  <1> SUFFICES ASSUME TypeOK PROVE NoPid \notin Listed
    OBVIOUS
  <1>1. \A i \in 1 .. Len(phead) : phead[i] \in [pid : Pid, status : Status]
    BY ElementOfSeq, Zenon DEF TypeOK
  <1> QED BY <1>1, NoPidAssumption, Zenon DEF Listed

\* The innermost activation goes on.
LEMMA StackReplaced ==
    ASSUME TypeOK, StackInv, mkstate = "alive", calls # <<>>,
           NEW f \in Frame, SetTop(f), f.kill = Top.kill,
           f.kill => f.want = NoPid /\ f.k \in {"wait", "upd"},
           f.k = "wait" => f.want \notin Listed',
           nnote' = nnote, nnote > 0 => jobs' = <<>>
    PROVE  StackInv'
  <1>1. calls \in Seq(Frame) /\ Top = calls[Len(calls)] /\ Len(calls) \in Nat \ {0}
    BY TopPop, Zenon DEF TypeOK, Top
  <1>2. /\ Len(calls') = Len(calls)
        /\ \A i \in 1 .. Len(calls) : calls'[i] = IF i = Len(calls) THEN f ELSE calls[i]
    BY <1>1, TopSet DEF SetTop
  <1>3. \A i \in 1 .. Len(calls) : calls'[i].kill = calls[i].kill
    BY <1>1, <1>2, Zenon
  <1>4. KillFrames /\ BlockedCovered /\ KillActive
    BY Zenon DEF StackInv
  <1>5. KillFrames'
    BY <1>2, <1>4, Zenon DEF KillFrames
  <1>6. BlockedCovered'
    BY <1>2, <1>3, <1>4, Zenon DEF BlockedCovered
  <1>7. KillActive'
    BY <1>2, <1>3, <1>4, Zenon DEF KillActive
  <1>8. BlockedUnlisted'
    BY <1>2, Zenon DEF BlockedUnlisted
  <1> QED BY <1>5, <1>6, <1>7, <1>8, Zenon DEF StackInv

\* The innermost activation returns.  The one below it is not blocked.
LEMMA StackReturned ==
    ASSUME TypeOK, StackInv, mkstate = "alive", calls # <<>>,
           calls' = Front(calls), ~Top.kill,
           nnote' = nnote, nnote > 0 => jobs' = <<>>
    PROVE  StackInv'
  <1>1. /\ Len(calls) \in Nat \ {0} /\ Len(calls') = Len(calls) - 1
        /\ \A i \in 1 .. Len(calls') : i \in 1 .. Len(calls) - 1 /\ calls'[i] = calls[i]
        /\ Top = calls[Len(calls)]
    BY TopReturned, Zenon
  <1>2. KillFrames /\ BlockedCovered /\ KillActive
    BY Zenon DEF StackInv
  <1>3. \A h \in 1 .. Len(calls) : calls[h].kill => h \in 1 .. Len(calls') /\ calls'[h].kill
    BY <1>1
  <1>4. KillFrames'
    BY <1>1, <1>2 DEF KillFrames
  <1>5. BlockedCovered'
    <2> SUFFICES ASSUME NEW i \in 1 .. Len(calls'), i # Len(calls'), calls'[i].k = "wait"
                 PROVE  \E h \in 1 .. Len(calls') : i < h /\ calls'[h].kill
      BY Zenon DEF BlockedCovered
    <2>1. PICK h \in 1 .. Len(calls) : i < h /\ calls[h].kill
      BY <1>1, <1>2 DEF BlockedCovered
    <2> QED BY <2>1, <1>3, Zenon
  <1>6. KillActive'
    BY <1>2, <1>3, Zenon DEF KillActive
  <1>7. BlockedUnlisted'
    <2> SUFFICES ASSUME NEW i \in 1 .. Len(calls'), i = Len(calls'), calls'[i].k = "wait"
                 PROVE  FALSE
      BY Zenon DEF BlockedUnlisted
    <2>1. PICK h \in 1 .. Len(calls) : i < h /\ calls[h].kill
      BY <1>1, <1>2 DEF BlockedCovered
    <2> QED BY <2>1, <1>1
  <1> QED BY <1>4, <1>5, <1>6, <1>7, Zenon DEF StackInv

\* A new activation.
LEMMA StackPushed ==
    ASSUME TypeOK, StackInv, mkstate = "alive",
           NEW f \in Frame, calls' = Append(calls, f),
           f.kill => f.want = NoPid /\ f.k \in {"wait", "upd"},
           f.k = "wait" => f.want = NoPid,
           f.kill \/ calls = <<>> \/ Top.k # "wait",
           UNCHANGED phead,
           nnote' > 0 => jobs' = <<>> /\ (f.kill \/ nnote > 0)
    PROVE  StackInv'
  <1>1. calls \in Seq(Frame) /\ Len(calls) \in Nat
    BY LenProperties, Zenon DEF TypeOK
  <1>2. /\ Len(calls') = Len(calls) + 1 /\ calls'[Len(calls) + 1] = f
        /\ \A i \in 1 .. Len(calls) : calls'[i] = calls[i]
    BY <1>1, AppendProperties
  <1>3. calls # <<>> => Top = calls[Len(calls)] /\ Len(calls) \in Nat \ {0}
    BY <1>1, TopPop, Zenon DEF Top
  <1>4. calls = <<>> => Len(calls) = 0
    OBVIOUS
  <1>5. KillFrames /\ BlockedCovered /\ KillActive
    BY Zenon DEF StackInv
  <1>6. KillFrames'
    BY <1>1, <1>2, <1>5 DEF KillFrames
  <1>7. BlockedCovered'
    <2> SUFFICES ASSUME NEW i \in 1 .. Len(calls'), i # Len(calls'), calls'[i].k = "wait"
                 PROVE  \E h \in 1 .. Len(calls') : i < h /\ calls'[h].kill
      BY Zenon DEF BlockedCovered
    <2>1. i \in 1 .. Len(calls) /\ calls[i].k = "wait" /\ calls # <<>>
      BY <1>1, <1>2, <1>4
    <2>2. CASE f.kill
      BY <1>1, <1>2, <2>1, <2>2
    <2>3. CASE ~f.kill
      <3>1. i # Len(calls)
        BY <1>3, <2>1, <2>3, Zenon
      <3>2. PICK h \in 1 .. Len(calls) : i < h /\ calls[h].kill
        BY <1>5, <2>1, <3>1, Zenon DEF BlockedCovered
      <3> QED BY <1>1, <1>2, <3>2
    <2> QED BY <2>2, <2>3, Zenon
  <1>8. KillActive'
    BY <1>1, <1>2, <1>5 DEF KillActive
  <1>9. BlockedUnlisted'
    <2>1. NoPid \notin Listed'
      BY NoneListed, Zenon DEF Listed
    <2> QED BY <1>1, <1>2, <2>1, Zenon DEF BlockedUnlisted
  <1> QED BY <1>6, <1>7, <1>8, <1>9, Zenon DEF StackInv

\* The stack and the lists stay as they are.
LEMMA StackKept ==
    ASSUME StackInv, UNCHANGED <<calls, phead, nnote>>,
           mkstate' = "alive" => mkstate = "alive" /\ jobs' = jobs
    PROVE  StackInv'
  BY DEF StackInv, KillFrames, BlockedCovered, KillActive, BlockedUnlisted, Listed

\* Reaping a process.
LEMMA StackReap ==
    ASSUME TypeOK, StackInv, NEW p \in Pid, Reap(p)
    PROVE  StackInv'
  <1>1. /\ mkstate = "alive" /\ calls # <<>> /\ Top.k = "wait" /\ nnote' = nnote
        /\ nnote > 0 => jobs = <<>>
    BY Zenon DEF Reap, TopIs, StackInv, KillActive
  <1>2. /\ calls \in Seq(Frame) /\ Top = calls[Len(calls)] /\ Len(calls) \in Nat \ {0}
        /\ Top \in Frame
    BY <1>1, TopPop, Zenon DEF TypeOK, Top
  <1>3. Top.kill => Top.want = NoPid
    BY <1>1, <1>2 DEF StackInv, KillFrames
  <1>4. CASE ReapWanted(p)
    <2>1. calls' = Front(calls) /\ jobs' = jobs /\ ~Top.kill
      BY <1>3, <1>4, NoPidAssumption, Zenon DEF ReapWanted, queueVars
    <2> QED BY <1>1, <2>1, StackReturned, Zenon
  <1>5. CASE ReapJob(p)
    <2>1. PICK s \in Slot :
            IF procs[p] = "err" /\ ~kflag
            THEN mkstate' = "exiting"
            ELSE SetTop([Top EXCEPT !.k = "upd", !.job = events[s].job]) /\ jobs' = jobs
      BY <1>5, Zenon DEF ReapJob, pidslot
    <2>2. CASE mkstate' # "alive"
      BY <2>2, Zenon DEF StackInv
    <2>3. CASE mkstate' = "alive"
      <3> DEFINE f == [Top EXCEPT !.k = "upd", !.job = events[s].job]
      <3>1. SetTop(f) /\ jobs' = jobs
        BY <2>1, <2>3, Zenon
      <3>2. f \in Frame /\ f.k = "upd" /\ f.kill = Top.kill /\ f.want = Top.want
        BY <1>2, Zenon DEF Frame, TypeOK
      <3> HIDE DEF f
      <3> QED BY <1>1, <1>3, <3>1, <3>2, StackReplaced, Zenon
    <2> QED BY <2>2, <2>3, Zenon
  <1>6. CASE ReapRogue(p)
    <2>1. /\ UNCHANGED <<jobs, calls, mkstate>> /\ p # Top.want
          /\ phead' = <<[pid |-> p, status |-> procs[p]]>> \o phead
      BY <1>6, Zenon DEF ReapRogue, pnew, queueVars
    <2>2. Listed' \subseteq Listed \cup {p}
      <3> DEFINE e == [pid |-> p, status |-> procs[p]]
      <3>1. e \in [pid : Pid, status : Status] /\ e.pid = p
        BY Zenon DEF Reap
      <3> HIDE DEF e
      <3>2. phead \in Seq([pid : Pid, status : Status]) /\ Len(phead) \in Nat
        BY LenProperties, Zenon DEF TypeOK
      <3>3. <<e>> \in Seq([pid : Pid, status : Status]) /\ Len(<<e>>) = 1 /\ <<e>>[1] = e
        BY <3>1
      <3>4. phead' = <<e>> \o phead
        BY <2>1, Zenon DEF e
      <3>5. /\ Len(phead') = 1 + Len(phead)
            /\ \A i \in 1 .. 1 + Len(phead) :
                 phead'[i] = IF i <= 1 THEN <<e>>[i] ELSE phead[i - 1]
        BY <3>2, <3>3, <3>4, ConcatProperties, ZenonT(30)
      <3>6. \A i \in 1 .. Len(phead') : phead'[i].pid \in Listed \cup {p}
        <4> SUFFICES ASSUME NEW i \in 1 .. Len(phead')
                     PROVE  phead'[i].pid \in Listed \cup {p}
          OBVIOUS
        <4>1. CASE i = 1
          BY <4>1, <3>1, <3>2, <3>3, <3>5
        <4>2. CASE i # 1
          <5>1. i - 1 \in 1 .. Len(phead) /\ phead'[i] = phead[i - 1]
            BY <4>2, <3>2, <3>5
          <5> QED BY <5>1, Zenon DEF Listed
        <4> QED BY <4>1, <4>2, Zenon
      <3> QED BY <3>6, Zenon DEF Listed
    <2>3. BlockedUnlisted'
      BY <1>1, <1>2, <2>1, <2>2, Zenon DEF StackInv, BlockedUnlisted
    <2>4. (KillFrames /\ BlockedCovered /\ KillActive)'
      BY <1>1, <2>1, Zenon DEF StackInv, KillFrames, BlockedCovered, KillActive
    <2> QED BY <2>3, <2>4, Zenon DEF StackInv
  <1> QED BY <1>4, <1>5, <1>6, Zenon DEF Reap

\* The invariant of the calls in progress is inductive.
LEMMA StackStep ==
    TypeOK /\ StackInv /\ Step => StackInv'
  <1> SUFFICES ASSUME TypeOK, StackInv, [Next]_vars PROVE StackInv'
    BY Zenon DEF Step
  <1>0. calls # <<>> => /\ calls \in Seq(Frame) /\ Top = calls[Len(calls)] /\ Top \in Frame
                        /\ Len(calls) \in Nat \ {0}
    BY TopPop, Zenon DEF TypeOK, Top
  <1>a. mkstate = "alive" /\ calls = <<>> => ~(nnote > 0)
    BY DEF StackInv, KillActive
  <1>b. mkstate = "alive" /\ nnote > 0 => jobs = <<>>
    BY Zenon DEF StackInv, KillActive
  <1>c. mkstate = "alive" /\ calls # <<>> /\ Top.kill =>
          Top.want = NoPid /\ Top.k \in {"wait", "upd"}
    BY <1>0, SMTT(30) DEF StackInv, KillFrames
  <1>1. ASSUME NEW j \in Job, Run(j) PROVE StackInv'
    <2>1. mkstate = "alive" /\ calls = <<>> /\ UNCHANGED <<phead, calls, nnote>>
      BY <1>1, Zenon DEF Run
    <2>2. Len(calls') = 0 /\ ~(nnote' > 0)
      BY <1>a, <2>1, Zenon
    <2> QED BY <2>2 DEF StackInv, KillFrames, BlockedCovered, KillActive, BlockedUnlisted
  <1>2. ASSUME NEW p \in Pid, Pipecmd(p) PROVE StackInv'
    <2> DEFINE f == [k |-> "reading", want |-> p, job |-> NoJob, ok |-> FALSE, kill |-> FALSE]
    <2>1. /\ mkstate = "alive" /\ calls' = Append(calls, f)
          /\ UNCHANGED <<jobs, phead, nnote>>
          /\ calls = <<>> \/ Top.k # "wait"
      BY <1>2, Zenon DEF Pipecmd, MayRunCommand, queueVars
    <2>2. f \in Frame /\ f.k = "reading" /\ ~f.kill
      BY Zenon DEF Frame
    <2> HIDE DEF f
    <2> QED BY <1>b, <2>1, <2>2, StackPushed, Zenon
  <1>3. ASSUME NEW p \in Pid, Bquote(p) \/ ExitReap(p) PROVE StackInv'
    <2>1. UNCHANGED <<calls, phead, nnote, mkstate, jobs>>
      BY <1>3, Zenon DEF Bquote, ExitReap, queueVars
    <2> QED BY <2>1, StackKept, Zenon
  <1>4. ASSUME NEW p \in Pid, Reap(p) PROVE StackInv'
    BY <1>4, StackReap, Zenon
  <1>5. ASSUME NEW ok \in BOOLEAN, CallWaitup(ok) PROVE StackInv'
    <2> DEFINE f == [k |-> "wait", want |-> NoPid, job |-> NoJob, ok |-> ok, kill |-> FALSE]
    <2>1. /\ mkstate = "alive" /\ calls = <<>> /\ calls' = <<f>>
          /\ UNCHANGED <<jobs, phead, nnote>>
      BY <1>5, Zenon DEF CallWaitup, queueVars
    <2>2. f \in Frame /\ f.want = NoPid /\ ~f.kill
      BY Zenon DEF Frame
    <2> HIDE DEF f
    <2>3. calls' = Append(calls, f)
      BY <2>1
    <2> QED BY <1>b, <2>1, <2>2, <2>3, StackPushed, Zenon
  <1>6. ASSUME NEW how \in {"exiting", "dead", "abort"}, Quit(how) PROVE StackInv'
    BY <1>6, Zenon DEF Quit, StackInv
  <1>7. ASSUME NEW p \in Pid, NEW st \in Status, ChildExits(p, st) PROVE StackInv'
    <2>1. UNCHANGED <<calls, phead, nnote, mkstate, jobs>>
      BY <1>7, Zenon DEF ChildExits, queueVars
    <2> QED BY <2>1, StackKept, Zenon
  <1>8. CASE StartWait
    <2> DEFINE f == [Top EXCEPT !.k = "entry"]
    <2>1. /\ mkstate = "alive" /\ calls # <<>> /\ Top.k = "reading"
          /\ SetTop(f) /\ UNCHANGED <<jobs, nnote>>
      BY <1>8, Zenon DEF StartWait, TopIs, queueVars
    <2>2. Top \in Frame
      BY <1>0, <2>1, Zenon
    <2>3. f \in Frame /\ f.k = "entry" /\ f.kill = Top.kill
      BY <2>2, Zenon DEF Frame
    <2> HIDE DEF f
    <2> QED BY <1>b, <1>c, <2>1, <2>3, StackReplaced, Zenon
  <1>9. CASE CheckPhead
    <2>1. /\ mkstate = "alive" /\ calls # <<>> /\ Top.k = "entry"
          /\ UNCHANGED <<jobs, nnote>>
      BY <1>9, Zenon DEF CheckPhead, TopIs, queueVars
    <2>2. Top \in Frame /\ ~Top.kill
      BY <1>0, <1>c, <2>1, Zenon
    <2>3. CASE Top.want \in Listed
      <3>1. calls' = Front(calls)
        BY <1>9, <2>3, Zenon DEF CheckPhead
      <3> QED BY <1>b, <2>1, <2>2, <3>1, StackReturned, Zenon
    <2>4. CASE Top.want \notin Listed
      <3> DEFINE f == [Top EXCEPT !.k = "wait"]
      <3>1. SetTop(f) /\ UNCHANGED phead
        BY <1>9, <2>4, Zenon DEF CheckPhead
      <3>2. f \in Frame /\ f.kill = Top.kill /\ f.want = Top.want
        BY <2>2, Zenon DEF Frame
      <3>3. f.want \notin Listed'
        BY <2>4, <3>1, <3>2, Zenon DEF Listed
      <3> HIDE DEF f
      <3> QED BY <1>b, <2>1, <2>2, <3>1, <3>2, <3>3, StackReplaced, ZenonT(30)
    <2> QED BY <2>3, <2>4, Zenon
  <1>10. CASE NoChild
    <2>1. /\ mkstate = "alive" /\ calls # <<>> /\ UNCHANGED <<jobs, nnote>>
          /\ (~Top.kill /\ calls' = Front(calls)) \/ mkstate' # "alive"
      BY <1>10, Zenon DEF NoChild, TopIs, queueVars
    <2>2. CASE mkstate' # "alive"
      BY <2>2, Zenon DEF StackInv
    <2>3. CASE ~Top.kill /\ calls' = Front(calls)
      BY <1>b, <2>1, <2>3, StackReturned, Zenon
    <2> QED BY <2>1, <2>2, <2>3, Zenon
  <1>11. CASE EndUpdate
    <2>1. /\ mkstate = "alive" /\ calls # <<>> /\ Top.k = "upd"
          /\ SchedIfRoom(jobs) /\ UNCHANGED <<phead, nnote>>
      BY <1>11, Zenon DEF EndUpdate, TopIs
    <2>2. nnote > 0 => jobs' = <<>>
      BY <1>b, <2>1, SchedQueue, ZenonT(30) DEF TypeOK
    <2>3. Top \in Frame
      BY <1>0, <2>1, Zenon
    <2>4. CASE Top.want \in Pid /\ SetTop([Top EXCEPT !.k = "entry", !.job = NoJob])
      <3> DEFINE f == [Top EXCEPT !.k = "entry", !.job = NoJob]
      <3>1. f \in Frame /\ f.k = "entry" /\ f.kill = Top.kill
        BY <2>3, Zenon DEF Frame
      <3>2. ~Top.kill
        BY <1>c, <2>1, <2>4, NoPidAssumption, Zenon
      <3>3. SetTop(f)
        BY <2>4, Zenon
      <3> HIDE DEF f
      <3> QED BY <2>1, <2>2, <3>1, <3>2, <3>3, StackReplaced, ZenonT(30)
    <2>5. CASE /\ Top.want = NoPid /\ Top.kill
               /\ SetTop([Top EXCEPT !.k = "wait", !.job = NoJob])
      <3> DEFINE f == [Top EXCEPT !.k = "wait", !.job = NoJob]
      <3>1. f \in Frame /\ f.k = "wait" /\ f.kill = Top.kill /\ f.want = Top.want
        BY <2>3, Zenon DEF Frame
      <3>2. NoPid \notin Listed'
        BY <2>1, NoneListed, Zenon DEF Listed
      <3>3. SetTop(f)
        BY <2>5, Zenon
      <3> HIDE DEF f
      <3> QED BY <2>1, <2>2, <2>5, <3>1, <3>2, <3>3, StackReplaced, ZenonT(30)
    <2>6. CASE ~Top.kill /\ calls' = Front(calls)
      BY <2>1, <2>2, <2>6, StackReturned, Zenon
    <2> QED BY <1>11, <2>4, <2>5, <2>6, Zenon DEF EndUpdate
  <1>12. CASE Killchildren
    <2> DEFINE f == [k |-> "wait", want |-> NoPid, job |-> NoJob, ok |-> TRUE, kill |-> TRUE]
    <2>1. /\ mkstate = "alive" /\ calls' = Append(calls, f)
          /\ jobs' = <<>> /\ UNCHANGED phead
      BY <1>12, Zenon DEF Killchildren
    <2>2. f \in Frame /\ f.k = "wait" /\ f.want = NoPid /\ f.kill
      BY Zenon DEF Frame
    <2> HIDE DEF f
    <2> QED BY <2>1, <2>2, StackPushed, Zenon
  <1>13. CASE ForkFails \/ ExitDone
    <2>1. mkstate' # "alive"
      BY <1>13, Zenon DEF ForkFails, ExitDone
    <2> QED BY <2>1, Zenon DEF StackInv
  <1>14. CASE UNCHANGED vars
    <2>1. UNCHANGED <<calls, phead, nnote, mkstate, jobs>>
      BY <1>14, Zenon DEF vars, queueVars
    <2> QED BY <2>1, StackKept, Zenon
  <1> QED
    BY <1>1, <1>2, <1>3, <1>4, <1>5, <1>6, <1>7, <1>8, <1>9, <1>10, <1>11, <1>12, <1>13,
       <1>14, Zenon DEF Next

\* No call is in progress.
LEMMA StackInit == Init => StackInv
  <1> SUFFICES ASSUME Init PROVE StackInv
    OBVIOUS
  <1>1. Len(calls) = 0 /\ ~(nnote > 0)
    BY DEF Init
  <1> QED BY <1>1 DEF StackInv, KillFrames, BlockedCovered, KillActive, BlockedUnlisted

\* While killchildren() waits, no step starts a job.
LEMMA NothingStartsStep ==
    TypeOK /\ StackInv /\ Step => [nnote > 0 => UNCHANGED started]_vars
  <1> SUFFICES ASSUME TypeOK, StackInv, [Next]_vars, nnote > 0 PROVE UNCHANGED started
    BY Zenon DEF Step
  <1>1. ASSUME NEW j \in Job, Run(j) PROVE FALSE
    BY <1>1 DEF Run, StackInv, KillActive
  <1>2. CASE EndUpdate
    <2>1. jobs = <<>> /\ SchedIfRoom(jobs)
      BY <1>2, Zenon DEF EndUpdate, StackInv, KillActive
    <2> QED BY <2>1, SchedQueue, Zenon DEF TypeOK
  <1>3. CASE QueueStep
    BY <1>3, QueueUntouched, Zenon
  <1> QED BY <1>1, <1>2, <1>3, Zenon DEF QueueStep

\* Once killchildren() ran no recipe is started: it never returns to a blocked waitup()
\* or to mk(), and the queue it emptied stays empty.
THEOREM KillCorrect == Spec => NothingStartsAfterKill
  <1>1. Init => TypeOK /\ StackInv
    BY TypeInit, StackInit, Zenon
  <1>2. TypeOK /\ StackInv /\ Step => (TypeOK /\ StackInv)'
    BY TypeStep, StackStep, Zenon
  <1>3. TypeOK /\ StackInv /\ Step => [nnote > 0 => UNCHANGED started]_vars
    BY NothingStartsStep, Zenon
  <1> QED BY <1>1, <1>2, <1>3, StepIs, PTL DEF Spec, NothingStartsAfterKill

\* waitup() that waits for one process never runs out of children.
LEMMA StrandedStep ==
    SlotInv /\ StackInv /\ NeverStranded /\ Step => NeverStranded'
  <1> SUFFICES ASSUME SlotInv, StackInv, NeverStranded, [Next]_vars, mkstate' = "nochild"
               PROVE  Top'.want = NoPid
    BY Zenon DEF NeverStranded, Step
  <1>0. TypeOK
    BY Zenon DEF SlotInv
  <1>1. CASE NoChild
    <2>1. /\ mkstate = "alive" /\ calls # <<>> /\ Top.k = "wait" /\ Children = {}
          /\ UNCHANGED calls
      BY <1>1, Zenon DEF NoChild, TopIs
    <2>2. /\ Top = calls[Len(calls)] /\ Top \in Frame /\ Len(calls) \in Nat \ {0}
          /\ Len(calls) \in 1 .. Len(calls)
      BY <1>0, <2>1, TopPop DEF TypeOK, Top
    <2>3. Top.want \notin Listed
      BY <2>1, <2>2, Zenon DEF StackInv, BlockedUnlisted
    <2>4. Top.want \in Pid => Awaited(Top.want)
      BY <2>1, <2>2, Zenon DEF SlotInv, WaitersFindTheirs
    <2>5. Top.want \in Pid \cup {NoPid}
      BY <2>2, Zenon DEF Frame
    <2>6. Top.want = NoPid
      BY <2>1, <2>3, <2>4, <2>5, Zenon DEF Awaited
    <2> QED BY <2>1, <2>6, Zenon DEF Top
  <1>2. CASE ~NoChild
    <2>1. mkstate = "nochild" /\ UNCHANGED calls
      <3>1. ASSUME NEW j \in Job, Run(j) PROVE FALSE
        <4>1. SchedIfRoom(Append(jobs, j)) /\ mkstate = "alive"
          BY <3>1, Zenon DEF Run
        <4>2. Append(jobs, j) \in Seq(Job)
          BY <1>0, AppendProperties, Zenon DEF TypeOK
        <4> QED BY <1>0, <4>1, <4>2, SchedQueue, Zenon
      <3>2. ASSUME EndUpdate PROVE FALSE
        <4>1. SchedIfRoom(jobs) /\ mkstate = "alive"
          BY <3>2, Zenon DEF EndUpdate
        <4> QED BY <1>0, <4>1, SchedQueue, Zenon DEF TypeOK
      <3>3. ASSUME NEW p \in Pid, Pipecmd(p) \/ Bquote(p) \/ Reap(p) \/ ExitReap(p)
            PROVE  FALSE
        BY <3>3, Zenon DEF Pipecmd, MayRunCommand, Bquote, Reap, ReapWanted, ReapJob, ReapRogue,
                    ExitReap
      <3>4. ASSUME NEW ok \in BOOLEAN, CallWaitup(ok) PROVE FALSE
        BY <3>4, Zenon DEF CallWaitup
      <3>5. ASSUME NEW how \in {"exiting", "dead", "abort"}, Quit(how) PROVE FALSE
        BY <3>5, Zenon DEF Quit
      <3>6. ASSUME NEW p \in Pid, NEW st \in Status, ChildExits(p, st)
            PROVE  mkstate = "nochild" /\ UNCHANGED calls
        BY <3>6, Zenon DEF ChildExits
      <3>7. ASSUME StartWait \/ ForkFails \/ CheckPhead \/ Killchildren \/ ExitDone
            PROVE  FALSE
        BY <3>7, Zenon DEF StartWait, ForkFails, CheckPhead, Killchildren, ExitDone
      <3>8. UNCHANGED vars => mkstate = "nochild" /\ UNCHANGED calls
        BY Zenon DEF vars
      <3> QED
        BY <1>2, <3>1, <3>2, <3>3, <3>4, <3>5, <3>6, <3>7, <3>8, ZenonT(30) DEF Next
    <2> QED BY <2>1, Zenon DEF NeverStranded, Top
  <1> QED BY <1>1, <1>2, Zenon

\* A waitup() that pcmp() or parse() calls for one process gets the status of that
\* process, however many other activations reap children meanwhile.
THEOREM WaitersCorrect == Spec => []NeverStranded
  <1>1. Init => SlotInv /\ StackInv /\ NeverStranded
    BY SlotInit, StackInit, Zenon DEF Init, NeverStranded
  <1>2. SlotInv /\ StackInv /\ NeverStranded /\ Step
          => (SlotInv /\ StackInv /\ NeverStranded)'
    BY SlotStep, StackStep, StrandedStep, Zenon DEF SlotInv
  <1> QED BY <1>1, <1>2, StepIs, PTL DEF Spec

-----------------------------------------------------------------------------
(***************************************************************************)
(* No slot stays free while a job is queued.                               *)
(***************************************************************************)
\* With -n or -t no slot is ever in use, and no job stays in the queue.
DryInv == dry => Busy = {} /\ (mkstate = "alive" => jobs = <<>>)

\* sched() in such a run.
LEMMA DrySched ==
    ASSUME TypeOK, CountIsSlots, DryInv, dry, mkstate = "alive",
           NEW q \in Seq(Job), SchedIfRoom(q), q = <<>> \/ Tail(q) = <<>>
    PROVE  DryInv'
  <1>1. nrunning = 0 /\ Busy = {} /\ nrunning < nproclimit
    BY FS_EmptySet, SlotCount DEF CountIsSlots, DryInv
  <1>2. ASSUME FreeSlots # {}, events' = [events EXCEPT ![nextslot].job = Head(q)]
        PROVE  Busy' = Busy
    <2>1. nextslot \in Slot
      BY <1>2, NextslotIsFree, Zenon DEF FreeSlots
    <2>2. \A s \in Slot : events'[s].pid = events[s].pid
      BY <1>2, <2>1, Zenon DEF TypeOK
    <2> QED BY <2>2, Zenon DEF Busy
  <1>3. CASE SchedIdle(q) /\ (q = <<>> \/ ~(nrunning < nproclimit))
    BY <1>1, <1>3, Zenon DEF SchedIdle, DryInv, Busy
  <1>4. CASE SchedNoSlot(q)
    BY <1>1, <1>4, Zenon DEF SchedNoSlot, DryInv, Busy
  <1>5. CASE SchedDry(q) \/ SchedFails(q)
    <2>1. Busy' = Busy
      BY <1>2, <1>5, Zenon DEF SchedDry, SchedFails
    <2>2. jobs' = <<>>
      BY <1>5, Zenon DEF SchedDry, SchedFails, SchedPops
    <2> QED BY <1>1, <2>1, <2>2, Zenon DEF DryInv
  <1>6. ASSUME NEW p \in FreshPid, SchedForks(q, p) PROVE FALSE
    BY <1>6, Zenon DEF SchedForks
  <1> QED BY <1>3, <1>4, <1>5, <1>6, SchedCases, Zenon

\* With -n there is no process and no queue.
LEMMA DryStep == SlotInv /\ DryInv /\ Step => DryInv'
  <1> SUFFICES ASSUME SlotInv, DryInv, [Next]_vars, dry, dry' PROVE DryInv'
    BY Zenon DEF DryInv, Step
  <1>0. TypeOK /\ CountIsSlots /\ Busy = {}
    BY Zenon DEF SlotInv, DryInv
  <1>1. ASSUME NEW j \in Job, Run(j) PROVE DryInv'
    <2>1. mkstate = "alive" /\ SchedIfRoom(Append(jobs, j)) /\ jobs = <<>>
      BY <1>1, Zenon DEF Run, DryInv
    <2>2. Append(jobs, j) \in Seq(Job) /\ Tail(Append(jobs, j)) = <<>>
      BY <2>1
    <2> QED BY <1>0, <2>1, <2>2, DrySched, Zenon
  <1>2. CASE EndUpdate
    <2>1. mkstate = "alive" /\ SchedIfRoom(jobs) /\ jobs = <<>> /\ jobs \in Seq(Job)
      BY <1>0, <1>2, Zenon DEF EndUpdate, DryInv, TypeOK
    <2> QED BY <1>0, <2>1, DrySched, Zenon
  <1>3. ASSUME NEW p \in Pid, Reap(p) PROVE DryInv'
    <2>1. pidslot(p) = {}
      BY <1>0, Zenon DEF pidslot, Busy
    <2>2. UNCHANGED <<events, jobs, mkstate>>
      BY <1>3, <2>1, Zenon DEF Reap, ReapWanted, ReapJob, ReapRogue, queueVars, slotVars
    <2> QED BY <2>2, Zenon DEF DryInv, Busy
  <1>4. CASE QueueStep /\ ~(\E p \in Pid : Reap(p))
    <2>1. UNCHANGED events
      BY <1>4, Zenon DEF QueueStep, Next, Pipecmd, Bquote, ExitReap, CallWaitup, Quit, ChildExits,
                  StartWait, ForkFails, CheckPhead, NoChild, Killchildren, ExitDone, vars,
                  slotVars
    <2>2. mkstate' = "alive" => mkstate = "alive"
      BY <1>4, QueueUntouched, Zenon
    <2>3. mkstate' = "alive" => jobs' = jobs \/ jobs' = <<>>
      BY <1>4, QueueUntouched, Zenon DEF Killchildren
    <2> QED BY <2>1, <2>2, <2>3, Zenon DEF DryInv, Busy
  <1> QED BY <1>1, <1>2, <1>3, <1>4, Zenon DEF QueueStep

\* The activations that have a call of sched() still to come.
LEMMA UpdatingFinite ==
    TypeOK => IsFiniteSet(Updating) /\ Cardinality(Updating) \in Nat
  <1> SUFFICES ASSUME TypeOK
               PROVE  IsFiniteSet(Updating) /\ Cardinality(Updating) \in Nat
    OBVIOUS
  <1>1. Len(calls) \in Nat
    BY LenProperties, Zenon DEF TypeOK
  <1>2. IsFiniteSet(1 .. Len(calls)) /\ Updating \in SUBSET (1 .. Len(calls))
    BY <1>1, FS_Interval DEF Updating
  <1>3. IsFiniteSet(Updating)
    BY <1>2, FS_Subset, Zenon
  <1> QED BY <1>3, FS_CardinalityType, Zenon

\* The call on top begins or ends to update a job.
LEMMA UpdatingReplaced ==
    ASSUME TypeOK, calls # <<>>, NEW f \in Frame, SetTop(f)
    PROVE  /\ Top.k # "upd" /\ f.k = "upd" =>
                Cardinality(Updating') = Cardinality(Updating) + 1
           /\ Top.k = "upd" /\ f.k # "upd" =>
                Cardinality(Updating') = Cardinality(Updating) - 1
           /\ Top.k # "upd" /\ f.k # "upd" => Updating' = Updating
  <1>1. calls \in Seq(Frame) /\ Top = calls[Len(calls)] /\ Len(calls) \in Nat \ {0}
    BY TopPop, ZenonT(30) DEF TypeOK, Top
  <1>2. /\ Len(calls') = Len(calls)
        /\ \A i \in 1 .. Len(calls) : calls'[i] = IF i = Len(calls) THEN f ELSE calls[i]
    BY <1>1, TopSet, SMTT(30) DEF SetTop
  <1>3. Top.k # "upd" /\ f.k = "upd" =>
          Updating' = Updating \cup {Len(calls)} /\ Len(calls) \notin Updating
    BY <1>1, <1>2 DEF Updating
  <1>4. Top.k = "upd" /\ f.k # "upd" =>
          Updating' = Updating \ {Len(calls)} /\ Len(calls) \in Updating
    BY <1>1, <1>2 DEF Updating
  <1>5. Top.k # "upd" /\ f.k # "upd" => Updating' = Updating
    BY <1>1, <1>2, Zenon DEF Updating
  <1> QED BY <1>3, <1>4, <1>5, UpdatingFinite, FS_AddElement, FS_RemoveElement, SMTT(30)

\* A call returns: one less updates, if it did.
LEMMA UpdatingReturned ==
    ASSUME TypeOK, calls # <<>>, calls' = Front(calls)
    PROVE  /\ Top.k = "upd" => Cardinality(Updating') = Cardinality(Updating) - 1
           /\ Top.k # "upd" => Updating' = Updating
  <1>1. /\ Len(calls) \in Nat \ {0} /\ Len(calls') = Len(calls) - 1
        /\ \A i \in 1 .. Len(calls') : i \in 1 .. Len(calls) - 1 /\ calls'[i] = calls[i]
        /\ Top = calls[Len(calls)]
    BY TopReturned, Zenon
  <1>2. Top.k = "upd" => Updating' = Updating \ {Len(calls)} /\ Len(calls) \in Updating
    BY <1>1 DEF Updating
  <1>3. Top.k # "upd" => Updating' = Updating
    BY <1>1 DEF Updating
  <1> QED BY <1>2, <1>3, UpdatingFinite, FS_RemoveElement, Zenon

\* A call is made that does not update.
LEMMA UpdatingPushed ==
    ASSUME TypeOK, NEW f \in Frame, f.k # "upd", calls' = Append(calls, f)
    PROVE  Updating' = Updating
  <1>1. calls \in Seq(Frame) /\ Len(calls) \in Nat
    BY LenProperties, Zenon DEF TypeOK
  <1>2. /\ Len(calls') = Len(calls) + 1 /\ calls'[Len(calls) + 1] = f
        /\ \A i \in 1 .. Len(calls) : calls'[i] = calls[i]
    BY <1>1, AppendProperties
  <1> QED BY <1>1, <1>2 DEF Updating

\* What sched() leaves in the queue.
LEMMA SchedLeaves ==
    ASSUME TypeOK, NEW q \in Seq(Job), SchedIfRoom(q), ~dry,
           mkstate' = "alive", jobs' # <<>>
    PROVE  \/ ~(nrunning < nproclimit) /\ nrunning' = nrunning /\ jobs' = q
           \/ nrunning < nproclimit /\ nrunning' = nrunning + 1 /\ jobs' = Tail(q)
  BY SchedCases, Zenon DEF SchedIdle, SchedNoSlot, SchedDry, SchedForks, SchedFails, SchedPops

\* A slot is free while jobs wait only for a call that updates.
LEMMA ConservingStep ==
    SlotInv /\ DryInv /\ DryInv' /\ WorkConserving /\ Step => WorkConserving'
  <1> SUFFICES ASSUME SlotInv, DryInv', WorkConserving, [Next]_vars, Step,
                      mkstate' = "alive", jobs' # <<>>
               PROVE  nproclimit - nrunning' <= Cardinality(Updating')
    BY Zenon DEF WorkConserving, nproclimit, Step
  <1>0. /\ TypeOK /\ TypeOK' /\ ~dry /\ nproclimit \in Nat
        /\ nrunning \in Int /\ nrunning' \in Int
        /\ Cardinality(Updating) \in Nat /\ Cardinality(Updating') \in Nat
    <2>1. TypeOK /\ TypeOK'
      BY TypeStep, Zenon DEF SlotInv
    <2>2. Cardinality(Updating') \in Nat
      <3>1. Len(calls') \in Nat
        BY <2>1, LenProperties, Zenon DEF TypeOK
      <3>2. IsFiniteSet(1 .. Len(calls')) /\ Updating' \in SUBSET (1 .. Len(calls'))
        BY <3>1, FS_Interval DEF Updating
      <3> QED BY <3>2, FS_Subset, FS_CardinalityType, ZenonT(30)
    <2> QED BY <2>1, <2>2, UpdatingFinite, SlotCount, ZenonT(30) DEF TypeOK, DryInv, Step
  <1>1. mkstate = "alive" /\ jobs # <<>> => nproclimit - nrunning <= Cardinality(Updating)
    BY Zenon DEF WorkConserving
  <1>2. ASSUME NEW j \in Job, Run(j)
        PROVE  nproclimit - nrunning' <= Cardinality(Updating')
    <2>1. mkstate = "alive" /\ calls = <<>> /\ SchedIfRoom(Append(jobs, j))
      BY <1>2, Zenon DEF Run
    <2>2. Append(jobs, j) \in Seq(Job) /\ (jobs = <<>> => Tail(Append(jobs, j)) = <<>>)
      <3>1. jobs \in Seq(Job)
        BY <1>0, Zenon DEF TypeOK
      <3>2. Append(jobs, j) \in Seq(Job)
        BY <3>1, AppendProperties, Zenon
      <3>3. jobs = <<>> => Tail(Append(jobs, j)) = <<>>
        OBVIOUS
      <3> QED BY <3>2, <3>3, Zenon
    <2>3. Cardinality(Updating) = 0
      <3>1. Updating = {}
        BY <2>1 DEF Updating
      <3> QED BY <3>1, FS_EmptySet, Zenon
    <2>4. ~(nrunning < nproclimit) /\ nrunning' = nrunning
      <3>1. \/ ~(nrunning < nproclimit) /\ nrunning' = nrunning
            \/ nrunning < nproclimit /\ jobs' = Tail(Append(jobs, j))
        BY <1>0, <2>1, <2>2, SchedLeaves, Zenon
      <3>2. jobs' = Tail(Append(jobs, j)) => nproclimit - nrunning <= 0
        BY <1>1, <2>1, <2>2, <2>3, Zenon
      <3> QED BY <1>0, <3>1, <3>2
    <2> QED BY <1>0, <2>4
  <1>3. CASE EndUpdate
    <2>1. /\ mkstate = "alive" /\ calls # <<>> /\ Top.k = "upd" /\ SchedIfRoom(jobs)
          /\ jobs \in Seq(Job)
      BY <1>0, <1>3, Zenon DEF EndUpdate, TopIs, TypeOK
    <2>2. Top \in Frame
      BY <1>0, <2>1, TopPop, Zenon DEF TypeOK, Top
    <2>3. Cardinality(Updating') = Cardinality(Updating) - 1
      <3>1. /\ [Top EXCEPT !.k = "entry", !.job = NoJob] \in Frame
            /\ [Top EXCEPT !.k = "wait", !.job = NoJob] \in Frame
        BY <2>2, Zenon DEF Frame
      <3>2. CASE SetTop([Top EXCEPT !.k = "entry", !.job = NoJob])
        <4> DEFINE f == [Top EXCEPT !.k = "entry", !.job = NoJob]
        <4>1. f \in Frame /\ f.k = "entry" /\ SetTop(f)
          BY <2>2, <3>1, <3>2, Zenon DEF Frame
        <4> HIDE DEF f
        <4> QED BY <1>0, <2>1, <4>1, UpdatingReplaced, Zenon
      <3>3. CASE SetTop([Top EXCEPT !.k = "wait", !.job = NoJob])
        <4> DEFINE f == [Top EXCEPT !.k = "wait", !.job = NoJob]
        <4>1. f \in Frame /\ f.k = "wait" /\ SetTop(f)
          BY <2>2, <3>1, <3>3, Zenon DEF Frame
        <4> HIDE DEF f
        <4> QED BY <1>0, <2>1, <4>1, UpdatingReplaced, Zenon
      <3>4. CASE calls' = Front(calls)
        BY <1>0, <2>1, <3>4, UpdatingReturned, Zenon
      <3> QED BY <1>3, <3>2, <3>3, <3>4, Zenon DEF EndUpdate
    <2>4. CASE ~(nrunning < nproclimit) /\ nrunning' = nrunning
      BY <1>0, <2>4
    <2>5. CASE nrunning < nproclimit /\ nrunning' = nrunning + 1 /\ jobs' = Tail(jobs)
      <3>1. jobs # <<>>
        BY <1>0, <2>1, <2>5, SchedCases, Zenon
           DEF SchedIdle, SchedNoSlot, SchedDry, SchedForks, SchedFails, SchedPops
      <3> QED BY <1>0, <1>1, <2>1, <2>3, <2>5, <3>1, SMTT(30)
    <2> QED BY <1>0, <2>1, <2>4, <2>5, SchedLeaves, ZenonT(30)
  <1>4. ASSUME NEW p \in Pid, Reap(p)
        PROVE  nproclimit - nrunning' <= Cardinality(Updating')
    <2>1. /\ mkstate = "alive" /\ calls # <<>> /\ Top.k = "wait"
      BY <1>4, Zenon DEF Reap, TopIs
    <2>2. Top \in Frame
      BY <1>0, <2>1, TopPop, Zenon DEF TypeOK, Top
    <2>3. CASE ReapWanted(p)
      <3>1. UNCHANGED <<jobs, nrunning>> /\ calls' = Front(calls)
        BY <2>3, Zenon DEF ReapWanted, queueVars, slotVars
      <3>2. Updating' = Updating
        BY <1>0, <2>1, <3>1, UpdatingReturned, Zenon
      <3> QED BY <1>1, <2>1, <3>1, <3>2, Zenon
    <2>4. CASE ReapJob(p)
      <3>1. PICK s \in Slot :
              /\ nrunning' = nrunning - 1
              /\ IF procs[p] = "err" /\ ~kflag
                 THEN mkstate' = "exiting"
                 ELSE SetTop([Top EXCEPT !.k = "upd", !.job = events[s].job]) /\ jobs' = jobs
        BY <2>4, Zenon DEF ReapJob, pidslot
      <3> DEFINE f == [Top EXCEPT !.k = "upd", !.job = events[s].job]
      <3>2. f \in Frame /\ f.k = "upd" /\ SetTop(f) /\ jobs' = jobs
        BY <1>0, <2>2, <3>1, ZenonT(30) DEF Frame, TypeOK
      <3> HIDE DEF f
      <3>3. Cardinality(Updating') = Cardinality(Updating) + 1
        BY <1>0, <2>1, <3>2, UpdatingReplaced, Zenon
      <3> QED BY <1>0, <1>1, <2>1, <3>1, <3>2, <3>3
    <2>5. CASE ReapRogue(p)
      <3>1. UNCHANGED <<jobs, nrunning, calls>>
        BY <2>5, Zenon DEF ReapRogue, queueVars, slotVars
      <3> QED BY <1>1, <2>1, <3>1, Zenon DEF Updating
    <2> QED BY <1>4, <2>3, <2>4, <2>5, Zenon DEF Reap
  <1>5. CASE QueueStep /\ ~(\E p \in Pid : Reap(p))
    <2>1. mkstate = "alive" /\ (Killchildren \/ jobs' = jobs)
      BY <1>5, QueueUntouched, Zenon
    <2>2. jobs' = jobs /\ ~Killchildren
      BY <2>1, Zenon DEF Killchildren
    <2>3. nrunning' = nrunning
      BY <1>5, Zenon DEF QueueStep, Next, Pipecmd, Bquote, ExitReap, CallWaitup, Quit, ChildExits,
                  StartWait, ForkFails, CheckPhead, NoChild, Killchildren, ExitDone, vars,
                  slotVars
    <2>4. Updating' = Updating
      <3>1. CASE UNCHANGED calls
        BY <3>1, Zenon DEF Updating
      <3>2. ASSUME NEW p \in Pid, Pipecmd(p) PROVE Updating' = Updating
        <4> DEFINE f == [k |-> "reading", want |-> p, job |-> NoJob, ok |-> FALSE,
                         kill |-> FALSE]
        <4>1. f \in Frame /\ f.k = "reading" /\ calls' = Append(calls, f)
          BY <3>2, Zenon DEF Pipecmd, Frame
        <4> HIDE DEF f
        <4> QED BY <1>0, <4>1, UpdatingPushed, Zenon
      <3>3. ASSUME NEW ok \in BOOLEAN, CallWaitup(ok) PROVE Updating' = Updating
        <4> DEFINE f == [k |-> "wait", want |-> NoPid, job |-> NoJob, ok |-> ok,
                         kill |-> FALSE]
        <4>1. f \in Frame /\ f.k = "wait" /\ calls = <<>> /\ calls' = <<f>>
          BY <3>3, Zenon DEF CallWaitup, Frame
        <4> HIDE DEF f
        <4>2. calls' = Append(calls, f)
          BY <4>1
        <4> QED BY <1>0, <4>1, <4>2, UpdatingPushed, Zenon
      <3>4. CASE StartWait \/ CheckPhead \/ NoChild
        <4>1. calls # <<>> /\ Top.k \in {"reading", "entry", "wait"}
          BY <3>4, Zenon DEF StartWait, CheckPhead, NoChild, TopIs
        <4>2. Top \in Frame
          BY <1>0, <4>1, TopPop, ZenonT(30) DEF TypeOK, Top
        <4>3. ASSUME NEW k \in {"entry", "wait"}, SetTop([Top EXCEPT !.k = k])
              PROVE  Updating' = Updating
          <5> DEFINE f == [Top EXCEPT !.k = k]
          <5>1. f \in Frame /\ f.k # "upd" /\ SetTop(f)
            BY <4>2, <4>3, Zenon DEF Frame
          <5> HIDE DEF f
          <5> QED BY <1>0, <4>1, <5>1, UpdatingReplaced, Zenon
        <4>4. CASE calls' = Front(calls)
          BY <1>0, <4>1, <4>4, UpdatingReturned, ZenonT(30)
        <4> QED BY <3>1, <3>4, <4>3, <4>4, Zenon DEF StartWait, CheckPhead, NoChild
      <3>5. QED
        BY <1>5, <2>2, <3>1, <3>2, <3>3, <3>4, ZenonT(30)
           DEF QueueStep, Next, Bquote, ExitReap, Quit, ChildExits, ForkFails, ExitDone, vars
    <2> QED BY <1>1, <2>1, <2>2, <2>3, <2>4, Zenon
  <1> QED BY <1>2, <1>3, <1>4, <1>5, Zenon DEF QueueStep

\* While a job is queued, a slot is free only if its recipe was reaped by a waitup() that
\* is still updating the targets, one slot for each: run() and waitup() start a job
\* whenever they can, and none waits for a slot that nobody will fill.
THEOREM ConservingCorrect == Spec => []WorkConserving
  <1>1. Init => SlotInv /\ DryInv /\ WorkConserving
    <2> SUFFICES ASSUME Init PROVE SlotInv /\ DryInv /\ WorkConserving
      OBVIOUS
    <2>1. Busy = {} /\ jobs = <<>>
      BY NoPidAssumption, Zenon DEF Init, Busy
    <2> QED BY <2>1, SlotInit, Zenon DEF DryInv, WorkConserving
  <1>2. SlotInv /\ DryInv /\ WorkConserving /\ Step
          => (SlotInv /\ DryInv /\ WorkConserving)'
    BY SlotStep, DryStep, ConservingStep, Zenon
  <1> QED BY <1>1, <1>2, StepIs, PTL DEF Spec
=============================================================================
