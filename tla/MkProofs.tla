------------------------------ MODULE MkProofs ------------------------------
(***************************************************************************)
(* Proofs about the evaluation of a dependency graph by mk, for every      *)
(* number of nodes, every set of graphs and every number of jobs,          *)
(* processes and slots: what the invariants of modules MkWorkProofs and    *)
(* MkSingleProofs say together with the proofs about the scheduler, of     *)
(* every graph and of the graphs whose rules have one target each.         *)
(***************************************************************************)
EXTENDS MkSingleProofs

\* Time for a leaf: in a module of this size tlapm itself is busy for seconds at a time.
USE SMTT(20), ZenonT(20)

-----------------------------------------------------------------------------
(***************************************************************************)
(* Every step.                                                             *)
(***************************************************************************)
\* mk stays alive.
LEMMA KeptStep ==
    ASSUME Alive, Kept, JobSeq, SchedOK, SetFacts, Single, mkstate = "alive", mkstate' = "alive", Next
    PROVE  Kept'
  <1>1. R!TypeOK
    BY Zenon DEF SchedOK
  <1>2. CASE WorkSeen \/ WorkLeaf \/ WorkNotReady \/ WorkUpToDate \/ DoNoRecipe
    BY <1>2, KeptReturns, Zenon
  <1>3. CASE WorkArc \/ WorkBack
    BY <1>3, KeptLoop, Zenon
  <1>4. CASE DoRecipe
    BY <1>4, KeptRecipe, Zenon
  <1>5. CASE MkStart
    BY <1>5, KeptStart, Zenon
  <1>6. CASE MkLoop
    BY <1>6, KeptCall, KeptBetween, Zenon
  <1>7. CASE MkWorked \/ MkEmpty \/ MkAfter \/ MkDrain \/ MkReturn
    BY <1>7, KeptBetween, Zenon
  <1>8. ASSUME NEW p \in Pid, MkReap(p) PROVE Kept'
    BY <1>8, KeptReap, Zenon
  <1>9. CASE MkEndUpdate
    BY <1>9, KeptUpdate, Zenon
  <1>10. CASE MkNoChild
    BY <1>10, KeptNoChild, Zenon
  <1>11. ASSUME TouchFails \/ MkExits \/ MkExit PROVE FALSE
    BY <1>11, Zenon DEF TouchFails, MkExits, MkExit, R!Quit, R!ExitReap, R!ExitDone
  <1>12. ASSUME NEW p \in Pid, NEW st \in R!Status, RecipeEnds(p, st) PROVE Kept'
    BY <1>1, <1>12, KeptEnds, Zenon
  <1> QED BY <1>2, <1>3, <1>4, <1>5, <1>6, <1>7, <1>8, <1>9, <1>10, <1>11, <1>12, ZenonT(30)
          DEF Next, MkStep, Work

\* mk() returns only while mk is alive.
LEMMA ReturnsAlive ==
    ASSUME mkstate = "alive" => Alive, R!TypeOK, pc = "return" => mkstate = "alive", Next, pc' = "return"
    PROVE  mkstate' = "alive"
  <1>1. ASSUME Work PROVE FALSE
    <2>1. pc = "work" /\ pc' = pc
      BY <1>1, Zenon DEF Work, WorkSeen, WorkLeaf, WorkArc, WorkBack, WorkNotReady, WorkUpToDate,
                         DoNoRecipe, DoRecipe, TouchFails, Working, MustMake, AfterLoop, mkVars
    <2> QED BY <2>1, Zenon
  <1>2. ASSUME MkStart \/ MkExits \/ MkLoop \/ MkWorked \/ MkEmpty \/ MkAfter \/ MkReturn PROVE FALSE
    <2>1. ASSUME MkStart \/ MkLoop \/ MkWorked \/ MkAfter \/ MkReturn PROVE FALSE
      BY <2>1, Zenon DEF MkStart, MkLoop, MkWorked, MkAfter, MkReturn
    <2>2. ASSUME MkExits PROVE FALSE
      BY <2>2, Zenon DEF MkExits, mkVars
    <2>3. ASSUME MkEmpty PROVE FALSE
      <3>1. pc = "empty" /\ (pc' = "loop" \/ pc' = "after" \/ pc' = pc)
        BY <2>3, Zenon DEF MkEmpty
      <3> QED BY <3>1, Zenon
    <2> QED BY <1>2, <2>1, <2>2, <2>3, ZenonT(30)
  <1>3. CASE MkDrain
    <2>1. pc = "drain" /\ pc' # pc /\ mkstate = "alive"
      BY <1>3, Zenon DEF MkDrain, InMk
    <2> QED BY <1>3, <2>1, Zenon DEF MkDrain, schedVars
  <1>4. ASSUME (\E p \in Pid : MkReap(p)) \/ MkEndUpdate \/ MkNoChild PROVE FALSE
    <2>1. mkstate = "alive" /\ calls # <<>> /\ (pc' = pc \/ pc' = "loop" \/ pc' = "empty")
      BY <1>4, Zenon DEF MkReap, MkEndUpdate, MkNoChild, R!Reap, R!EndUpdate, R!NoChild, R!TopIs
    <2>2. pc \in {"waitup", "drain"}
      BY <2>1, WaitingIs, Zenon
    <2> QED BY <2>1, <2>2, ZenonT(30)
  <1>5. ASSUME MkExit PROVE FALSE
    <2>1. mkstate = "exiting" /\ pc' = pc
      BY <1>5, Zenon DEF MkExit, R!ExitReap, R!ExitDone, mkVars
    <2> QED BY <2>1, Zenon
  <1>6. ASSUME NEW p \in Pid, NEW st \in R!Status, RecipeEnds(p, st) PROVE mkstate' = "alive"
    BY <1>6, Zenon DEF RecipeEnds, R!ChildExits, mkVars
  <1> QED BY <1>1, <1>2, <1>3, <1>4, <1>5, <1>6, ZenonT(30) DEF Next, MkStep

\* The targets of a job were not made.
LEMMA MadeStays ==
    ASSUME mkstate = "alive" => Alive /\ Kept, R!TypeOK, SetFacts, Single, Next, pc # "start",
           NEW n \in Node, made[n] = MADE
    PROVE  made'[n] = MADE
  <1>1. /\ \A S : MADESET(S, MADE)[n] = MADE
        /\ \A S, m : n \notin S => MADESET(S, m)[n] = MADE
    BY Zenon DEF MADESET
  <1>2. CASE \/ WorkSeen \/ WorkArc \/ WorkBack \/ WorkNotReady \/ TouchFails
             \/ MkExits \/ MkLoop \/ MkWorked \/ MkEmpty \/ MkAfter \/ MkDrain \/ MkReturn
             \/ (\E p \in Pid : MkReap(p)) \/ MkNoChild \/ MkExit
             \/ \E p \in Pid, st \in R!Status : RecipeEnds(p, st)
    <2>1. made' = made
      BY <1>2, Zenon DEF WorkSeen, WorkArc, WorkBack, WorkNotReady, TouchFails, MkExits, MkLoop, MkWorked,
                         MkEmpty, MkAfter, MkDrain, MkReturn, MkReap, MkNoChild, MkExit, RecipeEnds, nodeVars
    <2> QED BY <2>1, Zenon
  <1>3. CASE WorkLeaf
    <2>1. made[top.node] = NOTMADE
      BY <1>3, Zenon DEF WorkLeaf
    <2>2. n # top.node
      BY <2>1, Zenon DEF NOTMADE, MADE
    <2>3. \/ made' = MADESET({top.node}, MADE) \/ made' = made
          \/ made' = [made EXCEPT ![top.node] = @ \cup BEINGMADE]
      BY <1>3, Zenon DEF WorkLeaf
    <2>4. made \in [Node -> Flags]
      BY <1>3, Zenon DEF WorkLeaf, Working, Alive, Types
    <2> QED BY <1>1, <2>2, <2>3, <2>4, ZenonT(30)
  <1>4. CASE WorkUpToDate \/ DoNoRecipe
    <2>1. made' = MADESET({top.node}, MADE) \/ made' = made
      BY <1>4, Zenon DEF WorkUpToDate, DoNoRecipe
    <2> QED BY <1>1, <2>1, Zenon
  <1>5. CASE DoRecipe
    <2>1. MustMake /\ master(top.node) # 0 /\ Working /\ mkstate = "alive" /\ top.at = "arc"
      BY <1>5, Zenon DEF DoRecipe, MustMake, AfterLoop, Working
    <2>2. \E m : made' = MADESET({top.node} \cup oldtargets(RuleOf(top.node)), m)
      BY <1>5, Zenon DEF DoRecipe, RuleOf
    <2>3. oldtargets(RuleOf(top.node)) \subseteq {top.node}
      BY <2>1, OneTarget, Zenon
    <2>4. top.at # "enter"
      BY <2>1, Zenon
    <2>5. made[top.node] = NOTMADE
      BY <2>1, <2>4, RunningKept, ZenonT(30)
    <2>6. n # top.node
      BY <2>5, ZenonT(30) DEF NOTMADE, MADE
    <2>7. n \notin {top.node} \cup oldtargets(RuleOf(top.node))
      BY <2>3, <2>6, Zenon
    <2> QED BY <1>1, <2>2, <2>7, ZenonT(30)
  <1>6. CASE MkEndUpdate
    <2>1. mkstate = "alive" /\ calls # <<>> /\ R!Top.k = "upd"
      BY <1>6, Zenon DEF MkEndUpdate, R!EndUpdate, R!TopIs
    <2>2. Len(calls) = 1 /\ R!Top = calls[1] /\ calls[1].k = "upd"
      BY <2>1, WaitingIs, Zenon
    <2>3. R!Top.job \in Owner
      <3>1. Owner = OwnersOf(jobs, events, <<>>) \cup {calls[1].job}
        BY <2>2, OwnersAre, Zenon DEF Owner
      <3> QED BY <2>2, <3>1, Zenon
    <2>4. n \notin job[R!Top.job].t
      <3>1. MADE # BEINGMADE
        BY Zenon DEF MADE, BEINGMADE
      <3> QED BY <2>1, <2>3, <3>1, ZenonT(30) DEF Kept, InMake, Owned
    <2>5. \E m : made' = MADESET(job[R!Top.job].t, m)
      BY <1>6, Zenon DEF MkEndUpdate
    <2> QED BY <1>1, <2>4, <2>5, Zenon
  <1>7. ASSUME MkStart PROVE FALSE
    BY <1>7, Zenon DEF MkStart
  <1> QED BY <1>2, <1>3, <1>4, <1>5, <1>6, <1>7, ZenonT(30) DEF Next, MkStep, Work

\* The jobs that are queued or have a slot.
LEMMA ActiveAre == Active \subseteq Owner
  BY Zenon DEF Active, Owner, OwnersOf, R!Busy

\* While mk is alive no job starts too early, and none makes what another one makes.
LEMMA JobsAre ==
    ASSUME Alive, Kept
    PROVE  /\ \A j \in Active : \A n \in job[j].t : \A p \in Prereqs(n) : made[p] = MADE
           /\ \A j, k \in Active : job[j].t \cap job[k].t # {} => j = k
  <1>1. CASE pc = "start"
    <2>1. Owner = {}
      BY <1>1, Zenon DEF Kept, Ending
    <2> QED BY <2>1, ActiveAre, Zenon
  <1>2. CASE pc # "start"
    <2>1. Supported /\ Owned
      BY <1>2, Zenon DEF Kept, InMake
    <2>2. "NOTMADE" \notin BEINGMADE
      BY Zenon DEF BEINGMADE
    <2>3. \A j \in Active : \A n \in job[j].t : n \in ReachOf(g, Root) /\ "NOTMADE" \notin made[n]
      BY <2>1, <2>2, ActiveAre, ZenonT(30) DEF Owned
    <2>4. \A j \in Active : \A n \in job[j].t : \A p \in Prereqs(n) : made[p] = MADE
      BY <2>1, <2>3, GraphIs, ZenonT(30) DEF Supported
    <2>5. \A j, k \in Active : job[j].t \cap job[k].t # {} => j = k
      BY <2>1, ActiveAre, Zenon DEF Owned
    <2> QED BY <2>4, <2>5, Zenon
  <1> QED BY <1>1, <1>2, Zenon

\* When mk() returns, what is not made could not be.
LEMMA ReturnIs ==
    ASSUME Alive, Kept, pc = "return"
    PROVE  /\ Active = {}
           /\ \A n \in Reach(Root) :
                 made[n] = MADE \/ <<ti, n>> \in failed \/ \E p \in Prereqs(n) : made[p] # MADE
  <1>1. pc # "start" /\ Owner = {} /\ ("NOTMADE" \notin made[Root] \/ DoneOf(g, made, Root))
    BY Zenon DEF Kept, Ending
  <1>2. Supported /\ Failures /\ Types
    BY <1>1, Zenon DEF Kept, InMake, Alive
  <1>3. /\ g \in Graphs /\ Root \in Node /\ Root \in ReachOf(g, Root)
        /\ ReachOf(g, Root) \subseteq Node
        /\ \A n \in ReachOf(g, Root) : PrereqsOf(g, n) \subseteq ReachOf(g, Root)
        /\ \A n \in ReachOf(g, Root) : "NOTMADE" \notin made[n] =>
              \A m \in ReachOf(g, n) : m = n \/ made[m] = MADE
    BY <1>1, <1>2, Below, ZenonT(30)
  <1>4. /\ "NOTMADE" \notin MADE /\ "BEINGMADE" \notin MADE
        /\ \A f \in Flags : f # {} /\ "NOTMADE" \notin f => f = MADE \/ "BEINGMADE" \in f
    BY Zenon DEF Flags, MADE, BEINGMADE, NOTMADE
  <1>5. ASSUME NEW n \in ReachOf(g, Root), made[n] # MADE PROVE DeadOf(g, made, n)
    <2>1. CASE DoneOf(g, made, Root)
      BY <1>5, <2>1, Zenon DEF DoneOf
    <2>2. CASE "NOTMADE" \notin made[Root]
      <3>1. n = Root /\ Root \in ReachOf(g, Root)
        BY <1>3, <1>5, <2>2, ZenonT(30)
      <3>2. made[n] \in Flags /\ made[n] # {}
        BY <1>2, <1>3, <3>1, ZenonT(30) DEF Types, Supported
      <3>3. "BEINGMADE" \in made[n]
        BY <1>4, <1>5, <2>2, <3>1, <3>2, ZenonT(30)
      <3> QED BY <3>1, <3>3, Zenon DEF DeadOf
    <2> QED BY <1>1, <2>1, <2>2, ZenonT(30)
  <1>6. ASSUME NEW n \in ReachOf(g, Root), made[n] # MADE, \A p \in PrereqsOf(g, n) : made[p] = MADE
        PROVE  <<ti, n>> \in failed
    <2>1. PICK b \in ReachOf(g, n) : "BEINGMADE" \in made[b]
      BY <1>5, <1>6, ZenonT(30) DEF DeadOf
    <2>2. b = n \/ \E p \in PrereqsOf(g, n) : b \in ReachOf(g, p)
      <3>1. n \in Node
        BY <1>3, Zenon
      <3>2. \A m \in ReachOf(g, n) : m = n \/ \E p \in PrereqsOf(g, n) : m \in ReachOf(g, p)
        BY <1>3, <3>1, ReachDown, ZenonT(30)
      <3> QED BY <3>2, Zenon
    <2>3. ASSUME NEW p \in PrereqsOf(g, n), b \in ReachOf(g, p) PROVE FALSE
      <3>1. made[p] = MADE /\ p \in ReachOf(g, Root)
        BY <1>3, <1>6, ZenonT(30)
      <3>2. b = p \/ made[b] = MADE
        BY <1>3, <1>4, <2>3, <3>1, ZenonT(30)
      <3> QED BY <1>4, <2>1, <3>1, <3>2, ZenonT(30)
    <2> QED BY <1>1, <1>2, <2>1, <2>2, <2>3, ZenonT(30) DEF Failures
  <1> QED BY <1>1, <1>6, ActiveAre, GraphIs, ZenonT(30)

-----------------------------------------------------------------------------
(***************************************************************************)
(* The invariant.                                                          *)
(***************************************************************************)
SingleInv ==
    /\ MkInv /\ Single /\ AssertsHold
    /\ pc = "return" => mkstate = "alive"
    /\ mkstate = "alive" => Kept

\* mk starts.
LEMMA SingleInit == Init /\ Single => SingleInv
  <1> SUFFICES ASSUME Init, Single PROVE SingleInv
    OBVIOUS
  <1>1. pc = "start"
    BY Zenon DEF Init
  <1>2. /\ jobs = <<>> /\ calls = <<>> /\ mkstate = "alive" /\ \A s \in R!Slot : events[s].pid = NoPid
    BY Zenon DEF Init, R!Init
  <1>3. BusyIn(events) = {} /\ Range(jobs) = {} /\ DOMAIN jobs = {}
        /\ {i \in 1 .. Len(calls) : calls[i].k = "upd"} = {}
    BY <1>2, SchedulerAssumption DEF BusyIn, Range
  <1>4. Owner = {}
    BY <1>3, Zenon DEF Owner, OwnersOf, BusyIn
  <1>5. Placed
    BY <1>2, <1>3, ZenonT(30) DEF Placed, Apart
  <1>6. Ending
    BY <1>1, <1>4, Zenon DEF Ending
  <1>7. AssertsHold /\ pc # "return"
    BY <1>1, <1>2, Zenon DEF AssertsHold
  <1> QED BY <1>1, <1>5, <1>6, <1>7, MkInvInit, ZenonT(30) DEF SingleInv, Kept

\* Nothing changes.
LEMMA SingleStutter == SingleInv /\ UNCHANGED vars => SingleInv'
  <1> SUFFICES ASSUME SingleInv, UNCHANGED vars PROVE SingleInv'
    OBVIOUS
  <1>1. UNCHANGED <<jobs, events, calls, mkstate, g, opts, made, pc, ti, stack, did, runerrs, fake, job,
                    failed>>
    BY Zenon DEF vars, schedVars, nodeVars, mkVars, ghostVars
  <1>2. Root' = Root /\ dry' = dry /\ Owner' = Owner
    BY <1>1, Zenon DEF Root, dry, nflag, tflag, Owner
  <1>3. (Single => Single') /\ (AssertsHold => AssertsHold')
    <2>1. Single => Single'
      BY <1>1, SMTT(30) DEF Single
    <2>2. AssertsHold => AssertsHold'
      BY <1>1, Zenon DEF AssertsHold
    <2> QED BY <2>1, <2>2, ZenonT(30)
  <1>4. (Placed => Placed') /\ (Ending => Ending')
    BY <1>1, <1>2, Zenon DEF Placed, Ending
  <1>5. (Supported => Supported') /\ (Owned => Owned')
    BY <1>1, <1>2, Zenon DEF Supported, Owned
  <1>6. (Failures => Failures') /\ (Explored => Explored')
    BY <1>1, <1>2, Zenon DEF Failures, Explored
  <1>7. Entered(g, made, stack)' = Entered(g, made, stack)
    BY <1>1, Zenon
  <1>8. Kept => Kept'
    BY <1>1, <1>4, <1>5, <1>6, <1>7, ZenonT(30) DEF Kept, InMake
  <1> QED BY <1>1, <1>3, <1>8, MkInvStutter, ZenonT(30) DEF SingleInv

\* No assertion of mk() fails.
LEMMA NoAbort ==
    ASSUME SingleInv, Next
    PROVE  mkstate' # "abort"
  <1> SUFFICES ASSUME mkstate' = "abort" PROVE FALSE
    OBVIOUS
  <1>1. mkstate # "abort" /\ (mkstate = "alive" => Alive /\ Kept)
    BY Zenon DEF SingleInv, AssertsHold, MkInv
  <1>2. ASSUME pc = "empty", mkstate = "alive", runerrs = 0, made[Root] \cap {"NOTMADE", "BEINGMADE"} # {}
        PROVE  FALSE
    BY <1>1, <1>2, ZenonT(30) DEF Alive, Waited
  <1>3. ASSUME pc = "drain", mkstate = "alive", calls = <<>>, runerrs = 0, "MADE" \notin made[Root]
        PROVE  FALSE
    <2>1. Owner = {} /\ "NOTMADE" \notin made[Root] /\ pc # "start"
      BY <1>1, <1>3, ZenonT(30) DEF Kept, Ending
    <2>2. Types /\ Covered /\ Supported
      BY <1>1, <1>3, <2>1, Zenon DEF Alive, Kept, InMake
    <2>3. Root \in Node /\ Root \in ReachOf(g, Root)
      BY <2>1, <2>2, RootIs, ZenonT(30)
    <2>4. made[Root] \in Flags /\ made[Root] # {}
      BY <2>2, <2>3, Zenon DEF Types, Supported
    <2>5. "BEINGMADE" \in made[Root]
      BY <1>3, <2>1, <2>4, ZenonT(30) DEF Flags, MADE, BEINGMADE, NOTMADE
    <2> QED BY <1>3, <2>1, <2>2, <2>3, <2>5, ZenonT(30) DEF Covered
  <1> QED BY <1>1, <1>2, <1>3, AbortStep, ZenonT(30)

\* Every step keeps the invariant.
LEMMA SingleStep == SingleInv /\ SchedOK /\ SetFacts /\ Bounded' /\ [Next]_vars => SingleInv'
  <1> SUFFICES ASSUME SingleInv, SchedOK, SetFacts, Bounded', Next PROVE SingleInv'
    BY SingleStutter, Zenon
  <1>1. /\ MkInv /\ Single /\ AssertsHold /\ (pc = "return" => mkstate = "alive")
        /\ JobSeq /\ (mkstate = "alive" => Alive /\ Kept) /\ R!TypeOK
    BY Zenon DEF SingleInv, MkInv, SchedOK
  <1>2. MkInv'
    BY <1>1, MkInvStep, ZenonT(30)
  <1>3. Single'
    <2>1. g' = g
      BY OptsFixed, Zenon
    <2> QED BY <1>1, <2>1 DEF Single
  <1>4. AssertsHold'
    BY NoAbort, Zenon DEF AssertsHold
  <1>5. pc' = "return" => mkstate' = "alive"
    BY <1>1, ReturnsAlive, Zenon
  <1>6. mkstate' = "alive" => Kept'
    BY <1>1, NotAlive, KeptStep, ZenonT(30)
  <1> QED BY <1>2, <1>3, <1>4, <1>5, <1>6, ZenonT(30) DEF SingleInv

\* What the invariant says.
LEMMA SingleIs ==
    SingleInv => PrereqsMade /\ NoTwoWriters /\ AssertsHold /\ NothingLeftBehind /\ KeepsGoing
  <1> SUFFICES ASSUME SingleInv
               PROVE  PrereqsMade /\ NoTwoWriters /\ AssertsHold /\ NothingLeftBehind /\ KeepsGoing
    OBVIOUS
  <1>1. /\ AssertsHold /\ (pc = "return" => mkstate = "alive") /\ (mkstate = "alive" => Alive /\ Kept)
    BY Zenon DEF SingleInv, MkInv
  <1>2. PrereqsMade /\ NoTwoWriters
    BY <1>1, JobsAre, Zenon DEF PrereqsMade, NoTwoWriters
  <1>3. NothingLeftBehind /\ KeepsGoing
    BY <1>1, ReturnIs, Zenon DEF NothingLeftBehind, KeepsGoing
  <1> QED BY <1>1, <1>2, <1>3, ZenonT(30)

\* When mk() waits, work() could start nothing and the scheduler has no room.
LEMMA WaitIs == SingleInv /\ SchedOK /\ SetFacts => StartsAllItCan
  <1> SUFFICES ASSUME SingleInv, SchedOK, SetFacts, mkstate = "alive", pc = "waitup", calls[1].k = "wait"
               PROVE  /\ \A n \in Reach(Root) :
                            made[n] = MADE \/ \E b \in Reach(n) : "BEINGMADE" \in made[b]
                      /\ jobs # <<>> => nrunning >= R!nproclimit
    BY Zenon DEF StartsAllItCan
  <1>1. Alive /\ Kept /\ pc # "start"
    BY Zenon DEF SingleInv, MkInv
  <1>2. DoneOf(g, made, Root)
    BY <1>1, Zenon DEF Kept, InMake, Explored
  <1>3. \A n \in Reach(Root) : made[n] = MADE \/ \E b \in Reach(n) : "BEINGMADE" \in made[b]
    BY <1>2, GraphIs, Zenon DEF DoneOf, DeadOf
  <1>4. R!Updating = {}
    <2>1. calls = <<>> \/ Len(calls) = 1
      BY <1>1, Zenon DEF Alive, Waits
    <2> QED BY <2>1 DEF R!Updating
  <1>5. R!Cardinality({}) = 0
    BY Zenon DEF SetFacts
  <1>6. R!nproclimit \in Int /\ nrunning \in Int
    BY SchedulerAssumption DEF SchedOK, R!TypeOK, R!nproclimit
  <1>7. jobs # <<>> => R!nproclimit - nrunning <= 0
    BY <1>4, <1>5, Zenon DEF SchedOK, R!WorkConserving
  <1>8. jobs # <<>> => nrunning >= R!nproclimit
    BY <1>6, <1>7
  <1> QED BY <1>3, <1>8, Zenon

\* No step unmakes a node.
LEMMA SingleFinal ==
    SingleInv /\ SchedOK /\ SetFacts /\ [Next]_vars =>
        [pc # "start" => \A n \in Node : made[n] = MADE => made'[n] = MADE]_vars
  <1>1. ASSUME SingleInv, SchedOK, SetFacts, Next, pc # "start", NEW n \in Node, made[n] = MADE
        PROVE  made'[n] = MADE
    <2>1. (mkstate = "alive" => Alive /\ Kept) /\ R!TypeOK /\ Single
      BY <1>1, Zenon DEF SingleInv, MkInv, SchedOK
    <2> QED BY <1>1, <2>1, MadeStays, Zenon
  <1> QED BY <1>1, Zenon

-----------------------------------------------------------------------------
(***************************************************************************)
(* The scheduler again: what module MkRunProofs shows of it holds of the   *)
(* one the evaluation uses.                                                *)
(***************************************************************************)
RP == INSTANCE MkRunProofs WITH MaxNotes <- 0, MaxDepth <- 0

\* Its parts.
LEMMA RunParts ==
    /\ R!nproclimit = RP!nproclimit /\ R!Slot = RP!Slot /\ R!Busy = RP!Busy
    /\ R!FreeSlots = RP!FreeSlots /\ R!nextslot = RP!nextslot
    /\ R!Children = RP!Children /\ R!FreshPid = RP!FreshPid /\ R!Top = RP!Top
    /\ R!Status = RP!Status /\ R!Listed = RP!Listed
  <1>1. R!nproclimit = RP!nproclimit /\ R!Children = RP!Children /\ R!Listed = RP!Listed /\ R!Top = RP!Top
        /\ R!Status = RP!Status
    BY ZenonT(30)
       DEF R!nproclimit, RP!nproclimit, R!Children, RP!Children, R!Listed, RP!Listed, R!Top,
           RP!Top,
          R!Status, RP!Status
  <1>2. R!Slot = RP!Slot
    BY <1>1, ZenonT(30) DEF R!Slot, RP!Slot
  <1>3. R!Busy = RP!Busy
    BY <1>2, ZenonT(30) DEF R!Busy, RP!Busy
  <1>4. R!FreeSlots = RP!FreeSlots
    BY <1>2, <1>3, ZenonT(30) DEF R!FreeSlots, RP!FreeSlots
  <1>5. R!nextslot = RP!nextslot
    BY <1>4, ZenonT(30) DEF R!nextslot, RP!nextslot
  <1>6. R!FreshPid = RP!FreshPid
    BY <1>1, ZenonT(30) DEF R!FreshPid, RP!FreshPid
  <1> QED BY <1>1, <1>2, <1>3, <1>4, <1>5, <1>6, ZenonT(30)

\* sched().
LEMMA RunSched == \A q : R!SchedIfRoom(q) => RP!SchedIfRoom(q)
  <1>1. \A q : R!Sched(q) => RP!Sched(q)
    BY RunParts, ZenonT(30) DEF R!Sched, RP!Sched, R!slotVars, RP!slotVars
  <1> QED BY <1>1, RunParts, ZenonT(30) DEF R!SchedIfRoom, RP!SchedIfRoom, R!slotVars, RP!slotVars

\* run().
LEMMA RunRun == \A j : R!Run(j) => RP!Run(j)
  BY RunSched, ZenonT(30) DEF R!Run, RP!Run, Range, R!Range, RP!Range

\* waitup() reaps a child.
LEMMA RunReap == \A p : R!Reap(p) => RP!Reap(p)
  <1>1. \A p : R!pidslot(p) = RP!pidslot(p)
    BY RunParts, ZenonT(30) DEF R!pidslot, RP!pidslot
  <1>2. \A p : R!ReapWanted(p) => RP!ReapWanted(p)
    BY RunParts, ZenonT(30)
       DEF R!ReapWanted, RP!ReapWanted, R!Front, RP!Front, R!queueVars, RP!queueVars, R!slotVars,
           RP!slotVars
  <1>3. \A p : R!ReapJob(p) => RP!ReapJob(p)
    BY RunParts, <1>1, ZenonT(30) DEF R!ReapJob, RP!ReapJob, R!SetTop, RP!SetTop
  <1>4. \A p : R!ReapRogue(p) => RP!ReapRogue(p)
    BY RunParts, <1>1, ZenonT(30)
       DEF R!ReapRogue, RP!ReapRogue, R!pnew, RP!pnew, R!queueVars, RP!queueVars, R!slotVars,
           RP!slotVars
  <1> QED BY RunParts, <1>2, <1>3, <1>4, ZenonT(30) DEF R!Reap, RP!Reap, R!TopIs, RP!TopIs

\* The other steps of waitup() that the evaluation takes.
LEMMA RunWaits ==
    /\ R!NoChild => RP!NoChild
    /\ R!EndUpdate => RP!EndUpdate
    /\ \A ok : R!CallWaitup(ok) => RP!CallWaitup(ok)
  <1>1. R!NoChild => RP!NoChild
    BY RunParts, ZenonT(30)
       DEF R!NoChild, RP!NoChild, R!TopIs, RP!TopIs, R!Front, RP!Front, R!queueVars, RP!queueVars,
           R!slotVars, RP!slotVars
  <1>2. R!EndUpdate => RP!EndUpdate
    BY RunParts, RunSched, ZenonT(30)
       DEF R!EndUpdate, RP!EndUpdate, R!TopIs, RP!TopIs, R!Front, RP!Front, R!SetTop, RP!SetTop
  <1>3. \A ok : R!CallWaitup(ok) => RP!CallWaitup(ok)
    BY ZenonT(30) DEF R!CallWaitup, RP!CallWaitup, R!queueVars, RP!queueVars, R!slotVars, RP!slotVars
  <1> QED BY <1>1, <1>2, <1>3, ZenonT(30)

\* The end of mk, and of a recipe.
LEMMA RunEnds ==
    /\ \A how : R!Quit(how) => RP!Quit(how)
    /\ \A p : R!ExitReap(p) => RP!ExitReap(p)
    /\ R!ExitDone => RP!ExitDone
    /\ \A p, st : R!ChildExits(p, st) => RP!ChildExits(p, st)
  <1>1. \A how : R!Quit(how) => RP!Quit(how)
    BY ZenonT(30) DEF R!Quit, RP!Quit, R!queueVars, RP!queueVars, R!slotVars, RP!slotVars
  <1>2. \A p : R!ExitReap(p) => RP!ExitReap(p)
    BY RunParts, ZenonT(30)
       DEF R!ExitReap, RP!ExitReap, R!queueVars, RP!queueVars, R!slotVars, RP!slotVars
  <1>3. R!ExitDone => RP!ExitDone
    BY RunParts, ZenonT(30)
       DEF R!ExitDone, RP!ExitDone, R!queueVars, RP!queueVars, R!slotVars, RP!slotVars
  <1>4. \A p, st : R!ChildExits(p, st) => RP!ChildExits(p, st)
    BY ZenonT(30) DEF R!ChildExits, RP!ChildExits, R!queueVars, RP!queueVars, R!slotVars, RP!slotVars
  <1> QED BY <1>1, <1>2, <1>3, <1>4, ZenonT(30)

\* The steps that the evaluation does not take.
LEMMA RunRest ==
    /\ \A p : R!Pipecmd(p) => RP!Pipecmd(p)
    /\ \A p : R!Bquote(p) => RP!Bquote(p)
    /\ R!StartWait => RP!StartWait
    /\ R!ForkFails => RP!ForkFails
    /\ R!CheckPhead => RP!CheckPhead
    /\ R!Killchildren => RP!Killchildren
  <1>0. /\ R!MayRunCommand => RP!MayRunCommand
        /\ \A p : R!Fork(p) => RP!Fork(p)
        /\ \A i : R!pdelete(i) => RP!pdelete(i)
    BY RunParts, ZenonT(30) DEF R!MayRunCommand, RP!MayRunCommand, R!Fork, RP!Fork, R!pdelete, RP!pdelete
  <1>1. \A p : R!Pipecmd(p) => RP!Pipecmd(p)
    BY <1>0, ZenonT(30) DEF R!Pipecmd, RP!Pipecmd, R!queueVars, RP!queueVars, R!slotVars, RP!slotVars
  <1>2. \A p : R!Bquote(p) => RP!Bquote(p)
    BY RunParts, <1>0, ZenonT(30)
       DEF R!Bquote, RP!Bquote, R!queueVars, RP!queueVars, R!slotVars, RP!slotVars
  <1>3. R!StartWait => RP!StartWait
    BY RunParts, ZenonT(30)
       DEF R!StartWait, RP!StartWait, R!TopIs, RP!TopIs, R!SetTop, RP!SetTop, R!queueVars,
           RP!queueVars, R!slotVars, RP!slotVars
  <1>4. R!ForkFails => RP!ForkFails
    BY <1>0, ZenonT(30) DEF R!ForkFails, RP!ForkFails, R!queueVars, RP!queueVars, R!slotVars, RP!slotVars
  <1>5. R!CheckPhead => RP!CheckPhead
    BY RunParts, <1>0, ZenonT(30)
       DEF R!CheckPhead, RP!CheckPhead, R!TopIs, RP!TopIs, R!SetTop, RP!SetTop, R!Front, RP!Front,
           R!queueVars, RP!queueVars, R!slotVars, RP!slotVars
  <1>6. R!Killchildren => RP!Killchildren
    BY ZenonT(30) DEF R!Killchildren, RP!Killchildren, R!queueVars, RP!queueVars, R!slotVars, RP!slotVars
  <1> QED BY <1>1, <1>2, <1>3, <1>4, <1>5, <1>6, ZenonT(30)

\* Every step.
LEMMA RunNext == R!Next => RP!Next
  BY RunParts, RunRun, RunReap, RunWaits, RunEnds, RunRest, ZenonT(30) DEF R!Next, RP!Next

\* The scheduler that the evaluation uses is the one of those proofs.
LEMMA RunSpec == R!Spec => RP!Spec
  <1>1. R!Init => RP!Init
    BY RunParts, ZenonT(30) DEF R!Init, RP!Init
  <1>2. [R!OptNext]_R!optVars => [RP!OptNext]_RP!optVars
    BY RunNext, ZenonT(30)
       DEF R!OptNext, RP!OptNext, R!optVars, RP!optVars, R!vars, RP!vars, R!queueVars,
           RP!queueVars, R!slotVars, RP!slotVars
  <1> QED BY <1>1, <1>2, PTL DEF R!Spec, RP!Spec

\* What the proofs of the scheduler assume of its constants.
LEMMA RunConstants == (0 \in Nat /\ 0 \in Nat) /\ NoJob \notin Job /\ NoPid \notin Pid /\ NPROC \in Int
  BY SchedulerAssumption, MaxJobsAssumption, SMTT(30) DEF Job, NoJob

\* nextslot() finds a slot that is free, if there is one; finite sets.
LEMMA SetsAre == SetFacts
  <1>1. RP!FreeSlots # {} => RP!nextslot \in RP!FreeSlots
    BY RP!NextslotIsFree, RunConstants, ZenonT(30)
  <1>2. RP!Cardinality({}) = 0
    BY RP!FS_EmptySet, RunConstants, ZenonT(30)
  <1>3. R!Cardinality({}) = 0
    BY <1>2, ZenonT(30) DEF R!Cardinality, RP!Cardinality
  <1>4. ASSUME NEW L \in Nat, NEW S \in SUBSET (0 .. L), S # {}
        PROVE  \E m \in S : \A i \in S : m >= i
    <2> DEFINE T == {i \in Nat : i <= L /\ L - i \in S}
    <2>1. T # {} /\ T \in SUBSET Nat
      <3>1. PICK s \in S : TRUE
        BY <1>4, ZenonT(30)
      <3>2. L - s \in Nat /\ L - s <= L /\ L - (L - s) = s
        BY <3>1, SMTT(30)
      <3> QED BY <3>2, ZenonT(30)
    <2>2. PICK x \in T : \A y \in T : x <= y
      <3> HIDE DEF T
      <3> QED BY <2>1, RP!SmallestElement, RunConstants, ZenonT(30)
    <2>3. \A y \in S : L - y \in T
      OBVIOUS
    <2> QED BY <2>1, <2>2, <2>3, SMTT(30)
  <1> QED BY <1>1, <1>3, <1>4, RunParts, ZenonT(30) DEF SetFacts

\* Its variables have their types.
LEMMA RunTypes == R!Spec => []R!TypeOK
  <1>1. RP!Spec => []RP!TypeOK
    BY RP!TypeCorrect, RunConstants, PTL
  <1>2. RP!TypeOK => R!TypeOK
    <2>1. R!Frame = RP!Frame /\ R!ProcState = RP!ProcState
      BY RunParts, ZenonT(30) DEF R!Frame, RP!Frame, R!ProcState, RP!ProcState
    <2> QED BY RunParts, <2>1, ZenonT(30) DEF R!TypeOK, RP!TypeOK
  <1> QED BY <1>1, <1>2, RunSpec, PTL

\* It counts its slots, and they belong to its children.
LEMMA RunSlots == R!Spec => [](R!CountIsSlots /\ R!SlotsAreChildren)
  <1>1. RP!Spec => []RP!CountIsSlots
    BY RP!CountCorrect, RunConstants, PTL
  <1>2. RP!Spec => []RP!SlotsAreChildren
    BY RP!SlotsCorrect, RunConstants, PTL
  <1>3. RP!CountIsSlots => R!CountIsSlots
    BY RunParts, ZenonT(30) DEF R!CountIsSlots, RP!CountIsSlots, R!Cardinality, RP!Cardinality
  <1>4. RP!SlotsAreChildren => R!SlotsAreChildren
    BY RunParts, ZenonT(30) DEF R!SlotsAreChildren, RP!SlotsAreChildren
  <1> QED BY <1>1, <1>2, <1>3, <1>4, RunSpec, PTL

\* It serves the jobs in their order, wastes no slot, and has one for every job it starts.
LEMMA RunServes ==
    R!Spec => [](R!NeverOutOfSlots /\ R!FirstComeFirstServed /\ R!WorkConserving)
  <1>1. RP!Spec => []RP!NeverOutOfSlots
    BY RP!SlotsSuffice, RunConstants, PTL
  <1>2. RP!Spec => []RP!FirstComeFirstServed
    BY RP!FirstComeCorrect, RunConstants, PTL
  <1>3. RP!Spec => []RP!WorkConserving
    BY RP!ConservingCorrect, RunConstants, PTL
  <1>4. /\ RP!NeverOutOfSlots => R!NeverOutOfSlots
        /\ RP!FirstComeFirstServed => R!FirstComeFirstServed
    BY ZenonT(30) DEF R!NeverOutOfSlots, RP!NeverOutOfSlots, R!FirstComeFirstServed, RP!FirstComeFirstServed
  <1>5. RP!WorkConserving => R!WorkConserving
    BY RunParts, ZenonT(30) DEF R!WorkConserving, RP!WorkConserving, R!Updating, RP!Updating,
                           R!Cardinality, RP!Cardinality
  <1> QED BY <1>1, <1>2, <1>3, <1>4, <1>5, RunSpec, PTL

-----------------------------------------------------------------------------
(***************************************************************************)
(* Every graph.                                                            *)
(***************************************************************************)
\* The evaluation of every graph keeps what the scheduler promises: it counts its slots,
\* gives no slot to two children, never runs out of slots, starts the jobs in the order
\* in which dorecipe() creates them, and leaves no slot unused while a job waits.
THEOREM SchedulerKept ==
    Spec /\ []Bounded =>
        [](/\ R!CountIsSlots /\ R!SlotsAreChildren /\ R!NeverOutOfSlots
           /\ R!FirstComeFirstServed /\ R!WorkConserving)
  BY UsesTheScheduler, RunSlots, RunServes, PTL

\* What the proofs use of the scheduler.
LEMMA SchedAlways == Spec /\ []Bounded => []SchedOK
  <1>1. R!Spec => []SchedOK
    BY RunTypes, RunSlots, RunServes, PTL DEF SchedOK
  <1> QED BY <1>1, UsesTheScheduler, PTL

\* mk() is never stuck, on any graph: when nothing runs and work() can start nothing, its
\* target is made or there was an error.
THEOREM NeverStuckCorrect == Spec /\ []Bounded => []NeverStuck
  <1>1. MkInv => NeverStuck
    BY ZenonT(30) DEF MkInv
  <1>2. MkInv /\ SchedOK /\ Bounded' /\ [Next]_vars => MkInv'
    BY MkInvStep, SetsAre, ZenonT(30)
  <1> QED BY <1>1, <1>2, SchedAlways, MkInvInit, PTL DEF Spec

-----------------------------------------------------------------------------
(***************************************************************************)
(* The graphs whose rules have one target each.  Rules with two targets    *)
(* break each of these properties: a recipe takes along the other targets  *)
(* of its rule that are out of date, whether or not what they need is made *)
(* and whether or not they are being made already.                         *)
(***************************************************************************)
\* The invariant holds from the start.
LEMMA SingleAlways == Spec /\ []Bounded /\ Single => []SingleInv
  <1>1. SingleInv /\ SchedOK /\ Bounded' /\ [Next]_vars => SingleInv'
    BY SingleStep, SetsAre, ZenonT(30)
  <1> QED BY <1>1, SchedAlways, SingleInit, PTL DEF Spec

\* A recipe is queued and runs only when all that its target needs is made.
THEOREM PrereqsMadeCorrect == Spec /\ []Bounded /\ Single => []PrereqsMade
  BY SingleAlways, SingleIs, PTL

\* No two recipes that are queued or running make the same file.
THEOREM NoTwoWritersCorrect == Spec /\ []Bounded /\ Single => []NoTwoWriters
  BY SingleAlways, SingleIs, PTL

\* No assertion of mk() fails: when it stops waiting, and when it returns, its target is
\* made or there was an error.
THEOREM AssertsCorrect == Spec /\ []Bounded /\ Single => []AssertsHold
  BY SingleAlways, SingleIs, PTL

\* mk() returns only when no recipe is queued or running.
THEOREM NothingLeftCorrect == Spec /\ []Bounded /\ Single => []NothingLeftBehind
  BY SingleAlways, SingleIs, PTL

\* With -k mk() gives up a target only if it, or something it needs, could not be made.
THEOREM KeepsGoingCorrect == Spec /\ []Bounded /\ Single => []KeepsGoing
  BY SingleAlways, SingleIs, PTL

\* mk() waits only when it can start nothing more: whatever is not made needs something
\* that is being made or could not be, and no slot is free while a recipe is queued.
THEOREM StartsAllCorrect == Spec /\ []Bounded /\ Single => []StartsAllItCan
  <1>1. SingleInv /\ SchedOK => StartsAllItCan
    BY WaitIs, SetsAre, ZenonT(30)
  <1> QED BY <1>1, SingleAlways, SchedAlways, PTL

\* A node that is made stays made until the next call of mk().
THEOREM MadeIsFinalCorrect == Spec /\ []Bounded /\ Single => MadeIsFinal
  <1>1. SingleInv /\ SchedOK /\ [Next]_vars =>
            [pc # "start" => \A n \in Node : made[n] = MADE => made'[n] = MADE]_vars
    BY SingleFinal, SetsAre, ZenonT(30)
  <1> QED BY <1>1, SchedAlways, SingleAlways, PTL DEF Spec, MadeIsFinal
=============================================================================
