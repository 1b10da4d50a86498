# TLA+ models of goken9cc

goken9cc is a port of the Plan 9 tool chain: C compilers, assemblers and linkers for
a dozen machines, the C library they need, and the programs around them: `mk`, the
shell `rc`, `ar`, `yacc`, `lex`, `acid`.  This directory holds TLA+ models of the parts
of it that have behaviour worth model checking, TLC configurations, and proofs for TLAPS.
Paths below are relative to `src/`.

Three programs and libraries are modelled.  `mk` is what everything else is built with, and it
has real concurrency: it runs recipes in parallel, reaps them in whatever order they end, and
decides from file times, read at various moments, what is left to do.  The shell `rc` is what
`mk` runs its recipes with: a stack machine that forks copies of itself.  `libbio` is
the buffered input and output of all the tools.

## The parts of the system

| part | code | what it does, and what can go wrong | here |
|---|---|---|---|
| mk, scheduler | `mk/run.c`, `mk/exec_fork.c`, `mk/goken.c`, `mk/notify_full.c` | queue of jobs, `$NPROC` slots, `waitup()`, which is reentrant, notes | `MkRun`, proved |
| mk, evaluation | `mk/mk.c`, `mk/recipe.c`, `mk/file.c`, `mk/main.c` | depth-first `work()`, `dorecipe()`, `update()`, flags and times of nodes | `Mk`, proved in part |
| mk, graph | `mk/graph.c`, `mk/rule.c`, `mk/match.c` | rules and metarules to a graph: ambiguity, cycles, `vacuous()` | `MkGraph`, model checked |
| mk, reader | `mk/parse.c`, `mk/lex.c`, `mk/varsub.c`, ... | text of mkfiles; its commands are actions of `MkRun` | not modelled |
| mk, archives | `mk/archive.c` | times of archive members, the time cache | not modelled |
| rc, machine | `rc/exec.c`, `rc/executils.c`, `rc/processes.c`, `rc/simple.c`, `rc/trap.c`, `rc/goken.c` | a virtual machine with a stack of threads; pipelines, `wait`, notes | `Rc`, proved in part |
| rc, compiler | `rc/code.c` | command trees to code | `RcCode`, used by `Rc`; what it promises is `RcFrames` |
| rc, reader and variables | `rc/lex.c`, `rc/var.c`, `rc/glob.c`, ... | text, values of variables | not modelled |
| libbio | `lib_core/libbio` | buffered files: seek, unget, lines, short reads and writes | `Bio`, `BioFile`, proved |
| libc | `lib_core/libc/port` | exit handlers, `cleanname()`, `qsort()` | not modelled |
| libregexp | `lib_strings/libregexp` | simulation of an automaton | not modelled |
| ar, 5l | `linkers/ar`, `linkers/5l` | rewriting an archive; fixpoints over the program | not modelled |
| compilers, assemblers, other linkers, libmach, acid, emulators, yacc, lex, utilities, troff | | sequential transformations of large data | not modelled |

mk reads its mkfiles (running a command for every backquote and every `<|`), builds a graph
for a target and hands it to `mk()`.  `mk()` calls `work()` on the root again and again.
`work()` walks down the graph and calls `dorecipe()` for a node that is out of date and whose
prerequisites are made; `dorecipe()` gives a job to `run()`.  When nothing is left that could
be started, `mk()` calls `waitup()`, which reaps a recipe, calls `update()` for its targets and
starts the next job of the queue.  `update()` may have to compare two files with the program
of a P attribute, which runs as another child and is waited for by a nested `waitup()`.

rc reads a line, compiles it and runs its code in a new thread; a pipeline, `&`, `@`, a backquote
and `<{}` fork a copy of the shell that runs a part of the code up to `Xexit`, and the shell waits
for it at once or later.  Both programs only meet at the exit status of a recipe, which `Mk` takes as
any outcome; libbio is used by the tools, and no program is composed with it.

`PROJECT.json` lists all parts with what is left out and why, the hazards of the code with the
properties that would show each of them, and, for every definition, the lines it models.

## The modules

| module | models |
|---|---|
| `MkRun` | the scheduler |
| `Mk` | the evaluation of a graph, on top of the scheduler, with the recipes and the files |
| `MkGraph` | how the rules of a mkfile become such a graph |
| `RcCode`, `Rc` | the compiler of rc, and its machine with processes and notes |
| `RcFrames` | what the machine relies on in the code it is given |
| `Bio`, `BioFile` | a buffer of libbio on a file; the file as its reader sees it |
| `MCMkRun`, `MCMk`, `MCMkGraph`, `MCRc`, `MCBio` | the constants for TLC: symmetry, graphs, mkfiles, sessions, files; `MCRc` also has the meaning of a command line |
| `MkRunProofs` | proofs about `MkRun`: types, slots, queue, nested `waitup()`s, notes |
| `MkWorkProofs` | proofs about `Mk`: it uses the scheduler as `MkRun` allows; the invariant of `mk()` and `work()` for every graph |
| `MkSingleProofs` | proofs about `Mk`: the invariant of graphs whose rules have one target each, step by step |
| `MkProofs` | proofs about `Mk`: the theorems, from both invariants and what is proved of `MkRun` |
| `BioReadProofs` | proofs about `Bio`: input, and that it implements `BioFile` |
| `BioProofs` | proofs about `Bio`: whole lines, output, types |
| `RcFamilyProofs` | proofs about `Rc`: threads and stacks of threads; who waits for whom |
| `RcFrameProofs` | proofs about `Rc`: the stacks of its threads, operation by operation; the theorems |

A definition `Broken_X` is `X` with a plausible mistake in it.  `PROJECT.json` names, for every
property of every run, such a definition which TLC finds out by that property.  They are not
part of the specifications.

### MkRun

| variable | code |
|---|---|
| `jobs` | the list `jobs` of `run.c` |
| `events`, `nrunning` | `events[]`, the slots, and `nrunning` |
| `procs` | the children of mk as the kernel has them: `running`, or ended with a status and not reaped |
| `phead` | the list of reaped children that were not jobs |
| `calls` | the stack of the activations of `waitup()` |
| `kflag` | `-k`, which `killchildren()` sets too |
| `dry` | `-n` or `-t`: `sched()` takes a job from the queue and starts nothing |
| `mkstate` | `alive`, `exiting` (in `Exit()`, which waits for the children), `dead`, or the assertion or fatal error that ended mk |
| `order`, `started` | history: jobs given to `run()`, jobs taken from the queue |

An activation is `reading` (the command was forked and its output is parsed), at the `entry`
of `waitup()`, in `wait`, or in `upd`, the loop over the targets of a finished job.  In `reading`
and `upd` further commands may be run, and so activations nest.  Each activation knows the pid it
wants, if any: `waitup()` returns when it reaps that one.  `Reap` is the body of `waitup()` with
its three outcomes: the process wanted, a job (slot and count change at once; a failed
recipe without `-k` drops the queue and ends mk), or a stranger, which goes to `phead`.  `EndUpdate`
is the end of `waitup()`: `sched()` if there is room, then the return to the caller.  `Killchildren`
is the handler of a note: it may come between any two steps, drops the queue and reaps until no
child is left, on top of whatever it interrupted.

Left out: the `usage()` profile, the text of the recipe and the environment of the shell, the
messages.  A note is taken between actions: `run()` and `sched()` are not interrupted half way.

One assumption is about the system and not about the code: the kernel does not give a new child
a pid that `phead` still lists (`FreshPid`).  mk matches processes by pid only, and entries that
nobody asks for stay in the list.

### Mk

`Mk` has the variables of `MkRun` and instantiates it as `R`; its actions use the actions of `MkRun`
as conjuncts, so that what is proved of `MkRun` holds in it.  `stack` holds the activations of
`work()`, which proceeds arc by arc (`WorkArc`, `WorkBack`) and ends in one of `WorkSeen`,
`WorkLeaf`, `WorkNotReady`, `WorkUpToDate`, `DoNoRecipe` and `DoRecipe`; recipes end between any two
of these steps.  `TouchFails` is the way out of `touch()` when a file cannot be touched: mk exits.  `MkStart` to `MkReturn` are the statements of `mk()`.  `made` is the part of
`Node.flags` that says how far a node is, `time` is `Node.time`, `next` the links of a job's node
list.

`mtime` and `clock` are the file system.  The clock may or may not advance when a file
is written, so that files with equal times occur.  `stale` is history: the pairs of a file and an
input of which it was not made as it is now.  It is set by the recipes and compared with what mk
believes: `UpToDate` does not speak of times.

A recipe that succeeds writes its targets; one that fails leaves them or leaves garbage in them.
Left out: arcs with a P program (they are in `MkRun`), members of archives, pretended nodes
(`iflag` is true in every run of the program, `mk/globals.c:47`), the option `-w`.

### MkGraph

A mkfile is a list of declarations.  `addrule` enters one target of one declaration at a time into
`rules`, `chain` (the rules of a target, in the order `applyrules()` tries them) and `metarules`.
Then `graph()` runs its passes, one action each: `ApplyRules`, `Cyclechk`, `Vacuous`, `Ambiguous`,
`Attribute`; `phase` says which is next, or that mk has stopped with a cycle or with ambiguous
recipes.  `node` is the table of nodes.  The passes are recursive functions of the graph, and are
written as such.

A name is a sequence of parts, so that `%` and `&` match what they match in the code (the empty stem,
and for `&` no dot), without characters.  A recipe is the number of its declaration: the code
compares pointers.  `flags` hold what the passes use; the conversion of `flags&VACUOUS` to an 8-bit
`bool` is part of the model (`AsBool`), as it decides what is pruned.  A file exists or not; times do
not matter here.  Left out: a second `graph()` with `-s`, which finds the nodes of the first;
regular expressions, since `applyrules()` matches them and then does nothing; `$NREP` is a constant.

### RcCode and Rc

`RcCode` compiles a tree as `outcode()` does, with one cell for an operation and its operands.
Words are data and emit nothing, but the lists they are collected in are kept.  In `Rc` each process
is a record: its threads `q` (`runq` and what `->ret` leads to), `$status`, functions, pending notes,
and `mode`, which is what it is blocked in: `simple` (the wait of `Xsimple`, which is repeated until
it succeeds), `wait`, `read` (a backquote), `parse`, `trap` (in `dotrap()`).  A thread counts the lists,
redirections and local variables it has pushed.  Every operation of the machine is an action
of its name; those that block are split where they block.  A wait may return any child that
has ended (`Waitfor`), a note may come between any two steps, and may or may not interrupt the system
call it meets.  An external command is a process that ends with any status of `Codes`.  Where the code
calls `Xerror` or `Xerror1` the operation may fail: a system call did, the name of a variable is not one word, or
a command has no words; `errs` says how many do in a session.

The kernel is modelled as rc uses it: children of a process that has ended belong to init, a pipe is
at its end when no process has it open.  Left out: the values of variables, words, globbing, here
documents; what redirections do to file descriptors; the builtins other than `exit` and `wait`; a `.`
inside a session.  A session is what `rcmain` reads with `.`, so `eflagok`, which is false only in `rcmain` itself, is left out
too.  So is the `abort()` of a shell with 32 notes pending (`notify_full.c:56`): the model goes on, and has more behaviours.

The machine checks nothing at run time: that a list is there when an operation pops one, and that a child
never runs on into the code of its parent, is up to the code.  `RcFrames` says what that takes.  `Shape(c)`
gives, for each cell of the code `c`, how many lists, redirections and locals a thread has there at least, and
whether the thread is the first of a child; `Agrees` compares a cell with those it leads to or starts a thread
at, and `WellMade` is that for a whole line.  That `outcode()` emits such code is the assumption
`CompilerAssumption`; `MCRc` computes the shapes by following the code (`MCShape`), and TLC evaluates the assumption
for all lines of all sessions of the run `shell`.

### Bio and BioFile

`Bio` has one `Biobuf`, the file it is open on, and a caller that makes any call at any time.
`buf` is indexed from its end as the code does; `bbuf` is `-bsize`.  A read returns any number of
bytes up to what was asked for, or fails; so does a write.  Loops take one step for each system
call or copy; `pc`, `i` and `c` are the place and the locals of the call.  `out` holds the bytes
the call has delivered, `want` what the caller has written where.

The caller keeps to four rules, which the code does not check.  It gives back only bytes that `Bgetc`
returned, at most `Bungetsize` of them.  It does not call `Brdline` or `Brdstr` when it has given
back so much that more than a buffer is left, since `Brdline` would drop the bytes before the
buffer.  It does not seek after reading on at the end of the file (`Trusted`): `Bgetc` sets
`gbuf` before it looks at what `read()` returned, and a seek back would then find old bytes.  Not every program of the
repository keeps that rule: `diff` seeks to the beginning of a file without a last newline after it has met the end twice
(`utilities/compare/diff/diffreg.c:415`).  And the buffer
it gives to `Binits` holds at least twice `Bungetsize` bytes.  Without the second or third rule TLC finds
reads that do not return the file.

`Brdstr` does not look at what `Bread` returns and counts all the bytes it asked for (`BrdstrRead`): a `Bread` that
delivers less would leave `Junk` in the string, which `TypeOK` and `LinesAreWhole` exclude.

`BioFile` is what a reader may expect: a file with a position, calls that deliver the bytes from there
on, `Unget` and `Move`.  The position is `Boffset` between calls, and during a call what its locals say.
Left out: runes, `Bgetd`, `Bprint`, which are loops over these calls; a failing `seek()` or `malloc()`;
the table of buffers that `batexit()` flushes.

## The runs

| run | constants | shows |
|---|---|---|
| `scheduler` | 4 jobs, 3 pids, 2 slots, nesting 3, one note | `CountIsSlots`, `SlotsAreChildren`, `NeverOutOfSlots`, `NeverStranded`, `FirstComeFirstServed`, `WorkConserving`, `NothingStartsAfterKill` |
| `scheduler_liveness` | 2 jobs, `$NPROC` = 0, nesting 2 | `EveryJobEnds`, `EveryWaitReturns` |
| `evaluation` | every graph of 4 nodes; graphs with virtual nodes, rules with several targets or without prerequisites or recipe, D and N attributes; two calls of `mk()`; file times 2 and 3 or no file; 2 slots; with and without `-k`; `-a`, `-n`, `-t` for some | `PrereqsMade`, `NoTwoWriters`, `UpToDate`, `MakesWhatIsNeeded`, `MadeFilesExist`, `AssertsHold`, `NothingLeftBehind`, `KeepsGoing`, `TouchedInOrder`, `MadeIsFinal`, `StartsAllItCan` |
| `termination` | every graph of 4 nodes | `Terminates` |
| `graph` | every list of up to three of sixteen declarations; 5 sets of files; 2 targets | `CycleFound`, `RegularRulesKept`, `OneRecipe`, `PrunesOnlyVacuous`, `FlagsOfKeptRules` |
| `shell` | 511 sessions of one or two lines; 6 processes; commands end with 0 or 1; one note or one failing call in some | `NoPanic`, `AwaitedIsChild`, `PipelineFindsChild`, `OneReader`, `MeansWhatItSays`, `Ends` |
| `bio` | a buffer of 2 bytes and 2 more to give back; files of 0 and 5 bytes, with and without newlines; calls of up to 3 bytes | `GoodData`, `LinesAreWhole`, `FlushedMeansWritten`, `NothingLost`, `ReadsTheFile` |

The bounds.  With two slots and four jobs two jobs wait, so that their order matters.  A nesting of three has an
activation that waits for a process, one inside it that reaps that process, and the loop of
`killchildren()` on top.  Three pids are a job in each slot and a command.  The theorems
below show that the safety properties of `MkRun` do not depend on these numbers.  Graphs of four nodes
include the chain, the diamond and the fork with a shared source; only graphs without
superfluous arcs are enumerated, as an arc that a longer path duplicates adds no order.
The times 2 and 3 with a clock that may stand still give older, equal and newer files.  `MaxJobs`
limits nothing: each node gets at most one job for each call, and `TypeOK` would show an excess.
`MaxClock` lets the clock advance at three writes, wherever they fall; after that it stands still.
`MaxNotes` and `MaxDepth` bound only `MkRun`; in `Mk` there are no notes and no nested commands.

Three declarations are enough for a metarule to compete with a regular rule, for two rules to share a
prerequisite, for a cycle through two rules and for a rule that replaces another; a name has at most
one dot.  `nreps` is 1, mk's default.  The sessions of rc are all ways to nest two of the binary
commands (`;`, `&&`, `||`, `if`, `|`) or a binary and a unary one, with and without `-e`, all balanced
nestings of three binary ones, loops, switches and functions around each way to start a process,
background jobs, and lines with a note or an error.  Six processes are as many as any of them has
at one time: some use all six, and no fork finds none free.  One note is enough to interrupt any operation; a note that
comes while another is being handled is only in the proofs.  A buffer of two bytes is filled, left half full and emptied by calls of up to three
bytes; a file of five bytes is longer than two buffers and holds a line that is longer than one.
What is proved of `Bio` does not depend on these numbers.

Pids and jobs are interchangeable, and runs without liveness use that symmetry.  Deadlock is
not checked: mk and rc are supposed to stop, and a program may stop calling libbio.

Fairness.  Every child ends: mk has no timeout, a recipe that runs for ever makes mk wait for
ever.  mk is one thread that only blocks in `wait()`, so its enabled steps are taken.  In `MkRun`
the callers are not modelled, and fairness has to say that they come back: strong fairness for
`mk()` calling `waitup()`, and for each depth of nesting that the loop which runs commands, over
the arcs of a node or the lines of a file, comes to its end.  In `Mk` the callers are modelled, and
weak fairness of mk's next step and of the end of each recipe is enough.  In `Rc` it is weak fairness of
the system: as long as some process can take a step or some command can end, something happens.
Notes and errors are under no obligation.

### What disagrees with the documentation

Five runs end in a violation.  They state what `docs/mk.ms` or an assertion in the code says:

| run | what happens |
|---|---|
| `sibling_prerequisite` | `y.c y.h: y` and `y.h: d`: the recipe of the first rule is started for `y.c` and makes `y.h` as well while `d` is not made and has no job; `y.h` then counts as made, and `work()` never comes to `d` |
| `override_assert` | `%.a %.b: %.c` and `x.b: x.d`: the recipe of the metarule, run for `x.a`, has `x.b` in `$target`, and runs beside the recipe that overrides it for `x.b`; the root's job is started when one of the two has ended, `mk()` waits for one job only and gets the other one, and the assertion at its end fails |
| `part_of_targets` | `y.c y.h: y`, `prog: y.c y.h`, `s: y.h` and `mk -s prog s`: of the two targets only `y.c` is out of date, but its recipe writes `y.h` too; mk keeps the old time of `y.h`, and the second call takes `s`, made from the old `y.h`, as up to date |
| `missing_after_failure` | `mk -k -s a b`: the missing file `c`, whose recipe failed for `a`, has the time 1 in the second call and counts as made |
| `vacuous_metarule` | `%: %.a`, `%.a: %.c`, `%: %.c` and no `x.c`: the second question whether `x.c` is vacuous is answered no, since the flag is lost in the conversion to `bool`, and the third rule is not pruned |

`evaluation` and `graph` show that the properties in question hold where these features of mkfiles
do not meet, and that `vacuous()` errs only on the side of keeping a rule.  (`docs/mk.ms` also says that missing intermediates are not built; as `iflag` is always
set, that part of `work()` is never executed, and is not in the model.)

## What is proved

### The scheduler

TLAPS checks proofs of these theorems about `MkRun`, for any set of jobs and pids, any `$NPROC`,
with and without `-n`, for any number of notes and any depth of nesting:

| theorem | property |
|---|---|
| `TypeCorrect` | `TypeOK` |
| `CountCorrect` | `CountIsSlots`: `nrunning` is the number of slots in use |
| `SlotsCorrect` | `SlotsAreChildren`: slots in use belong to different children, not yet reaped |
| `SlotsSuffice` | `NeverOutOfSlots`: the assertion of `nextslot()` holds |
| `FirstComeCorrect` | `FirstComeFirstServed`: jobs start once each, in the order of `run()` |
| `KillCorrect` | `NothingStartsAfterKill`: after a note no recipe is started |
| `WaitersCorrect` | `NeverStranded`: a `waitup()` for one process gets its status |
| `ConservingCorrect` | `WorkConserving`: a slot is free while a job is queued only if somebody is on the way to `sched()` |

The assumptions are those the module states: `NPROC` is an integer, `NoPid` and
`NoJob` are no pid and no job, the bounds are natural numbers.

*Slots.*  `CountIsSlots` is not inductive.  That a reaped child has one slot needs
`SlotsAreChildren`; that the child an activation waits for has none, so that `waitup()` may return
without looking for a slot, needs `WaitersFindTheirs`: every process an activation wants is a child
or in `phead`, has no slot, and is wanted by one activation only.  `SlotInv` is the conjunction.  A new
child gets a pid that no slot, no list entry and hence no activation has, which is where `FreshPid`
is used.  `NeverOutOfSlots` follows, because `nrunning < nproclimit` then means that a slot is free.

*The stack.*  `StackInv` says what nesting preserves: `killchildren()` wants no process; an
activation blocked in `xwaitfor()` below the top has been interrupted by a note, and
`killchildren()` is above it and never returns; after a note the queue is empty; and the innermost
activation blocks only if `phead` does not list what it wants.  From the third, nothing starts after a
note.  From the last and `WaitersFindTheirs`, an activation that finds no child wanted none.

*The queue.*  `FirstComeFirstServed` is inductive by itself: `sched()` moves the head of the queue to
the end of `started`.  `WorkConserving` needs `DryInv`: with `-n` or `-t` the queue is empty between
steps, since `sched()` then takes a job without filling a slot.

### The evaluation

These hold for any number of nodes, any set of graphs in the sense of `IsGraph`, any options and files, any set of
pids and any `$NPROC`, and whenever and however the recipes end:

| theorem | module | property |
|---|---|---|
| `SchedulerKept` | `MkProofs` | what is proved of `MkRun` about slots and queue holds while mk evaluates a graph |
| `NeverStuckCorrect` | `MkProofs` | `NeverStuck`: `mk()` never finds that nothing runs and nothing can be started while its target is unmade, unless there was an error |

and these for the graphs in which no rule has two targets (`Single`):

| theorem | module | property |
|---|---|---|
| `PrereqsMadeCorrect` | `MkProofs` | `PrereqsMade`: a recipe is queued and runs only when all it needs is made |
| `NoTwoWritersCorrect` | `MkProofs` | `NoTwoWriters`: no two recipes at a time make the same target |
| `AssertsCorrect` | `MkProofs` | `AssertsHold`: both assertions of `mk()` |
| `NothingLeftCorrect` | `MkProofs` | `NothingLeftBehind`: `mk()` returns when no recipe is queued or running |
| `KeepsGoingCorrect` | `MkProofs` | `KeepsGoing`: with `-k` a target is given up only if it, or something it needs, could not be made |
| `StartsAllCorrect` | `MkProofs` | `StartsAllItCan`: `mk()` waits only when it has started all it could |
| `MadeIsFinalCorrect` | `MkProofs` | `MadeIsFinal`: a node that is made stays so during a call of `mk()` |

All have the hypothesis `[]Bounded`, that no more than `MaxJobs` jobs are created: `MaxJobs` bounds the job numbers of the model and is
nothing in the code.  `Single` is a hypothesis on the graph at the start.  It excludes what the runs `sibling_prerequisite` and
`override_assert` show: a recipe takes all old targets of its rule along, whether or not what they need is made and whether or not
another rule makes them.  On the graph of `sibling_prerequisite` each of the seven fails.  The run `evaluation` checks the same properties on some graphs with such rules, for which they hold.

*The scheduler.*  `MkRun` does not run a job twice and lets only its environment call `waitup()`.  A job number of `Mk` is the
length of `job` plus one, so it is new, and `mk()` calls `waitup()` only when it is in none.  What is proved of `MkRun` then carries over
with the refinement mapping (lemma `UsesTheScheduler`).

*Every graph.*  The assertion in the loop of `mk()` is about a round of `work()` that has started nothing: something must be running then.
`MkInv` says why.  `PathOK`: the activations of `work()` are a path of the graph.  `Settled`: a prerequisite that was found made
is not the node of an activation further up the stack.  `Reasons`: a node that work() found out of date is still out of date when its recipe is started, so
that it is among the targets of its own job.  `Blocked`: in a round that has started nothing, an activation that is
not ready has met a node that is being made.  `Covered`: as long as there was no error, such a node is a target of a job that is queued, that
has a slot, or whose targets `waitup()` is about to update.  So when `waitup()` finds no child, no slot is taken and, by `WorkConserving`, no job is
queued; no node is being made; and the last round has made the target.

*One target to a rule.*  `Kept` adds what such graphs have.  `Supported`: a node that is made, or being made, has all its prerequisites
made, and so has all below it.  `Owned`: the targets of a job are being made as long as it is queued or runs, and no two jobs share one.
`Placed`: a job is in one place only, the queue, a slot or the activation of `waitup()` that reaped it.  `Entered`: the nodes on the
stack are not made, which is what makes `Owned` inductive, since the new job gets the node on top.  `Failures`: a node that is being made without a job could not be made.
`Explored`: after a round that has started nothing, each node below the target is made or has one below it that is being made or has failed.
`Ending`: `mk()` leaves its loop with a target that is made or being made, or after an error with nothing left to do.  The second assertion holds
because the job of the target is the only one left when `mk()` waits for it: everything below it is made.
`StartsAllItCan` is `Explored` at the moment `mk()` waits, with `WorkConserving` for the slots: no other `waitup()` is on its
way to `sched()` then.

### libbio

These hold for every size of the buffer and of what can be given back, every file, every sequence of
calls by a caller that keeps to the rules above, and whatever the reads and writes return:

| theorem | module | property |
|---|---|---|
| `NothingIsLost` | `BioProofs` | `NothingLost`: every byte written is in the file, or in the buffer at the cell of its place |
| `FlushWritesEverything` | `BioProofs` | `FlushedMeansWritten`: after a flush that reports success all of it is in the file |
| `DataIsGood` | `BioReadProofs` | `GoodData`: from `gbuf` on, and where `Bungetc` may go back to, the buffer holds the bytes of the file |
| `ReadsAsAFile` | `BioReadProofs` | `ReadsTheFile`: `Bio` implements `BioFile` |
| `BrdstrReturnsLines` | `BioProofs` | `LinesAreWhole`: `Brdstr` returns the file from the caller's place to the first newline or the end |
| `BiobufIsTyped` | `BioProofs` | `TypeOK`: the counts never pass the ends of the buffer, in either mode |

The assumptions are those of `Bio`: the sizes, that `Junk` is no byte, and that the files are
functions from positions to bytes.  The bounds on positions and counts are arbitrary.

*Output.*  `WInv` is `NothingLost` and `FlushedMeansWritten` with the types of what the output functions use
and with which states belong to which mode.  `NothingLost` speaks of the local `i` while `Bwrite` is
in progress, because `ocount` is stale then.  That a flush writes everything follows from it: when
the buffer is empty, no position is in the buffer.

*Input.*  `GoodData` speaks of the state between calls, and is not inductive.  `RInv` says what the buffer
holds inside each call: `RBread`, that the local `i` has taken the place of `icount`; `RBrdline`, that at
most `bsize` bytes are left; `RFill`, that the `i` bytes `Brdline` has so far are at the beginning of the
buffer and are those before `offset` (`Prefix`).  The lemmas `GoodBgetc`, `GoodBread`,
`PrefixMove`, `PrefixMore`, `GoodBack` and `GoodFull` say what each `memmove` does to that.  `GoodBgetc` is where
the size of the buffer has to be at least `Bungetsize`: the bytes kept below the new ones must be
those that were just before them.

*Refinement.*  `RInv` with the types of the file and of `out` (`ROut`) is enough.  Every action is a step of
`BioFile` or leaves its variables alone: copying and finding a line are `Deliver` of the cells copied, which
by `RInv` are the bytes at the position (`GoodCells`, `PrefixCells`); filling the buffer moves `offset`
and the count by the same amount, so the position stays; `Bungetc` is `Unget`; `Bseek` and `Bflush` are `Move`.

*Lines.*  `LinesAreWhole` speaks of the moment `Brdstr` returns; `LInv` says how it gets there.  The string so far
is the part of the file from where the caller was up to some `m`, without a newline, and `LPhase(m)` says what the call
of `Brdline` or `Bread` in progress adds to it.  The difficult piece is a `Brdline` that finds no newline: what it looked at
stays in the buffer, `rdline` says how much that is, and `Bread` is asked for just that.  So it returns without a
read of its own (`i = -c`), and what it returns has no newline.  When `Brdline` returns nothing at all, the file
is at its end, a read has failed, or the buffer is inactive; for `Bracteof` that needs `LEof`.

*Types.*  The invariants of the two modes give the types of what the mode uses.  What remains is that `memmove` takes
its bytes from inside the buffer (`MoveType`, `ArriveType`).

### The shell

| theorem | module | property |
|---|---|---|
| `NoOperationPanics` | `RcFrameProofs` | `NoPanic`: no operation pops what its own thread did not push, none runs past its code |
| `OnlyShellReads` | `RcFrameProofs` | `OneReader`: no child comes back to the loop that reads commands; for calm sessions |
| `WaitsForItsChild` | `RcFrameProofs` | `AwaitedIsChild`: the process that `Xsimple` or a backquote waits for is a child that nobody has collected |
| `PipelinesFindTheirChild` | `RcFrameProofs` | `PipelineFindsChild`: so is the left side of a pipeline, or its status was stored; if no number is used again too early |

They hold for any set of processes, any sessions of any number of lines, any number of notes and failing calls, and any
statuses of commands.  The assumptions are in `RcFrames`: pids are positive and the shell has one; the names of the
notes are names of functions; a session consists of lines of cells with its flags; and each line is well made in the sense
above.  They are about the code of a line and not about how it is run: the theorems say that for such code every
interleaving of the processes, with every note and error, keeps the stacks in order.

*Stacks.*  `FrameInv` says of every thread that it is at a cell of its code and holds at least what `Shape` says
(`ThreadOK`), and of every function that it begins where a thread with its arguments may (`FnOK`).  `NoPanic` follows
from `Agrees` at the cell.  It is inductive because each operation either moves its thread along an edge that
`Agrees` covers, or starts one at a cell that `Starts` or `FnOK` covers (a function, or the handler of a note), or removes threads from
the top, as an error and the end of a line do; then the thread that appears is one that was there.  rc's own code (the command loop, and the cell under
it) has its shapes in `dotHeld` and `bootHeld`.  That a set of numbers has a smallest element, which `fork()` and the
search for a thread use, is the hypothesis `Ordered` of the lemmas; `OrderedIs` discharges it before the theorems.

*The reader.*  `ChildOK` is why a child does not read commands.  Its first thread, the one above `base`, is in code that
ends in `Xexit`, and only code of the session runs above it.  The threads below `base` are copies of its parent's.  They
can come to run only when an error unwinds to an interactive thread: `Xerror` pops threads until one has `iflag`.  A
session is `Calm` if it is not interactive, has no failing call, or no backquote, whose child is the one that keeps
its parent's threads.  Without that the property is false (see *Not modelled*): in an
interactive shell, when the fork of the subshell in `` a `{@ b} `` fails, TLC finds the child at the command loop.

*Children.*  `Family` says that a process in the wait of `Xsimple` or in a backquote waits for a child that is there, and
that a thread which has still to wait for a left side stays at its `Xpipewait`.  It holds of every session: only
the process itself collects its children, and it is blocked.  `Pipelines` says in addition that two such threads wait for two
processes, neither of which is `$apid` or is being waited for; without that a `wait` would collect it and store the status in
the wrong thread.  `Pipelines` is only kept if `fork()` gives no new process a number that some
shell still has in `$apid` (`Fresh`), and the theorem has that as a hypothesis on the steps.  It is needed: in
`a & ; wait ; b | wait $apid` the left side of the pipeline may get the number of `a`, and the `wait` collects it.
TLC finds that in a session of these lines, since the model gives a new process the smallest number that is free; the
sessions of the run `shell` do not include it, and a kernel that goes through its numbers in order does not do this
before they wrap around.

### Only model checked

* `UpToDate`, `MakesWhatIsNeeded`, `MadeFilesExist` and `TouchedInOrder` of `Mk`, and its `TypeOK`.  They speak of the inputs of a
  node through virtual nodes, of the nodes that have to be made, of node times after a chain of updates, or of the links of a job: each is
  a recursive function of the graph, and what it computes would have to be shown by induction over data, which is out of reach of the
  prover.
* `Mk` on graphs that are not `Single`, but for `SchedulerKept` and `NeverStuck`: which of them are harmless depends on how the
  rules with several targets overlap.
* `MkGraph`: its passes are recursive functions of the graph, for the same reason.
* `MeansWhatItSays` for rc, for the same reason: the meaning of a line is a recursive function of its tree.  So is that
  `outcode()` emits code that is `WellMade`.
* Liveness: `EveryJobEnds`, `EveryWaitReturns`, `Terminates`, `Ends`.

## Not modelled

* *mk*: the reader of mkfiles and its variables, which transform text; archive members and the time
  cache; P programs in `Mk` (the processes they are belong to `MkRun`); graphs that share nodes with an earlier
  one; the `usage()` profile.
* *rc*: the lexer and parser, variables and words, globbing, here documents, file descriptors, and the builtins
  other than `exit` and `wait`.  Sessions with a backquote in an interactive shell whose system calls fail are
  excluded: the child of a backquote keeps the threads of its parent, and an error makes it a second
  reader of the terminal.  So are two notes in a session: `Xrdcmds` sets `ntrap` to 0 without clearing
  `trap[]`, and after a note that comes while a line is read, later ones can make `dotrap()` loop for ever.
* *libbio*: runes, formatted output, failing seeks, the table of buffers flushed at exit.
* *libc, libregexp, libstring, libflate, ar*: sequential code without a protocol between calls, apart from the
  tables of `atexit()` and `atnotify()`.
* *compilers, assemblers, linkers, libmach, acid, the emulators, yacc, lex, utilities, troff*: they
  are most of the tree, and transform large data in one thread: instruction selection, encodings, file
  formats, tables.  A finite instance would say little about them, and their correctness is
  about the meaning of programs, which is not in this repository in any other form.
* `GO` and `benchs` are other people's programs, kept as test input.

### Hazards outside the models

`PROJECT.json` lists the hazards the models are about.  These are also real in this code, and no property covers them:

* *mk*: a note handled inside `run()` or `sched()` (`run.c:66`; both are one step of `MkRun`); `killchildren()`
  signals only the processes in `phead`, those already reaped, and recipes that ignore the terminal's signal keep
  mk waiting (`run.c:436`); `usage()` indexes `tslot[1000]` with a count that `$NPROC` bounds (`run.c:449`); with
  `-k`, a root that cannot be made ends mk before the targets that follow (`mk.c:57`; `Mk` has this behaviour);
  with `-n` a virtual target gets the present time (`run.c:138`); a rule that names a target twice links a node
  to itself (`recipe.c:159`); metarules with the R attribute are matched and not applied (`graph.c:150`;
  `MkGraph` has this behaviour); with `-s` a second graph finds the nodes of the first with their flags and
  pruned arcs (`graph.c:84`).
* *rc*: `Exit()` reads the digits of a status such as `2|56` as one number, of which the kernel keeps 8 bits, so a
  pipeline that failed may exit with 0 (`goken.c:515`; `Rc` has this behaviour).
* *libbio, libc*: `Bterm()`, `batexit()` and `Bseek()` ignore the result of `Bflush()` (`binit.c:147`); the 21st
  buffer opened for writing is not flushed at exit (`binit.c:47`); an exit handler that registers another, and
  a child that inherits the table of handlers (`atexit.c:45`).
