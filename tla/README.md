# Verification of the Cache-Aware Roofline Model tools

The repository builds two things: a benchmark that measures the bandwidth of
each memory and the peak of the compute units of a machine (`roofline`), and a
library that an application calls to place its own kernels on the model
(`sampling.c`, installed as a shared library). Both are OpenMP programs whose
results are only as good as the agreement of their threads on what is counted,
when, and by whom. This directory holds TLA+ specifications of them, the TLC
runs that check the specifications on small instances, and proofs of the main
invariants for every instance.

## 1. Inventory

Paths are relative to the repository's `src/`.

| Component | State | Operations | Interacts with |
|---|---|---|---|
| Sampling library, `sampling.c` | one sample per PU (`last_thread`, `n_threads`, timestamps, bytes, flops), `bindings[]`, output file | `roofline_sampling_init`, `_start`, `_stop`, `_fini` | the threads of the application, through OpenMP barriers and singles; lists |
| Benchmark loops, `roofline.c` | shared `repeat`, results per group, a stream and a result per thread | `roofline_fpeak`, `roofline_memory`, `roofline_lib_init`, `roofline_set_root`, `roofline_bandwidth`, `_flops`, `_oi` | calibration, kernels, results |
| Repeat calibration, `stats.c` | static `test_stop`, local `repeat`, a list of five samples | `roofline_autoset_repeat`; gcd and lcm | all the threads of a region |
| Results, `output.c` | timestamps, cycles, counts, locations | begin and end of a measure, clear, accumulate, aggregate by memory group, print | kernels, topology |
| Streams and sizes, `stream.c` | buffer, its allocated and used size | resizing to a chunk, linear sizes, latency permutation | benchmark loops |
| Lists, `list.c` | cells, length, allocated length, sublist flag | push, set, insert, remove, find, sort, reduce | sampling, calibration |
| Topology helpers, `topology.c` | none of their own (hwloc's tree) | bounds, next and lower memory, memory groups, memory binding, merging | everything |
| Types, `types.c` | none | names, defaults and filters of operations | `main.c`, benchmark loops |
| Command line, `main.c` | the options | parsing, walk over the memories | everything |
| Kernels, `MSC/intel` | none | loops of vector instructions between two timestamps; generated validation kernels | results |

What is hard here is concurrency and sequencing: shared counters that must tell
the last thread, resets that must not meet a measure under way, singles and
barriers that must be crossed by the same threads the same number of times, a
static that decides when all leave a loop, samples shared by the threads of one
PU, and a numbering in which thread 0 cannot be told from "look me up".
`PROJECT.json` lists these hazards with their lines and the properties about
them.

What makes each component correct:

* sampling: the timer of a PU is stopped by its last thread; a printed line
  holds all the threads of the measure once and nothing of another measure;
  calls return; time is not negative; forced totals are conserved;
* benchmark loops and calibration: all threads time the same thing with the same
  repeat at the same time; nothing else happens meanwhile; calibration ends;
* results: each round is printed once, with every thread of a group counted
  once; printing meets no gathering;
* sizes and kernels: a kernel never gets a size that is not a multiple of its
  chunk, nor 0; the latency chase stays in the buffer and in a cycle; what is
  reported is what was run; a validation kernel has the intensity asked for;
* binding: each thread of a team has a leaf of its own;
* lists: no write beyond the allocation; a list behaves as a sequence, whatever
  grows and moves;
* topology: the walk visits every memory once, from the closest; bounds are
  ordered; a thread's result goes to the group it runs under;
* types: an operation is only run on a memory or unit that has a meaning for it.

## 2. Plan

Modules, most important behaviour first.

1. `Sampling`, with the abstract `SamplingService` it implements
   (`SamplingImpl`), with `SamplingProofs` and `SamplingImplProofs`. **Done.**
2. `Bench` (loops, calibration, results), the abstract `BenchService`
   (`BenchImpl`), with `BenchProofs` and `BenchImplProofs`. **Done.**
3. `Topology` (a small tree with caches, groups and memory nodes: walks, bounds,
   the group of a result, binding), `SetRoot` (the binding of the threads by a
   shared thread number) and `Walk` (options, set up, types, order of the
   benchmarks), with `WalkProofs`. **Done.**
4. `Validation` (the generated kernels and the intensity they reach) and `Kernel`
   (sizes, streams, latency, the loops and what they report), which composes it,
   with `ValidationProofs` and `KernelProofs`. **Done.**
5. `List`, which refines `ListService`, with `ListProofs`. **Done.**
6. Open: the PAPI build of the sampling library; init and fini of the library
   called again, with its output and the depth of its reduction.
   Every safety property of the passing runs is a theorem. Of the safety part of
   termination, `SearchNarrows` is proved: each turn of the search of `List` makes
   something smaller. The same is left for the loops of `Validation` and `Walk`, so
   that `Ends` would follow from fairness for every size.

## 3. The sampling library

### Model

`Sampling` models the build with OpenMP and without PAPI. One action is one
access to shared memory, so that all interleavings of the threads of a PU occur.

| Code | Model |
|---|---|
| `samples`, one `struct roofline_sample` per PU | `samples`, a function of `PU` |
| `bindings[]` | `bindings` |
| `ret` of start, `s` of stop | `handle[t]` |
| local `t` of stop | `now[t]` |
| program counter of a thread | `pc[t]`, its labels in order: `lookup inc bar0 bytes flops first stamp` in start, `relook time dec estamp bar1 report reset bar2` in stop, `join` and `open` in between |
| `omp_in_parallel()`, the forced region | `mode` |
| `CLOCK_THREAD_CPUTIME_ID` | `clock[t]`, advanced by `Tick` while the thread is in a measure |
| what `roofline_sample_print` wrote last | `out`, one line per node |

`Lookup`, `IncThreads`, `SetBytes`, `SetFlops`, `IncLast`, `Stamp` are the lines
of `roofline_sequential_sampling_start` in order; `Relook`, `ReadTime`,
`DecLast`, `EndStamp`, `Report`, `ResetAll` those of stop. `StartBarrier`,
`StopBarrier` and `Return` are the barriers, taken by the team at once; a thread
outside of a region is a team of one. `StartForced`, `JoinForced` and
`StopForced` are the regions the library opens itself. The nodes of the
reduction level, the PUs below each, the PUs each thread may run on, and what
callers announce are constants.

Where a thread runs is chosen anew at each lookup among its affinity, as
`sched_getcpu` may answer anything the mask allows; a bound thread has a
singleton. A thread that can be located by no means (`Unlocatable`) returns
before the barrier the others of its team wait at (line 404). OpenMP leaves this
undefined, and nothing in the repository says what such a team should do. So
`LookupAssumption` keeps these threads to sequential regions, each with a pool of
one thread (stop opens a region for a missing sample, line 506, where the others of
a larger pool would meet the same barrier). There the code handles them: start and
stop return early, and other callers are not disturbed.

`SamplingService` is what `sampling.h` promises: threads start, spend time and
stop; then one line per node is published at once with the slowest time and the
sums. `SamplingImpl` maps the library on it: a thread counts from the stamp to
the reading of its clock, its time is its clock less the stamp of its sample,
and the published lines are `out`.

### Runs

| Run | Instance | Shows |
|---|---|---|
| `sampling_shared` | 3 threads, 2 PUs; two threads bound to one PU, the third free; regions of the application; one clock tick each | `TypeOK`, `CounterExact`, `NoWipe`, `AllCounted`, `TimeNeverNegative`, and `Returns` under fairness |
| `sampling_unlocated` | 2 sequential callers, one of them not located | `AllCounted`: the early returns keep the one from reporting and resetting what the other measures, in any order of their calls |
| `sampling_refinement` | 2 threads, 3 PUs under 2 nodes, disjoint masks; sequential, parallel and forced; an even and an odd total | `ImplementsService`, `ForcedTotal` |
| `sampling_moved_master` | 2 threads, forced; thread 0 may move | `CounterRestsAtZero` is violated |
| `sampling_two_callers` | 2 threads that sample sequentially | `NoneLost` is violated |
| `sampling_shared_totals` | 2 threads free to share a PU | `TotalsAnnounced` is violated |

The three violations are disagreements of the code with its documentation:

* `sampling.c:33` says that `last_thread` tells the last thread. In a forced stop
  thread 0 is looked up again (`roofline_sampling_caller(0)`, lines 373 and 507),
  whereas the others find the PU of their start. If it has moved, two counters
  stay off zero, and a reset does not clear them.
* `sampling.h:17` says that the library is thread safe with OpenMP. Threads that
  are not in the same OpenMP team do not synchronise, and the stop of one resets
  the samples of the other.
* `sampling.h:15-16` says that a sample holds the flops and bytes of the threads
  that start on its PU. Threads are added, flops and bytes are overwritten.

`ForcedTotal` bounds what the integer division of line 439 loses of a total: the
lines never add up to more than was announced, and to less by under one byte, or
flop, for each thread.

Bounds. Two threads on a shared PU and one elsewhere is the smallest team in
which the first, the last and a foreign thread of a PU differ. `MaxClock` is 1
because timing properties compare two clocks: one tick before or after each
access is enough to make either larger. The measures are not bounded: threads
start and stop for ever, so what one measure leaves to the next is in the state
space. Stopping is possible (the application may end), hence no deadlock check
in these runs; `Returns` replaces it.

Fairness. Threads are scheduled (`Step`, `Together`); a program that starts a
measure stops it, and if a thread of a region starts, so do the others: this is
what `sampling.h:33` asks ("must be called from the same scope") and what OpenMP
asks of barriers. Clocks and the decision to start a measure have no fairness.

### Proofs

`SamplingProofs`, for every number of threads, PUs, nodes and masks:

* `TypeCorrect`: `Spec => []TypeOK`.
* `CounterCorrect`, `CounterRests`: `[]CounterExact` and `[]CounterRestsAtZero`,
  if `MasterPinned` (no forced calls, or thread 0 bound to one PU), the
  condition the run `sampling_moved_master` shows to be needed. `CounterExact` is not inductive
  alone: the invariant adds where each thread is counted. An increment adds a
  thread to the set of holders of its PU, a decrement removes it, and every other
  step keeps the sets; the set of holders is related to the counter by the
  cardinality of a set with one element more or less.
* `NoWipeCorrect`: `[]NoWipe`, if `OneCaller` (one sequential caller at a time that
  can be located, and any number that cannot), the condition `sampling_two_callers`
  shows to be needed. The invariant says in
  which phase of the protocol the threads of a team can be together; barriers
  are the only steps from a phase to the next.

The second half of `SamplingProofs` is about what is printed, for as many
instances (the model assumes that PUs and nodes are finitely many):

* `TimeCorrect`: `[]TimeNeverNegative`, whoever calls and however samples are
  shared. A reduction starts from zero and keeps the slower of two timings, so
  what it returns is never negative, though the time of a sample may be. The
  reduction is a fold over the set of PUs under a node, the greatest index last, as
  in the sublist. The library's induction theorems take an operator and cannot be
  instantiated here, so induction over finite sets is an argument by least
  counterexample (`LeastOne`, `SubsetInduction`); `FoldExists` shows that the
  function chosen in the definition of a fold is there to be chosen, on any set.
* `AllCountedCorrect`: `[]AllCounted`, if `OneCaller`. The invariant `CountInv` says
  that some placement of the threads that are counted explains every `n_threads`:
  the count of a PU is the number of threads placed on it. The placement is not
  `Owner`, because thread 0 may be looked up elsewhere when it stops, and it is
  forgotten at the reset. `Weighs` and `Carries` add the counts of the PUs up to the
  node and those of the nodes to the team, without a thread being met twice.
* `ForcedTotalCorrect`: `[]ForcedTotal`, if `OneCaller`, `Apart` (threads of a forced
  call have disjoint masks; `sampling_shared_totals` shows what two threads on a PU
  do), for any totals. In addition `ForcedInv` says which of bytes and flops each
  thread has written where, and `PartsFallShort` how far the parts of a total are
  from it.

Which threads have to be apart is a matter of masks, not of counters: a total is
lost when the second thread of a PU overwrites what the first announced.

`SamplingImplProofs`: `LibraryImplementsService`, that is `Spec =>
ImplementsService`, if `OneCaller`, `Located` (each thread can be located),
`Disjoint` (no two threads of a region may run on the same PU) and `MasterPinned`.
The run `sampling_refinement` is an instance of all four. Each is needed: a second
caller's reset erases what a thread counts; a thread that is not located returns
without a line; two threads on a PU share one timer and overwrite what they
announce; thread 0 of a forced call, looked up elsewhere, stops the timer of another
PU. The argument has three parts.

* `HomeInv` with `OwnerStays`: from its lookup to its return a thread counts on one
  sample, in its mask, although `handle` is dropped between the two regions of a
  forced call and found again by two different ways. With `Disjoint`, one thread
  counts on a PU (`OneOwner`), so the first and the last thread of a counter are the
  same one (`OwnCounter`).
* `FillInv`: a counted thread finds in the sample of its PU a count of one, what it
  has written so far and, once it has stopped the timer, the time it read; a sample
  on which nobody counts is clear. This is what relates a step of start to the line
  that another thread prints after the barrier, and a reset to the next measure.
* `ServiceStep`, one lemma per action: most are invisible (`UnseenStep`), a stamp is
  `Begin`, the reading of the clock `End`, a tick `Spend`, the report `Publish`, the
  barrier of the single `Dismiss`. For the report, the fold over the PUs of a node
  is compared with a sum over the threads below it, which is taken in another order:
  `PartSums` and `SumsWeigh` show that a sum over a finite set does not depend on the
  order, by comparing each with the sum over the whole team of a function that is zero
  outside of the part.

Liveness (`Returns`, under `FairSpec`) is only model-checked.

## 4. The benchmark

### Model

`Bench` runs a sequence of calls of `roofline_fpeak()` and `roofline_memory()`.

| Code | Model |
|---|---|
| `i`, `repeat` of `roofline_autoset_repeat`, loop counters of its samples | `idx[t]`, `trial[t]`, `left[t]` |
| `repeat` of the caller, shared by the region | `repeat` |
| static `test_stop` | `test_stop` |
| `local_out` | its work is `WorkOf(Program, idx[t], used[t])` |
| `out[group]`, and a thread's read of it in the critical section | `out`, `seen[t]` |
| lines printed | `log` |

A benchmark call is a number of timed sections (`Measures`: the kernel and its
overhead); a trial of calibration is `Samples` calls. Each section is a barrier, a run and a barrier
(`BeginMeasure`, `Run`, `EndMeasure`). `Decide` is the single of calibration: the
first thread that arrives decides from its own measures, which the model leaves
open except that a repeat of `LongEnough` or more lasts 500ms. A critical section is
entered, read and written in three steps. Adjacent barriers (the single and the
explicit one in calibration; `roofline_output_end_measure` and the explicit one
in `roofline_fpeak`) are one step. Printing goes through the groups in one step
of the single, as no other thread runs meanwhile; `PrintAlone` checks that.

`static int stop` of `roofline_memory()` is never written and not in the model.
Sizes are given by their list, whose computation belongs to `stream.c`.

`BenchService` prints one function of the groups per kept round, in order, with
one repeat: a power of two under twice `LongEnough`, as calibration doubles what
is too short. `BenchImpl` maps `log` on it. Its plan is the set of the pairs of a
call and a size that is not skipped, each at its rank in the order of the
program. `BenchService` says what may be printed; that all is printed is
`AllPrinted` and `Ends`.

### Runs

| Run | Instance | Shows |
|---|---|---|
| `bench` | 4 threads in 2 groups, one not located; fpeak then memory; sizes below the bound, kept, repeated, kept; repeats up to 4 | `TypeOK`, `SameMeasure`, `TimedTogether`, `PrintAlone`, `AllPrinted`, `Ends`; `ImplementsService` |

Bounds. `LongEnough` of 4 gives calibrations that end at the first trial (after
which `roofline_memory` does not calibrate any more), at the second and at the
last. Two groups tell the thread's group from the default one. The program ends;
`Done` stutters, and deadlock is checked.

Fairness. Threads run, and the program goes on to its next call. Weak fairness
is enough for the critical section since each thread enters it once per round.
That calibration ends rests on `LongEnough`: cycles grow with the repeat.

### Proofs

For every team, topology, list of sizes and sequence of calls.

`BenchProofs`:

* `TypeCorrect`, with the invariant that a thread inside a timed section has a
  section left.
* `TimedTogetherCorrect` and `PrintAloneCorrect`, from the invariant `Stages`: the
  whole team is between measures, in one, or around the print with one printer at
  most; only the barriers go from one to another.
* `SameMeasureCorrect`. Each thread has a copy of the loops and of what it read of
  `repeat` and `test_stop`, so that what has to agree is not what threads are doing
  but what they are bound to do. `Ahead(t)` is what a thread times now or is going
  to time next: the round, the sections it owes, the trial, the repeat. The
  invariant `RoundInv` says that the program waits for a call, that the master is
  alone (it calibrates for `roofline_fpeak`), that the threads look for the next
  size, one ahead of another by sizes that are skipped only, or that they measure,
  and then `Ahead` is the same for all. A thread that acts on its own keeps
  `Ahead` (`AheadKept`); the barriers change it for all.

`BenchImplProofs`:

* `BenchmarkImplementsService`: `Spec => ImplementsService`, one lemma per part of
  the line that is printed. `LogInv`: as many lines were printed as there are
  rounds before the one of the threads, so the line is the next of the plan; the
  ranks of rounds need no induction over the sizes, as the rank of a round is the
  number of the rounds before it. `RepeatInv`: the repeat ahead is one that
  calibration can find. `GatherInv`: in the critical section what a thread read is
  what `out` still holds, and `out` holds for each group the work and the number of
  the threads that have gathered theirs; so no result is lost or counted twice.
* `AllPrintedCorrect`, from `LogInv` at the end of the calls.

`Ends` is model-checked only.

## 5. The order of the benchmarks

### Model

`Topology` holds the functions of `topology.c` as operators over a machine, a
value with the type, the parent and the size of each object; `first_child`,
`memory_first_child`, `next_cousin`, depths and cpusets are derived from the
parents, as hwloc 2 defines them (a NUMA node is a memory child, and its depth
is -3). Loops that follow links until a test holds are `Follow`. `Bounds` are
the sizes of `roofline_hwloc_get_memory_bounds`, `Shares` those before its loop
that halves the upper one; `NextMemory` is the step of the walk, `ResultGroup`
the group of `roofline_output_aggregate_result`.

`Walk` is `main.c`, one step per option and per call of `bench_memory()`.

| Code | Model |
|---|---|
| static variables of `main.c` | `opt` |
| `topology` | `machine`, chosen among `Machines` |
| argument of `roofline_set_root`, static `leaf_type`, shared `tid` | `root`, `leaf_type`, `tid` |
| the OpenMP pool and where its threads are bound | `pool`; `unbound` are the threads that are not through the region |
| the critical section | `critical` |
| `memory`, `cluster`, `i` of `main` | `memory`, `cluster`, `items` |
| calls of `roofline_flops`, `roofline_bandwidth`, `roofline_oi` | `log`; `Measures` are the places in it of memories, the peaks having none |

`roofline_set_root()` is called by the set up and for every cluster of the
matrix. `SetRoot` is its beginning, `TakeNumber` the entry of a thread in the
critical section and its write of `tid`, `Bind` the binding from `tid` and the
exit; `Walk` takes the threads through it (`Region`) and goes on at `EndRegion`,
the barrier of the region. Threads that were in an earlier team keep where they
are until it is their turn.

Types are sets, so that `|` is union and `&` intersection, and the -1 of an
unknown name is every type. An intensity is in tenths. A root that names nothing
ends the program: `roofline_lib_init` formats the NULL object before it returns.

`roofline_hwloc_get_next_memory` ends without a `return` when a node has a next
cousin. What its caller gets is `Unreturned`. The Makefile gives no `-O`, and
without it gcc leaves the cousin, which was computed last, in the register of
the result: this is the value in the runs. With `-O1` gcc leaves the argument
there, and the walk stays on the first node for ever (`Unreturned =
{"argument"}`, which violates `Once`).

### Runs

| Run | Instance | Shows |
|---|---|---|
| `walk` | five machines: one node for all; a node per package; two clusters with a node each under one cache; two clusters with two kinds of memory; two clusters and a node of the package. Up to two of 17 options | `TypeOK`, `Once`, `EveryMemory`, `Climbs`, `MatrixWhole`, `BoundsOrdered`, `OiNear`, `ResultsPrinted`, `OneLeafEach`, `Ends` |
| `walk_odd_machines` | a node per last level cache; a cache between the nodes of the clusters and the node of the package | `EveryMemory` is violated |
| `walk_policy` | two clusters under one cache, with the policies | `PolicyFollowed` is violated |

The violations:

* `main.c:186` says "roofline every memory obj". From a cache, the next cache is
  looked for before the nodes attached on the way: nodes attached to a cache are
  passed over, and a run without `-m` ends after the caches. And from the last
  node the walk climbs from the parent of that node: a cache below it which no
  node was on the way to is passed over.
* `main.c:33` says that the policy is for a target that scopes more than one
  node. The switch on it is guarded by a comparison with the depth of the nodes,
  which is negative, and is never entered.

`OiNear` is about the conversion of an intensity to flops and bytes (`main.c:122-123`),
which rounds twice: down to whole bytes for an intensity below 1, to the nearest
flop after that. What is asked is a kernel, under twice the intensity of the user,
and not below it but by half a flop. The double rounding is most visible where 1/oi
is not whole: 0.6 asks for one flop a byte. `Kernel` goes on from there
(`IntensityReached`): the kernel written has the intensity asked.

Bounds. Intensities of 0.3, 0.6 and 2.5 have bytes that are rounded, bytes that are
rounded to 1, and flops to round at 64 bytes. Two options are enough for one to override or restrict the other
(`--CARM` after `-t`, `-m` with `-mat`). Two clusters and two nodes tell a
cursor that is reset from one that is not. Sizes are small numbers with the
order of real ones, but for `GB`, small enough for the halving loop to meet its
lower bound.

Machines. `WellFormed` is what hwloc gives and `roofline_lib_init` asks for:
parents come before their children, no object is without PUs, a node has no
child, there is one type per level and one level per type, no data cache is
deeper than L1, and there are an L1, a core and a node at least. The theorems
name further conditions where they need them (below); `MCWalk` lets TLC evaluate
all of them on the five machines (`FiveMachinesAssumption`), and the two odd
machines are there because they fail `AllOnTheWay`.

Fairness. There is one thread of control, or the threads of the region, and it
runs: weak fairness of the whole step. The end of the program stutters (`Done`),
and deadlock is checked.

### Proofs

`WalkProofs` proves every safety property of the run, for every machine that is
`WellFormed`, any number of objects, and any options.

*Trees.* What the loops over the tree find is defined by recursion on its links.
No induction principle of the library can be used, so the module has its own:
a set of numbers that has 0 and is closed under +1 is `Nat` (`NatCounted`), and
a set that has an object whenever it has its parent has all objects
(`TreeInduction`), both from the fact that a set of numbers has a least one.
From these the recursive functions exist (`FollowExists`, `AboveExists`), hence
equal their equations (`AboveIs`), and a loop upwards ends at the nearest object
that passes its test, or at none (`UpIsNearest`). Two objects above a third are
one above the other (`AboveOne`), and depth grows downwards (`AboveMore`).

*`TypesCorrect`*. `TypeInv` types the log and the memories left; `ControlInv`
says where the program is: nothing is measured before the peaks, and each way is
taken with its option. The provers do not know that a string literal is a string,
hence `Strings`.

*`OneLeafEachCorrect`*, that each thread has a leaf of its own whenever the
program is outside of the region. The invariant (`BindInv`) says that `tid` is
the number of the thread in the critical section, the only one, and that a thread
that is through has the leaf of its number; nothing outside of the region moves a
thread. `LeavesAreApart` adds that leaves are numbered without a gap and that two
of one type have no PU in common.

*`MatrixWholeCorrect`*. `MatrixInv`: the pairs of a cluster and a node that the
two cursors have passed, in lexicographic order, are those in the log, each once.

*The walk*, for the theorems that have `Unreturned = {"cousin"}` as hypothesis.
`NextMoves` gives the five ways a step may go: to the first L1, up to a cache, to
the first node of a group, along the nodes, from the last node to a cache above.

| Theorem | Condition on the machine | Inductive invariant |
|---|---|---|
| `OnceCorrect` | `CachesOutermost`: no cache above the last node has a node above it | `OnceInv`: at a cache, each measure is of a cache that is below it, or, if no node is above, of a node or of something with nodes above; at a node, of an earlier node or of something with nodes above |
| `ClimbsCorrect` | the same, and `NodesGrow`: no node is a smaller part of the machine than an earlier one | `ClimbInv`: at a node, each cache measured is a part of a node up to this one. That what has no node above it is no part of what has is `NotAPart` |
| `EveryMemoryCorrect` | `AllOnTheWay`: the first nodes hang above the first L1, on no cache; caches above them are those above the last node | `EveryInv`: all that the walk is past (`Visited`) is in the log, but for memories the types asked have no meaning for |

*`OiNearCorrect`*: a measure is logged with the points of `opt.oi`, which no option
changes afterwards, and `PointNear` is the arithmetic of the two roundings, for any
intensity in tenths.

*`BoundsOrderedCorrect`*, where `SharesOrdered`: the halving keeps the upper
bound above the lower one (`ReducedIs`), and only memories are measured
(`MemoriesOnly`). *`ResultsPrintedCorrect`*, where `GroupsLarge`: on the way up
from where a thread runs there is one object at each depth (`EachDepth`), and the
climb of `roofline_output_aggregate_result` ends at the depth of the groups.

`OnceCorrect` asks for its condition on the machine only when the program walks:
for the matrix, `Once` comes from `MatrixInv`. `Ends` is model-checked only, as
liveness is. `EveryMemory` is violated on the odd machines, which fail the
condition of its theorem; `PolicyFollowed` fails wherever a target has two nodes.

## 6. Kernels, sizes and streams

### Model

`Validation` is what `roofline_oi()` and `benchmark_validation()` do to obtain a
kernel: numbers of instructions from flops and bytes, simplified by their common
divisor, then a loop that writes bodies until enough instructions are there, the
next register is a high one and groups of two loads and a store are whole; then
compiling and loading, which may fail, in which case the next unit is tried.

| Code | Model |
|---|---|
| arguments of `benchmark_validation()` | `request`, `Head(units)` |
| `max`, `min` of `roofline_PGCD()` | `pgcd`; `Divide` is a turn of its loop |
| `mem_ins`, `flop_ins` | `mem_ins`, `flop_ins` |
| what is in the file, with `muops`, `offset`, `regnum`, `bytes`, `flops`, `ins` | `code` |
| `oi_chunk_size` of `MSC.c` | `oi_chunk_size` |

`Kernel` extends it with the part of `roofline_memory()` and `roofline_fpeak()`
that one thread does alone (`Bench` has what they do together, and takes the
sizes as a parameter).

| Code | Model |
|---|---|
| arguments of `roofline_memory()`, calls to come | `job`, `todo` |
| `low_size`, `sizes`, `i` | `low`, `sizes`, `i` |
| `chunk_size` of `resize_splitable_chunk()`, the lcm it computes | `chunk`, `ppcm` |
| `src->alloc_size`, `src->size` | `alloc`, `size` |
| `links`, `rands`, `i` of `latency_stream_init()` | `links`, `rands`, `k` |
| operand 0 of the loops, `%r11` (from the start of the buffer), `%r12`, `%rax` | `left`, `r11`, `r12`, `rax` |
| the last call of `roofline_output_end_measure()` | `out` |

`work` has no counterpart in the code: it counts the instructions that run
between the timestamps, and takes away those of the overhead. `Iterate` is one
turn of the inner loop of a kernel, `Pass` the start of a repeat, `ComputeFlops`
and `ComputeOverhead` a turn of the two loops of a peak, `Chase` a load of the
latency stream, `Link` a turn of the loop that draws its links. Bounds of a
memory that is no first cache are those of `Topology`, here a parameter
(`Memory`), as is the kernel's repeat, which `Bench` calibrates.

### Run

| Run | Instance | Shows |
|---|---|---|
| `kernels` | 32 byte registers, 64 byte lines, 3 sizes, 2 repeats. Every kernel of 7 intensities, 5 operations and 2 lists of units in a cache of 16kB; intensities in a cache too small or with odd bounds; latency before and after a kernel, in two buffers, and a stream after them; every stream and peak | `TypeOK`, `IntensityReached`, `TwoLoadsAStore`, `InBuffer`, `LinksPermuted`, `WorkReported`, `Measured`, `Ends` |

`InBuffer` is the property with the most behind it: the loops of a kernel end
when a counter is exactly 0. It holds because all sizes are computed from the
chunk that the kernel at hand goes through, though the chunk is a global that
is overwritten by the next kernel, also by one that is lost; because the sizes
below the lower bound are skipped, and the bound is never under a chunk for a
first cache; and because the multiple of lines is a multiple of the chunk.
`WorkReported` leaves out the bytes of the latency stream: the code counts cells
of 4 bytes and reads cells of 8, and no text says which is meant.

Bounds. The intensities take the loop that writes bodies through both of its
ends; those of `--validate` and `--oi` are of this form. 3000 bytes give a
latency stream whose chunk is that of an earlier kernel; 16000 bytes from 8100
give sizes that are resized below the bound. The numbers of `rand_r` are a fixed
sequence, as its seed is; the proof is for any.

Fairness. One thread runs: weak fairness of the whole step. `Done` stutters.

### Proofs

For every register width and number, line size, number of sizes, repeat, set of
requests, memories and program:

* `ValidationProofs`: types; `IntensityCorrect`, from the invariant that the
  numbers of instructions keep the ratio asked through every division of the gcd
  (each common divisor of `pgcd` divides both), and that every body adds to both
  sides of the ratio in the same proportion; `WholeGroups`, from the number of
  stores among consecutive memory instructions.
* `KernelProofs`: `KernelValidates` (Kernel implements Validation), hence
  `KernelIntensity` and `KernelGroups`; `StaysInBuffer`, from an invariant which
  says that the chunk of the call divides every size that will be used and that
  the rest of the buffer, `r12`, is a multiple of what an iteration goes through;
  `LatencyPermuted`, from the invariant that every cell is linked to by one of
  the links made, or is among the cells left to draw; `WorkIsReported`, from the invariant that
  `work` is the work of one iteration times those done.
  `MeasuredCorrect`, that in a memory with room for its sizes one at least is
  measured (others may be skipped), from `LineInv` and `KeptInv`. A line divides four of the
  chunk that was written last; every division of the gcd keeps that, so the
  multiple of chunk and line that the lower bound of a first cache is aligned to
  is a multiple of the chunk, and the first size is the bound. In another memory
  the bound may be no size, but the second size is above it. So while nothing was
  measured there is a size to come that will be, or no room for one.

They assume `ChunkAssumption` (`CHUNK_SIZE` is what the 30 strides go through,
true of the AVX and AVX512 builds; the SSE build has 512, which its 30
strides of 16 bytes do not fill), that a line holds a cell of 8 bytes, and
`LineAssumption`: a line divides four vectors and four times the first chunk
(lines are of 64 bytes, vectors of 16 to 64), and there is more than one size
(`N_SAMPLES` is 16 in the Makefile). `Ends` is model-checked only. Integers do not overflow in the model: `unsigned` arithmetic
on flops and bytes would need an intensity of 2^21 or more.

## 7. Lists

### Model

`List` is an array `cell` of `allocated_length` cells, the first `length` of
which are the elements. Each operation of `list.h` on the content of a list is
an action; pushing is setting at the length. `list_insert_sorted()` takes one
step per comparison (`BeginInsert`, `Search`, `Insertion`); the index it looks at
is chosen before the comparison, as in the code. `touched` has no counterpart: it
is the last cell that a call reads or writes. `Reading` past the end of the array
is anything. `Sort` and `Find` require elements, because comparisons follow the
pointers. A list that has been copied is replaced by its copy.

`ListService` is a sequence and what each operation returns. `Content` maps the
array on it, with the element last returned; a sorted insertion puts the element
somewhere, as the search skips the first one and need not find the right place.

### Run

| Run | Instance | Shows |
|---|---|---|
| `list` | two elements, two cells at first, up to six elements set one past the end at most; every sequence of calls | `TypeOK`, `InBounds`, `ImplementsService`, `SearchNarrows`, `SearchEnds` |

Bounds. Two cells are filled, grown and filled again: growth happens from a full
array, from one with free cells (an insertion asks for one more than it needs)
and for an element past the end; six elements make it grow twice. A search on five
elements takes a second turn, on either side, and has a place to insert at. Elements
are set less than a first size past the end (`GapAssumption`): the loop that doubles
(`list.c:98`) stops at the index asked for, where one more is needed, so an element
set a first size past a full array would be written past it. The program pushes, and
fills its lists to their first size, and no run shows this.

Fairness. The caller that searches goes on (`WF_vars(Search \/ Insertion)`); a
caller need not call.

### Proofs

`ListProofs`, for all elements, first sizes, gaps and lengths: `ListTypeCorrect`,
`StaysInBounds` and `ListImplements` (the refinement, one lemma per operation), from
the invariant `ListInv`: the array is never smaller than its first size, so one doubling
is enough for the gap; the search keeps its index between its bounds and these
among the elements. `SearchNarrowsCorrect`: each turn of the search brings these
bounds nearer, for a list of any length, so that a search has fewer turns than the
list has elements; that it takes them (`SearchEnds`) is model-checked.

## 8. Not modelled

* The PAPI build; the text of the output and the floating point of its lines; the
  output file; memory allocation and its failures; `list_reduce` beyond the cells
  it visits, sublists and the freeing of lists.
* Init and fini of the sampling library called more than once, and its reduction
  depth, of which only the resulting set of nodes is a parameter.
* The text and the registers of the instructions. The loops decrement input
  operands of their assembly; the build without optimisation reloads them from
  the stack, and the model assumes so.
* The array of memories that `-m` fills, allocated for the depth of a PU
  (`main.c:149`): the list of names is not bounded in the model.
* The growth of a latency stream, which is allocated at its upper bound and never
  grows.
* `MSC/generic.c` and `MSC/intel/copy.c`, which are not built; the build files;
  the plotting script; the merging of locations, whose loop is guarded by a
  condition that never holds.
