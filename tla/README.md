# Verification of booleann

TLA+ models of booleann, the TLC configurations that check them on small
instances, and proofs, checked by TLAPS, of what matters most for instances of
any size. `PROJECT.json` is the index: components, runs, mutants, the map from
definitions to source lines, hazards, findings and theorems.

    tlc -workers 2 -config block_release.cfg BlockRelease     # a run
    tlapm BlockReleaseProofs.tla                              # a proof

## 1. The system

booleann answers nearest-neighbour queries under Boolean predicates over
attributes. The repository holds the query executors and index builders (C++),
native kernels with Python bindings, a planner, and the programs of the formal
experiments, which are distributed in the small: several processes that agree
through files when a timed piece of work may begin.

### 1.1 Inventory

| component | state it keeps | operations | interacts with |
|---|---|---|---|
| **v19 controller** `run_laion1m_v19_...py` | stop state, gates, per-block audit, files under the run directory | `execute`, `wait_for_block_files`, `streaming_pair_gate`, `ControllerState.request_stop`, `SignalMaskedCommitLock` | the runner by files and process status; its heartbeat thread by shared memory and signals |
| **block adapter** `laion1m_paired_formal_block_adapter.py` | acknowledgement, ready and release files | `publish_block_ack`, `publish_block_release` | called by the controller under its commit lock |
| **same-resident runner** `laion1m_v19_..._runner.cpp` | indexes, block outcomes, gates | `formal_main`, `run_block`, publication of the block's files | forked worker lanes by a shared mapping; the controller by files |
| **release wait and durability headers** `pass_release_contract.h`, `laion1m_paired_formal_block_durability.h`, `pass_boundary_contract.h` | names and their durability | atomic publication without replacement, `wait_for_release_then_ack`, stop signal | used by the runners |
| **SIFT10M pass adapter** `sift10m_range_v2_cpp_adapter.py` | stop latch, JSONL streams, acknowledgements, releases | `run_cpp_adapter` with a monitor thread | a C++ child by files |
| **leaf lane pool** `leaf_posting_merge.py` | generation, lane bindings, arenas, thread records | `prepare_batch`, `lane_ready`, `begin_request`, `execute`, `end_request`, `finish_batch`, `release` | worker threads that run native code without the interpreter lock |
| **native leaf kernels** `leaf_posting_merge.cpp`, `fused_leaf_topk.cpp` | output array, ring, heap, audit counters | one call per request | the pool, the bindings |
| **shard builders** `build_range_blocks.cpp`, `build_categorical_shards.cpp`, `build_sift100m_shards.cpp` | one graph file per shard, `build_log.csv` | resume, build, save, sync, log | later runs of themselves, the executors that load the graphs |
| **categorical executor** `categorical_bench.cpp` | the beam of a search, seen filter, epoch-stamped statuses, memo of distances, trace and spill | eight graph searches and the sorted-vector reference they replace; publish a pass and wait for its release | shard graphs; measured one against the other; a supervisor by files |
| **pair-offset kernels** `pair_offset16_*.h` | a scratch of 16- or 32-bit ids | three intersections, full, bounded, packed, blockwise and prefix scans | the categorical executor |
| **exact top-k** `exact_topk_avx2.cpp`, **Elias-Fano** `elias_fano_topk.cpp` | a heap; a decoding cursor, a ring | one call per support | Python bindings that convert arguments |
| **fixed and packed block compositors** | segments and their cursors, a merge heap, a retained heap | one call per plan | stored objects; a route table and a rank directory |
| **predicate cube** `layout_selector.cpp`, `mixed_runner.cpp`, `mechanism_ablation.cpp`, layout headers | two physical orders of one base, a selection under a budget, timed answers | load, select, time, validate | workload files, a SIEVE index |
| **ordered executors** `range_bench.cpp`, `hierarchical_range_bench.cpp`, `fixed_block_100k_adapter.cpp` | subsets and graphs of blocks and nodes, published stages | answer ranges; publish a stage and wait for its release | shard builders' graphs; a supervisor by files |
| **same-resident data and engines** (formal runner, v18 pilots, mixed pilot, v20b) | rows, labels, postings, local graphs, sizes and resident memory, block outcomes | load, resource gate, open queries, prewarm, time and audit a block | SIEVE and beam searches; `run_block`'s lanes; the controller |
| compact support arena, fragment advisor, SIFT100M executor, controller validation | see section 7 | | |

### 1.2 What is hard here

* *Two programs and four threads of control agree by files.* A file has a
  name, a visible content and a durability, and each becomes true at another
  step. A link may be visible and lost in a crash, or durable before its
  maker knows.
* *Stops.* A stop may come as a signal to either process, as a gate of either
  program or as a deadline, at any step, and must never lose to a permission
  that is published after it.
* *Cleanup.* Every failure must end child processes, threads and lanes; a
  cleanup may itself be interrupted.
* *Shared memory without locks*: barriers between forked lanes; arenas that
  threads bind to by generation.
* *Resuming after a crash* from files that may be torn.
* *Streaming algorithms* that check, merge, batch and rank in one pass.
* *Containers that replace a sorted vector*: heaps with stale entries, open
  addressing with tombstones, statuses that an epoch invalidates instead of a
  clear, a filter that forgets. Each must make the same search.
* *Several engines for one question*: two layouts, eight searches, three
  intersections, seven scans, two compositors, two schedules, two systems. What is
  measured is their speed, and the measurement means something only if they
  answer alike.
* *A cut that gives up early* (partial sums, pools per block, metric cuts, beam
  cutoffs) has to be strict in the right place or lose a row at a tie.

What makes each component correct is stated in the module about it and listed
in section 3.1; `hazards` in `PROJECT.json` names the line each danger is at.

## 2. The modules

| module | models | uses or refines |
|---|---|---|
| `BlockPermission` | what both permission protocols promise | |
| `BlockRelease` | controller, block adapter, runner and headers, for all blocks | refines `BlockPermission` |
| `PassAdapter` | SIFT10M adapter, its monitor thread and the child | refines `BlockPermission` |
| `WorkerBarrier` | `run_block` between its first fork and its census | |
| `LeafLanePool` | `LeafLanePool` and the threads that use it | |
| `LeafKernel`, `MCLeafKernel` | one call of a native leaf kernel; the calls TLC makes | |
| `ShardBuilder` | the runs of a shard builder | |
| `BeamOrder` | order, seen filter, cutoff and metric cut of a graph search | |
| `BeamSearch` | the reference search of a shard | `BeamOrder` |
| `DualHeap`, `IndexedHeap`, `FixedFrontier` | the four containers that replace its vectors | `BeamOrder` |
| `BatchedSearch` | the batched search, memo, trace, spill and continuation | `BeamOrder` |
| `BeamExecutors`, `MCBeamExecutors` | searches over those containers, one workspace for many queries | the five above; refines `BeamSearch` |
| `PairScan` | intersections and scans of two postings | |
| `RetainedTop` | what the exact kernels keep | |
| `EliasFano` | encoding, checks, decoding, streaming scan | `RetainedTop` |
| `BlockCompositor` | both compositors, step by step | `RetainedTop` |
| `PredicateLayouts`, `LayoutEngines`, `LayoutSelector` | layouts and their audits; engines; workloads, selection, validation | each uses the one before, the first `RetainedTop` |
| `OrderedRanges`, `RangeProvider` | range executors; the stages of one under a supervisor | `RetainedTop` |
| `CategoricalPasses` | the barrier after every pass of the categorical executor | |
| `ResidentData`, `ResidentBlocks` | rows, labels and engines; gates, order, routes, audit and blocks | `RetainedTop` |
| `ExactCalls`, `MCExactCalls` | the calls and loops of all these as one transition system; what TLC calls | the twelve above |
| `...Proofs` | the theorems about the module they are named after; those about `PairScan`, `RetainedTop`, `CategoricalPasses`, `RangeProvider`, `OrderedRanges` and `ResidentBlocks` are in `ExactCallsProofs` | |

Some definitions stand beside a variant of themselves (`CutoffEarly` before
`Cutoff`, `ScanBothTogether` before `ScanBoth`): a mutant, what a plausible bug
would make of the definition that follows. No specification uses one; each shows
that a property can fail.

### 2.1 BlockPermission

The contract: the units of an experiment start one at a time and in order, a
unit only after the previous one has been permitted, a permission only on
durable evidence of the audit and never after a recorded stop. `started`,
`evidenced`, `permitted` and `stopped` are mapped by each of the two detailed
modules to their own files and flags.

### 2.2 BlockRelease

State: `rpc`, `rblock` (runner), `cpc`, `cblock` (controller), the sets of
visible and of durable names (`rawVis`/`rawDur`, `ackVis`/`ackDur`, ...),
signals that are pending or were recorded, the gates, and how each process
ended. One action per step that another thread, process, signal or crash could
come between: `CheckArtifact`, `RenameArtifact`, `SyncArtifact` of each file the
runner publishes; `SeeBlockFiles`, `AuditBlock`, `EnterAckLock`,
`CheckAckStop`, `LinkAck`, `SyncAck` and so on of the controller;
`SeeRelease`, `AcceptRelease`, `WaitDeadline` of the runner's wait. Signals are
delivered to whichever thread is unmasked: `SignalMaskedCommitLock` masks the
calling thread only, and the heartbeat thread is not masked, so a handler may
run in the main thread while it holds the lock.

The commit lock is its two parts: `active`, the thread's flag, and `held`, the
ordinary lock inside. `hpc` is the position of the stop handler, which enters the
lock itself (`HandlerEnters`, `HandlerRecords`, `HandlerLeaves`) and holds up the
main thread as long as it runs. While the flag is set, the handler of a further
signal raises (`HandlerRaises`), and what that leaves of the lock depends on where
it meets its user (`LockLeft`): in `__enter__` before, in or after its `try`, in the
body, or in `__exit__` before or after the release. A raise inside the `try`, after
the acquisition, leaves the ordinary lock acquired with the flag reset: whoever
enters next waits for it for ever (`SelfDeadlocked`). The positions `rel_unmask` and
`rel_settle` are the way out of a release, where a raise is still taken for a
publication that succeeded.

Abstractions: contents and digests of files are not modelled, a file stands
for its kind and block; the private temporary names of an atomic publication
are left out; a timed block is one step (`RunBlock`; `WorkerBarrier` is its
detail); starting the runner, reading the manifests and opening the run
directory come before `Init`; deadlines may expire at any time.

### 2.3 PassAdapter

Two threads of the adapter (`apc`, `mpc`), the child, the raw files, the event
stream, the two JSONL streams, acknowledgements and releases with their
durability, the latched reason. The child's program is not in the repository;
it is modelled from `pass_boundary_contract.h`, which is written for it. A
partial last line of the event stream is a stale read.

### 2.4 WorkerBarrier

The parent's position, its process slots, the shared counters (as sets of the
lanes that incremented them), each lane's position, row and status. A lane may
be killed at any step, a query may throw or run for ever, a fork may fail, the
parent may be stopped, run into a deadline or be killed. Left out: prewarm, the
resource numbers of the census (they are recorded, never compared) and the
count of telemetry calls in the timed region.

### 2.5 LeafLanePool

The shared fields, each thread's `threading.local` record, where each thread is
in `lane_ready` and `execute`, and who wrote each arena last. The callers are
not part of the repository: a thread calls anything its record allows, and
`Joined` says whether the coordinator waits for its workers before it finishes
a batch, as a thread pool that collects results does.

### 2.6 LeafKernel

One call: `Init` takes a request, an action is one iteration of a loop. The
ring is the sequence of what it holds, the heap the set of its candidates, a
numeric interval the set of ids it admits, a non-finite distance a negative
number. `Answer` is the set definition of the query. A row is taken from the
ring when it is retained; in the code the batch leaves as a whole, which only
its end makes visible.

### 2.7 ShardBuilder

`file` says whether each graph is absent, torn or whole, `fileSynced` and
`nameSynced` what a crash keeps, `rows` and `rowsSynced` the log. `Synced`
selects the range builder (size check, three fsyncs) or the categorical ones
(none). A run may die and the machine may crash at every step. `Graph::save` is
a library: it creates the file under its final name and does not report
whether all of it was written.

### 2.8 BeamOrder, BeamSearch and BeamExecutors

`BeamSearch` is the sorted-vector search of `categorical_bench.cpp`: the beam is
a set of vertices that the order (distance, id) sorts, the seen filter a
function from slots to vertices, so that a collision forgets a vertex. `Begin`
takes a query, `Expand` is one turn of the loop (the nearest unvisited vertex,
its unseen neighbours, the union with the beam and its trimming), `Continue` the
one continuation, `Answer` the end. `BeamExecutors` has the same four actions
over a container that is a record of the code's arrays: heaps as sequences in
heap order, the open-addressing table with its tombstones and generations,
stamped statuses, sorted buckets. What the code throws on sets `failed`. `engine`
names the search: `dual`, `indexed`, `fixed` and `radix` differ in the container,
`reusable` in the filter, `batched` scores a vertex's neighbours together with a
prefix cut, `memo` remembers exact distances over the replays of a query, `spill`
keeps what the beam lost and may go on. The refinement mapping reads the set of
vertices and the visited ones out of each container.

Distances are small integers, `Infinite` stands for INT_MAX; a vector's prefix
distance is part of the query. Prefetches, alignment and counters that are
only printed are left out.

### 2.9 PairScan, RetainedTop, EliasFano, BlockCompositor

Each kernel is an operator over a record `c` that holds its arguments, and
returns the status codes of the source. A vector is what its groups of
dimensions add to a squared distance, so that a partial sum is a prefix. The loops of
`PairScan` are recursive functions of the number of turns; its packed scans read the
groups in the order of the packed copy, `order`, and a row is named by an offset into
the primary posting. A checked entry that refuses its input returns `NoAnswer`.
Elias-Fano objects are words of bits, with their padding. The compositors share
`CompositorStep`, one turn of the merge; `ExactCalls` gives both the same logical
plan and runs them in step.

### 2.10 PredicateLayouts, LayoutEngines, LayoutSelector

A data set has rows with the labels a, b and bin; a vector is named by its row.
The layouts are the offsets and the two maps of the code, the audits read them as
the code does. `LayoutEngines` answers a query by each system's route: fragments
whose ids or vectors are held, the pair-major base with a residual range, the
cube, the scan X3 and its ablations. `LayoutSelector` has the workloads'
acceptance, the two selections and the validation; in `ExactCalls` a run loads,
selects (each improvement is a step, and any candidate that a hash order can put
first may be taken), times family after family and validates.

### 2.11 OrderedRanges and RangeProvider

The three executors over one attribute, with what their graphs cannot reach and
how many rows beyond the pool they return as inputs. `RangeProvider` is the
child's side of the staged runs: raw files and a summary created exclusively, a
ready message, and the documents a release leads to. The supervisor's documents
may name another stage, another process or an earlier attempt; a digest is the
content it is of.

### 2.12 CategoricalPasses

The directory of the pass barrier as the program sees it (`seen`), as a crash would
leave it (`kept`), and the contents that are on the disk (`flushed`). `Publication`
is `durable_publish_no_replace`, a step per system call: write the partial file,
sync it, link it, sync the directory, unlink, sync again; first of the raw results,
then of the ready record. `PassStep` adds the check of what is in the way, the wait
and `BarrierReleased`, the validation of the release and of the acknowledgement it
names. The program may end at any step and be started again, with the token and the
CSV path of the attempt before or with new ones; a CSV that exists is refused. A
crash keeps either state of each name that is not settled and may tear what was not
synced. The supervisor is not in the repository: it acknowledges whole results that
are right, may belong to any attempt so far, and may publish a release in one step or
leave it torn for a while.

### 2.13 ResidentData and ResidentBlocks

Rows have tokens and values, queries mean the rows of one or two tokens within
intervals of bins. SIEVE sees labels, the graph engine subsets. `WhyClosed` and
`WhyUnasked` are the code's checks in their order, from the data to the
resource gate and from the query file to the permutation; `RunBlock` times a
block, asks again and audits. `c.program` selects the formal runner or one of the
three pilots, `c.complete` v20b's exact equality. Words of the permutation and
sizes have width `WordSize`.

## 3. Runs and bounds

| run | bounds | why they are enough |
|---|---|---|
| `block_release` | 5 pairs (10 blocks), 2 signals | both gates act on pairs, the final gate only at the end; the second signal comes during cleanup, or meets the lock or the handler of the first (276 074 states) |
| `pass_adapter` | 3 passes | a first, a middle and a last pass |
| `worker_barrier` | 3 lanes, 3 rows | lanes that fail, finish and hang together; a lane with none, one and more rows |
| `leaf_pool` | 3 threads, 2 lanes, 2 batches | a thread without a lane, and a second batch that reuses the lanes |
| `leaf_kernel` | 6 rows, K 2, ring 3, batch 2; 40 788 calls | ring and batch fill, wrap and leave a remainder; supports below, at and above K; full output |
| `range_builder` | 3 shards, 3 runs | a run before, during and after the one that fails |
| `beam_executors` | 8 engines; 10 vertices, 4 graphs, 122 first queries, up to 3 searches of a workspace; epochs to 2, status tables from 2 slots, filters of 2 to 8 slots, beams of 2 to 7 | the epoch wraps in the third search; tables fill, probe and rebuild; filters collide; beams are both wider and narrower than what is reachable; one graph brings a visited vertex back |
| `exact_calls` | 16 572 calls of ten kinds, with the bounds below | each is the smallest in which every branch is taken |
| the `violation` runs | 1 pair or pass, 2 shards | the shortest counterexamples |

Every passing run explores its whole state space. Deadlock is checked except
where the system may really stop: the runs of `LeafLanePool` (nobody need call
anything) and of `ShardBuilder` (nobody need start a run). Terminated programs
stutter by an action of their own.

### 3.1 What the passing runs show

* `block_release`: no block is timed while the controller audits another
  (`AuditNeverOverlapsTiming`); every release rests on durable evidence
  (`PermissionIsRecoverable`); releases, acknowledgements and stops follow the
  permission contract (`ImplementsPermission`, so that a recorded stop bars
  every later release), and neither program's verdict is overruled by the other
  (`StopVerdictIsFinal`). The run passes only with all its blocks, and with every file
  its verdict rests on durable (`PassMeansComplete`; release files excepted, the last
  of them is never synced). No runner survives its controller's cleanup, unless a stop
  handler raises in that cleanup, which takes two signals (`NoOrphanRunner`). The
  runner ends, and so does the controller unless two signals made it wait for its own
  lock (`Termination`, see 3.3).
* `pass_adapter`: the same contract for passes and rows; an acknowledgement
  vouches for all its rows (`AckBindsRows`), a stop latched by the monitor bars
  the link that follows (`LatchedStopBarsLink`), and neither the child nor the
  monitor outlives the adapter (`NothingLeftRunning`). What the adapter does while a
  pass is timed is the end of the release that let this very pass start, the unlink of
  the private name and the last directory sync (adapter lines 724-727), and nothing
  else
  (`AdapterNeverOverlapsTiming`).
* `worker_barrier`: the measured interval contains all the work and nothing
  else, each row is executed once, an accepted block is complete, the guard
  never signals a recycled process id, and `run_block` ends.
* `leaf_pool`: with joined workers, arenas are exclusive, also to a thread whose
  binding is of an earlier batch, since each batch makes it bind anew; every request
  of a finished batch was served; and a support is the thread's own. The races of a
  pool whose coordinator does not wait are not in this run (see 3.3).
* `leaf_kernel`: both kernels return the exact answer or refuse. A conjunction
  needs postings validated before; the others do not.
* `range_builder`: a logged graph is whole, durable and logged once, over all
  crashes. That no run touches it again is proved (`LoggedGraphsStay`).
* `beam_executors`: every engine makes the reference search step by step
  (`ImplementsBeamSearch`), whatever an earlier query left in its workspace; its
  heaps, flags and statuses never disagree with each other, nor a remembered
  distance with the exact one (`ContainersAgree`); a vertex that was scored and is
  missing from the top is not nearer than what is there, cuts and the
  continuation included (`NearestAreKept`); and the rolling counters that decide
  whether to continue are those of a recount, and a search that continues stays
  within the visits and the width it announced (`TraceIsExact`).
* `exact_calls`:
  * the three intersections and seven scans of a pair answer as the definition
    of the k nearest does, ties included (`PairIsExact`); so do the retained and
    segmented tops, each of which accepts a support if and only if it ascends (the
    segmented one: within each segment), lies within the rows, has enough of them and
    finite distances (`TopsAreExact`);
  * an Elias-Fano object that is accepted is canonical, the encoding of what it
    decodes to, and the streaming scan ranks just these rows (`CodecIsExact`); an
    object whose alteration makes it the encoding of another support is not noticed,
    the format has no checksum;
  * both compositors return the nearest rows of the plan or refuse, and alike
    (`CompositorsAreExact`);
  * every system of the predicate cube answers each query it serves exactly, or
    refuses when a part is too small (`LayoutsAgree`); selections stay within the
    budget and never lose to the staged one, in every order of the hash table
    (`SelectionIsSound`); audits accept exactly the layouts and answers that are
    right (`ChecksAreExact`);
  * the range executors return rows of the range, each once and nearest first,
    and lose a reachable row only in a block that the range cuts and whose pool
    was full (`RangesLoseOnlyAtBoundaries`); no stage runs on results that were
    not found right, and a pass of the categorical executor is left only with results
    that are right, durable and of this attempt (`StagesAreGated`);
  * in the same-resident runs labels, subsets and queries mean the same rows, the
    query file is opened only for comparable systems, each place of the
    permutation is equally likely, and a block counts if and only if its answers
    are right (`BlocksAreSound`).

### 3.2 What the violation runs show

* `block_release_lost_stop`: a stop handler that runs in the main thread while
  it holds the commit lock raises inside `publish_block_release`; the except
  branch finds the release it has just linked, takes the error for an
  idempotent publication, and the stop is neither recorded nor ends the run.
* `block_release_durability`: the controller acknowledges a block on visible
  names that the runner has not yet made durable.
* `leaf_pool_stale_cursor`: `end_request` accepts a request whose last
  `execute` failed, with the row count of the one before.
* `shard_builder_resume`: a categorical builder is killed while it saves a graph; the
  next run finds the name, takes the torn file for a built shard and leaves it out
  (`SkippedIsBuilt`). The range builder has the same gap in its resume check, in
  spite of its size check: a file the check rejects stays, and is skipped.

### 3.3 What the models show without a run of their own

* With `Joined` false `ArenaExclusive` fails in `LeafLanePool`: `execute` does not
  compare the generation, so a request may outlive its batch; and `lane_ready` reads
  the generation after it has left the lock (line 415), so a thread may take a lane of
  one batch for one of the next. Only `TypeCorrect` is proved of such a pool.
* Two stop signals can make `execute` wait for ever. The handler of the first raises
  in the `__enter__` of the commit lock after the acquisition (controller lines
  257-263), and no one releases the lock; the handler of the second, or the next
  publication, acquires it again. The comment at lines 271-272 says that a handler
  that runs before the mask cannot deadlock. `Termination` names the exception
  (`SelfDeadlocked`) and that it takes two signals.
* A SIGKILL of the runner (runner line 760) leaves its lanes spinning, since
  nobody is left to open a barrier or kill them; `NoLaneLeft` excludes it by name.
* The streams whose rows an acknowledgement of the pass adapter vouches for can be
  lost in a crash that keeps the acknowledgement: `append_many_jsonl`
  (adapter line 86) syncs the files, nothing syncs their directory.
  `AcknowledgedRowsSurvive` states what breaks; `block_release_durability` shows the
  same gap in the other protocol.
* The first reason a pass is stopped for is the one reported (adapter line 312),
  and no pass start is read before its permission (line 543): theorems
  `FirstReasonStays` and `NoPassStartsEarly`.

Dangers the code has and no property states: `StagedSelect` divides uses by bytes,
0/0 for an unused empty support, and sorts by the quotient (`mixed_runner.cpp`
231); `publish_raw` digests a file it reads again by name
(`hierarchical_range_bench.cpp` 167), which nothing in the repository exchanges;
two v18 pilots wait for their lanes without a deadline
(`laion1m_v18_equality_local_graph_pilot.cpp` 375,
`laion1m_v18_sieve_local_graph_hybrid_runner.cpp` 246); and the mixed pilot with
one lane returns 0 whatever its totals say
(`laion1m_sieve_mixed_pilot_runner.cpp` 931).

## 4. Fairness

`FairSpec` is weak fairness of what the code schedules without anybody's help,
and nothing more.

* `BlockRelease`, `PassAdapter`: each process and thread that is alive takes
  its next step, and a deadline that is polled expires (it is a step of the
  poller). The environment (signals, kills, crashes) owes nothing; but a handler
  whose signal was delivered runs on (`HandlerStep` of `BlockRelease`), while that
  its exception meets any given position (`HandlerRaises`) is not assumed.
* `WorkerBarrier`: the parent steps, and a SIGKILL reaches its target. No lane
  owes a step: `Termination` holds although every query may hang.

The other modules state no liveness: a call of theirs is a loop over data that
each turn shortens, or waits for a supervisor that owes nothing.

## 5. Proofs

For every value of the constants, under the named assumptions of the modules:

| module | theorems |
|---|---|
| `BlockReleaseProofs` | types, every safety invariant and action property of the run, the refinement `PermissionImplemented`, and of the contract itself `UnitsStartInOrder` and `UnitsAreExclusive` |
| `PassAdapterProofs` | the same for the adapter, with its refinement |
| `WorkerBarrierProofs` | `TypeCorrect`, `RowsAreExclusive`, `TimingIsExact`, `AcceptanceIsComplete`, `GuardIsExact`, `NoLaneOutlives` |
| `LeafLanePoolProofs` | `TypeCorrect`, for any pool; `LanesAreIsolated`, `SupportsAreOwn`, `BatchesAreServed`, from `Joined` |
| `ShardBuilderProofs` | `TypeCorrect`, for all builders; `LogIsSound`, `LogIsExact`, `LoggedGraphsStay`, from `Synced` |
| `LeafKernelProofs` | `TypeCorrect`, `MergeExact`, `FusedExact`, `RefusalsRight`, `SelfChecksRedundant`, for any postings, predicate, K, ring and batch |
| `ExactCallsProofs` | `StagesGated` from `GateIsHeld`, `StagesAreReleased` and `PassesAreReleased`, with the kernels' invariants `OrderedStaysSound`, `ProviderStaysSound` and `PassesStaySound`; `TopsExact`; `PairExact`, with the kernel's invariant `PairsStaySound`; of `BlocksAreSound` the parts `DrawsAreUniform`, `SystemsComparable` and `RunsAreInOrder`, with the runs' invariant `BlocksStayInOrder` |
| `BeamExecutorsProofs` | `NearestKept`; for the engines in `Plain` (`reusable`, `batched`, `memo`, `spill`, `fixed`, `radix`) the refinement `PlainImplements`, `PlainKeepsNearest` and `PlainAgrees`; `TraceExact` |

Each argument is an inductive invariant of which the property is a part or a
consequence.

* *BlockRelease*: `SafetyInv` adds to the properties the order of the files of
  a block (`FilesInOrder`: a later file exists only if the earlier ones do and
  are durable where the code waited), of the blocks (`PermissionOrder`) and
  what each program knows at each of its positions. The properties alone are
  not inductive: that an audit does not overlap timing depends on the runner
  having waited for a release which the controller links only after the audit.
  `CommitSection` says who can have the lock at each position, `SignalCount` that
  what an exception leaves of it (`LeftBehind`) has used up a signal, so that cutting
  the cleanup short, or a self-deadlock, takes a second one; `FilesDurable` which
  files are durable at each position of their maker.
* *PassAdapter*: the same, with the commit lock's owner and the latch: between
  the check and the link the latch cannot change because both are inside the
  lock.
* *WorkerBarrier*: `ChildInv` relates process slots, lane positions and exit
  states; `BarrierInv` says what an open barrier implies about the lanes behind
  it; `WorkInv` accounts for every row below `next`: in one hand, answered, or
  lost by a lane whose status says so.
* *LeafLanePool*: a member of a batch has a record of the current generation
  and a binding of its own, or is about to get the record.
* *ShardBuilder*: a shard with a row in the log is whole, durable and not
  among the work to come, wherever the run is.
* *LeafKernel*: `ScanInv` says that each posting was in order as far as it was
  read and that its next row, if it passes its check, lies beyond all that was
  read of the other; so a row is never seen twice and the output ascends.
  `Seen` is what the predicate keeps of the rows read, and the rest of the
  invariant says where each of its rows is: in the output, in the ring (each
  once, and counted with `rows` and the batch in progress), or behind the heap,
  which is `BestOf` them: all, or K + 1 that are better than the others. That
  the K least of such a heap, and the tie at their cut, are those of the whole
  support is `CutOfBest`. Two facts need induction, that a validated posting
  ascends and that a finite set has a worst row; both come from the
  well-foundedness of strict inclusion on finite sets, whose library theorem
  takes no operator.

* *ExactCalls*, the passes (`PassInv`): of every publication, what an outcome rests
  on was flushed before the outcome had a name, and what a crash leaves of it is a
  prefix of that order. So whoever finds the name finds durable results of this
  attempt, and the barrier after a pass (`PassesAreReleased`) needs no history.
* *ExactCalls*, the stages (`ProviderInv`): the stages accepted are a prefix of the
  stages, each with three files of its own behind it, and an audit that passes
  is one whose counts were honest; `StagesAreReleased` follows.
* *ExactCalls*, the gate: the counts of the audit are sums over blocks, and they
  add up to the number of queries only if every block has answered each of its
  own with K different rows. This is counting (`PartitionIs`, `ImageCard`), and
  makes `GateHolds` a fact about rows.
* *ExactCalls*, the tops: `KeptOf` says of a heap that it holds what it was
  offered, or the best K + 1 of it, and `Retain` keeps that. A scan has offered
  the heap the rows below its position; the merge of segments has offered what
  its heads have passed, the values it has taken lie below the heads, and so an
  id that several segments hold is scored once. That a merge ends is a count: each
  turn takes an id it had not taken. That each kernel accepts just the good supports
  (`GoodIsFine`, `GoodIsCut`) needs that neighbours which rise make a whole sequence
  that rises (`NeighboursRise`, `PlacesRise`).

* *ExactCalls*, the pairs: what a group adds to a distance is not negative, so partial
  sums grow (`PartialGrows`), and in whatever order the groups are read their sum is
  the distance (`PermutedSum`). A row whose part already loses is therefore beyond a
  full frontier (`LosesByPart`). `IsTop` says that a frontier holds the k nearest of
  the rows offered so far, in order and ties by row; inserting keeps it, and so does
  leaving out a row that loses (`DropKeeps`), hence each sweep, each block and the
  prefix cascade keep it (`SweepTops`, `BlockTops`, `PrefixTops`), whose spans are all
  of the rows. Such a frontier answers as the definition does, by counting the nearer
  rows (`AnswerIsNearest`). An intersection finds the places `Shared`, ascending: the
  rows of the secondary posting before its cursor are below all rows of the primary
  one still to come, and what was found is what the places passed share (`GallopAt`,
  `MergeAt`); that the merge ends is a count of the places before the cursors
  (`Come`). The ascending places within a posting are no more than its rows
  (`RisesBelow`), so offsets fit and lead back to their rows (`OffsetsLeadBack`).
* *ExactCalls*, the same-resident runs: the words the shuffle accepts are those from
  the remainder of the word size on, so each remainder belongs to one of them per
  whole multiple (`WordsOfPlace`, a bijection). A size is compared with a sum only
  after a check that the sum does not wrap, which is all that `SystemsComparable`
  needs of widths (`SizeAssumption`: a size is a word). `RunInv` keeps why a run was
  closed and what arm and gate each timed block had.

* *BeamExecutors*, the reference: `KeptInv` adds to the property that the beam is never
  narrower than k, that what it holds was scored and that the filter is well formed.
  A vertex that was scored and is not in the beam then has k others in it that are at
  least as near: trimming to the beam, the cutoff of a full beam and a loose metric cut
  each keep that, by counting the nearer vertices; a vertex the filter forgot is
  scored again and is judged anew; a continuation only adds.
* *BeamExecutors*, the six engines of `Plain`: `PlainInv` relates the workspace of
  an engine to the reference. A filter whose cells bear epochs `Stands` for the
  fresh filter of the reference: a cell of another epoch is empty. A remembered
  distance is the exact one of the query in hand. In the fixed frontier the flags and
  the statuses of the epoch both say what was visited, also of a vertex that had left
  the beam and returns, so the vertex it hands out is the nearest unvisited. Sorting
  is by rank, and ranks are a bijection, again by counting. The radix frontier is at
  every turn `RadixOver` its set of vertices: each bucket is the sorted sequence of the
  vertices whose distance falls into it, no bucket is empty, and what may still be
  handed out is in the unvisited heap. An insertion keeps this form, the last of the
  last bucket is the farthest, dropping it until the beam fits leaves the nearest, and
  the vertex of rank n is found by passing over whole buckets.
* *BeamExecutors*, the trace: `TraceInv` says of each of the window's slots which turn
  it holds, by arithmetic modulo the window, and that the counters are the sums over
  the window; a step changes them by what leaves it and what enters. `WithinBound`
  bounds visits and width before and after the one continuation.

Loops over data are recursive functions over the number of turns, and what they
compute is related to a finite run of one-step operators (`RunExists`, `IsRun`);
induction along such a run is `CountUp`, which follows from the well-foundedness of
strict inclusion as above. Named assumptions of `ExactCalls` say what an input
is: a support ascends within the rows there are (`SupportAssumption`), so do the
postings of a pair, whose packed copy has the more than four groups (the code has six)
in any order and whose k is positive (`PostingAssumption`); blocks and stages are not
empty and belong to their queries (`SubsetAssumption`), what a crash leaves is a subset
of what was written (`LeftAssumption`). The programs check these (that the order of
dimensions is a permutation at `categorical_bench.cpp` 8120-8124, k is a template
parameter), and the file system grants the last. Those of `BeamExecutors` say
that the queries of a run are over one shard, have a place in the beam for k and for
every start and a filter that fits the workspace (`QueryAssumption`, with `SlotMax`),
as the searches check or prepare for. TLC evaluates all of them.

The refinements map initial states to initial states and each step to a step or
a stutter; making a directory durable may be evidence for several units at
once, which is why `Evidence` takes a set.

Only model-checked:

* `Termination` everywhere: liveness and ENABLED are outside what the prover does.
  The loops of `LeafKernel` are not checked for termination: each iteration reads
  a row or empties the ring.
* Of `BeamExecutors`, that the engines `dual` and `indexed` refine the reference
  (`ImplementsBeamSearch`) and that their containers agree with themselves: heap order
  and positions, stale entries and tombstones.
  By `NearestKept` nothing else is open about their `NearestAreKept`.
* Of `ExactCalls` the properties
  `CodecIsExact`, `CompositorsAreExact`, `LayoutsAgree`, `SelectionIsSound`,
  `ChecksAreExact`, `RangesLoseOnlyAtBoundaries`, and the rest of `BlocksAreSound`
  (`LabelsMeanRows`, `GateIsExact`, that an order has each query once): they say what folds,
  filters and sorts of sequences compute, and the provers cannot expand the library
  operators for these. Each would have to be written as a recursive function
  first, as `RetainedTop` and `PairScan` are.

Type invariants and some of the invariants that used to be runs' properties are
theorems only, since a proof for every instance says more than a run:
`StartsInOrder`, `OneRowEach`, `RefusalsAreRight`, `SelfChecksHold`,
`EarlyStopIsPreempted`, `NoEarlyStart`, `FirstReasonKept` and each `TypeOK`.

## 6. Abstractions that several modules share

* A file is its kind, its position in the experiment and who wrote it; a digest is
  the content it is of, so a collision is impossible.
* Random words, measured sizes and times are inputs, any of a small set.
* A float reduction is a function of the row. Different orders of summation of one
  distance are one operator; a distance that is not finite is a negative number.
* External graph searches return any answer within stated faults: rows they do not
  reach, rows twice, rows the filter should have stopped.

## 7. What is not modelled

* *Controller input validation* (`analyze`, manifests, digests,
  `verify_submission_results.py`): comparisons of files with each other, without
  state.
* *Compact support arena*: a read-only directory of supports like the packed
  compositor's, which `BlockCompositor` models; only its self-test opens it.
* *Fragment advisor*: one call of an external integer-programming solver. The
  selection the engines make is in `LayoutSelector`.
* *SIFT100M executor* (`sift100m_bench.cpp`): routing and timing in one `main`
  over searches and scans that the other modules have.
* Of `categorical_bench.cpp`: option parsing, loading, how a pass hands its
  queries to the lanes, deferred reporting, and the variants that only
  measure (two thirds of its lines).
* Of the ordered executors: `publish_raw`'s second open, option parsing and blocks
  that have no rows at all. Of the provider: the supervisor's own program.
* Of the same-resident runs: the CSR's binary layout, the heartbeat thread and the
  JSON, the truncation of a bin to 16 bits in `parse_interval` (no bin is that
  large), the pilots' forked lanes (`WorkerBarrier` has the formal runner's).
* Of the controller: the retry of an interrupted publication
  (`publish_block_release` 259-314), which `execute` does not reach.
* Of the builders: the construction of the graphs.
* Index libraries (SIEVE, ParlayANN, hnswlib, `Graph::save`): external, used by
  what their callers rely on. Tests, build files, stored results, the paper.

## 8. What could come next

1. Proofs that the heap engines refine the reference, the indexed one first (its
   positions make the invariant local), then of the compositors and of
   the stored objects.
2. `SupportArena` and the SIFT100M routing as further calls of `ExactCalls`.
3. `CategoricalPasses` as a third refinement of `BlockPermission`, and the retry of
   an interrupted publication in `BlockRelease`.
