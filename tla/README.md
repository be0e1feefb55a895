# FlexPS: models, checks and proofs

FlexPS is a parameter server for machine learning on the Husky platform.  A
program consists of tasks; a task runs for a number of epochs, each epoch on a
set of threads chosen anew (its *instance*), and its threads share a model that
lives in a key-value store spread over servers, or in the process.  The
development here covers the store, the workers and local models on top of it,
the scheduling of tasks, the way input reaches the threads, and three programs
that combine them.

## 1. The system

| Component | Source | State | Operations | Hard because |
|---|---|---|---|---|
| SSP server | `kvstore/handles/ssp_server.hpp`, `basic_server.hpp`, `basic.hpp` | clocks per worker, count per clock, `min_clock_`, buckets of blocked pushes and pulls, the partition | Init, push, pull, each also without consistency control | arrival order, workers waiting for one another, reset and resizing at epochs |
| BSP server | `kvstore/handles/bsp_server.hpp` | phase, iteration and progress of pushes and pulls, buckets | as above | workers that run ahead, phases that must always end |
| KV worker | `kvstore/kvworker.hpp`, `workercustomer.*` | `tracker_`, `callbacks_`, `recv_kvs_` | push and pull of keys and chunks, Init, Wait, the receiving thread | two threads, answers in any order, five message formats |
| Range manager | `kvstore/range_manager.*` | key and chunk ranges per server | set-up, lookups, cutting requests | unsigned wrap-around, last chunk, more servers than chunks |
| KV store | `kvstore/kvstore.*`, `kvmanager.hpp`, `servercustomer.*` | mailboxes, servers and workers of a process, tables | Start, creation of tables, requests, Stop | processes run the main program at different speeds |
| PS workers | `ml/mlworker/ps.hpp`, `ml/model/chunk_based_ps_model.hpp` | thread caches, process cache with a clock per chunk, push buffer | pull, push, the v2 interface | threads fetch for one another; labels and contents must agree |
| Local ML workers | `ml/mlworker/{single,hogwild,spmt}.hpp`, `ml/shared` | the shared model | construction, load, pull, push, dump, deletion | the leader owns what the others use |
| Consistency controllers | `ml/consistency` | clocks under a mutex | before/after push and pull | condition variables |
| Chunk models and caches | `ml/model` | chunks in memory, flags, locks, a spill file | prepare, push, pull, load, dump | eviction under many locks |
| Cluster manager | `cluster_manager/cluster_manager.cpp`, `scheduler_trigger.cpp` | the scheduler, finished-thread counter, last instances | serve loop: tasks, finished threads, exit | messages from all processes interleave |
| Task schedulers | `cluster_manager/task_scheduler/` | free threads, threads per task, status, history, angry list, parallelism policy | `init_tasks`, `finish_thread`, `extract_instances` | books must agree with the processes |
| Worker, instance runner, model transfer | `worker/` | instances and threads of a process, models in transit | main loop, `run_instance`, thread ends, `Submit`, `Exit`, transfer | the manager is told before the instance is removed; order across sockets |
| Data path | `io/`, `lib/sample_reader*.hpp`, `lib/load_data.hpp`, `datastore/` | blocks not yet given out, ring of batches, data per thread | ask, load, get a batch, iterate | end of data seen by many threads; a loader thread |
| SVRG, LDA, ALS | `exp/svrg`, `examples/lda`, `examples/mf_als` | the tables and per-thread models | their loops | several tables and barriers in step |

How they interact: `Engine::Submit` sends the tasks to the cluster manager; the
manager sends instances to the worker processes, which start threads; a thread
creates an ML worker.  A PS worker's KVWorker announces the epoch to every
server (`InitForConsistencyControl`) and then pushes and pulls; the servers
answer when their consistency rule allows.  The threads of a local worker share
a model under a consistency controller, which the leader loads from and dumps
to the store, or hands to the process of the next epoch (direct transfer).  The
thread ends, its process tells the manager.  Processes talk over ZeroMQ sockets
and Husky mailboxes (the `husky` submodule, not in this tree), taken as FIFO per
sender and receiver, without loss: the code neither retries nor detects
failures, so there is no fault model.

## 2. Modules

Variables keep the names of the members they stand for.

**`StaleStore`** is the abstract specification of a server partition: every push
is taken in once, and a pull is answered with values neither too old nor too
new, and no older than the label they carry.  It knows no messages, counters,
phases or buckets.

**`SSPServer`** is one partition under SSP.  `ServerCustomer::Receiving` hands
the handler one message at a time, so a message is one action.  Values are
abstracted to the set of pushes they contain: `store_` counts how often each
push was added, and the view of a pull is the set of pushes in it.  This is all
that staleness distinguishes, since `update` adds and `retrieve` reads.  The
workers appear as their messages: a worker waits for a pull it expects an
answer to, may push again without waiting (the API does not force `Wait`), and
may send requests without a body for this partition (`send_all`), which move
the clocks and are never answered.  `members` is the set of threads of the
running instance and changes with every epoch.  **`BSPServer`** does the same
for the BSP handler, with workers that alternate pulls and pushes and wait for
every answer, as PSWorker does; `init_reply_phase_` takes both values.  Each has
a refinement mapping to `StaleStore` (`ImplementsStaleStore`): SSP with
`Staleness` and a lead of `Staleness + 1`, BSP with both 0.

**`SSPEpochs`** puts PSWorker threads with FIFO mailboxes in front of the SSP
server and drops the assumption of `SSPServer` that the messages of an epoch
arrive before the next one starts.

**`KVWorker`** models the application thread and the receiving thread of one
KVWorker at the granularity of its critical sections: a request is registered,
its callback added, its slices sent, all in separate steps; an answer is tested
for being the last, stored, its callback run and then counted, in separate
steps.  The command arithmetic (`cmd` with its magic numbers) is kept because it
decides how an answer is parsed.

**`RangeManager`** holds the ranges of one store as the code computes them, with
keys of `Width` bits that wrap around and an `int` of `IntWidth` bits, together
with `Slice_` and `PartitionChunks_` of KVWorker, which must agree with them.

**`KVStore`** is the life of the store over all processes: the numbers of
mailboxes and servers that `Start` computes, `ServerFactory`, the creation of
tables, tasks that use them through the default server, and `Stop`.  A main
program is a sequence of steps that every process executes at its own speed.
**`ALS`** extends it with the two matrix-factorisation programs.  A factor is a
number whose digit k says how often iteration k went into it.

**`PSWorkers`** has the seven kinds of PS worker with their caches: the pull of a
worker is cut where it locks, waits or asks the server.  The server is the one
of `SSPServer` or `BSPServer` reduced to when it answers and with what.  A push
is a message: `Send` puts it on its way and `Arrive` delivers it, behind the
earlier messages of its sender (the mailbox is FIFO per sender; external).  A
worker whose next pull waits for its last push does so (`WaitsForPush`); the
flush of the push buffer waits for nothing, its `Wait` being commented out
(`chunk_based_ps_model.hpp:60`).  A table is used through keys, chunks or the v2
interface (`api`).

**`ConsistencyController`** (operators on a controller's fields) and
**`ChunkModel`** (steps of one thread in a model) are composed in
**`SPMTWorker`**: the threads of a process over two epochs, from the leader's
construction to its deletion, with the transfer of the model to the next epoch.
A parameter chunk is the number of updates in it.  `is_cached_` is a
`vector<bool>`, so setting a flag is a load and a store of the word it shares with
its neighbours (`LoadWord`, `StoreWord`, `WordSize`); `lost` records the chunks
whose flag such a store has undone, `unsaved` those that were in the file when
their model was dumped.  The caching models override `Push` and `Prepare` only:
called by keys (`api`) they pin, count, replace and unpin; called by chunks they
are the `ChunkBasedMTLockModel` they inherit from and never replace anything, so
their memory is not bounded (`Replacing`).  A table is used in one way
throughout: chunks pulled by `PullChunks` and pushed by `Push` would be unpinned
without having been pinned, a mixture that is left out.

**`TaskSchedulerUtils`** has the choice of threads as operators: each yields the
set of all selections the code may make, since free threads sit in hash tables.
**`AutoParallelism`** is the policy that looks for the best number of threads;
measured times are left open.  A stage runs in pieces of `try_iters` iterations
(10 in the code, `TryIters` here) and ends only when their sum *equals* its
length (`auto_parallelism_task_scheduler.hpp:123`).  A stage that is no multiple
may pass its length, and then ends only after a piece that was slower than the
one before: the rest is negative, and a function told to run less than no
iterations runs none (`Ran`).  If no piece is ever slower it does not end; the constant
`MaxFaster` bounds how many pieces in a row are faster.  **`ClusterManager`**
composes the manager's serve loop, the scheduler trigger, the four schedulers
(`task_scheduler_`), the main loops, the instance runners, the threads, and the
direct transfer of models.  `extract_instances` handles one task per step;
`kThreadFinished` is two steps, since the manager hears of it before the
instance is removed.

**`HDFSAssigner`** (both assigners as functions on their state), **`DataStore`**
(iterators as functions on a position) and **`DataLoading`**, which composes
them with the input formats, the asynchronous buffer and its loader thread, and
the threads of a task that read in one of several ways (`Scenarios`).

**`SVRG`** and **`LDA`** are the programs of those names.  A gradient is a
function from data to multiples of 1/`Scale`, a topic count a number; which
topic the sampler draws is left open.

The theorems about a module stand in a module of their own: **`SSPServerProofs`**,
**`BSPServerProofs`**, **`KVWorkerProofs`**, **`RangeManagerProofs`**,
**`PSWorkersProofs`**, **`SPMTWorkerProofs`**, **`ClusterManagerProofs`** and
**`DataLoadingProofs`**.  The inductive invariants are at the end of the modules
they are about.  `MC*` modules give the values of constants that a configuration
cannot express.

## 3. Runs

| Run | States | Shows |
|---|---|---|
| `ssp_server` | 164,000 | Two epochs with any two worker sets, three clocks in the first, uncontrolled pushes: implements `StaleStore`; `min_clock_` is the slowest worker's progress; reads contain every push older than the staleness; nothing is left in a passed bucket, nor do all wait for one another; every blocked pull is answered |
| `bsp_server` | 181,000 | The same for BSP, both initial phases: a read in iteration k sees exactly the iterations before it (`StaleStore` with 0); no phase buffers the request that would end it; every buffered request is answered |
| `kvworker` | 398,000 | When `Wait` returns the buffer is filled, in key order and once; the callback ran once; answers are parsed in the format they were written in; `Wait` and the destructor return |
| `range_manager` | | Ranges partition the keys in whole chunks; requests are cut where the ranges are, vector stores address their own keys |
| `cluster_manager` | 126,000 | Four schedulers, two processes of two threads, two rounds of `Submit`, stages that are a multiple of a piece (6) and that are not (5, 3): threads accounted for across messages, epochs of a task in order, models where they are sent from and at whom they are waited for, assertions, and `Submit` returns |
| `spmt_worker` | 486,000 | With all flags in one word: no update lost and no flag wrong but of the chunks in `lost` and `unsaved`, what is prepared stays in memory, cache within its bound, threads in step with the controller and the leader, training ends or a flag is lost |
| `ps_workers` | 352,000 | With pushes in transit: reads have every push older than `Lag`, own pushes, exact iterations under PSBsp; clocks in the process cache are honest up to `Lead`; no update lost or sent twice, and one that `Update_v2` counts twice is seen by nobody else and forgotten with the staleness; every pull returns |
| `data_loading` | 353,000 | Every block given to one thread per epoch, walks cover a thread's share, the ring neither loses nor repeats a batch (but see 5), all threads end |
| `svrg` | 268,000 | Every datum once in a full gradient, one snapshot for all threads, the program ends |
| `lda` | 38,000 | Documents dealt out once and evenly, the table counts the tokens at every moment, likelihoods of one iteration only, the program ends if the numbers of rounds allow it |
| `kv_store` | 71,000 | Each request served once by the server that owns its chunks; ALS computes with the sums of exactly the iterations before; every rating is counted; all receiving threads are joined |
| `ssp_epochs` (violation) | | Finding 1 below |

**Bounds.**  Two workers and three clocks at staleness 1 reach blocked pushes
and pulls of one worker and their release together; the theorems cover the
rest.  Two epochs are the least in which a reset meets the remains of an epoch,
and with `members` any non-empty set the number of workers grows, shrinks or
changes its identity.  Two requests are the least that share `callbacks_` and
`recv_kvs_`.  `Width = 4`, `IntWidth = 3` keep the relation between 64-bit keys
and a 32-bit `int`; three servers include ranges cut by `max_key`, wrapped ends
and idle servers.  The tasks of `cluster_manager` use every way to choose
threads, compete, and become angry; the policy searches up to two threads, in
pieces of two iterations, of which at most two in a row are faster.  The
threshold is two for the auto-parallelism scheduler, whose instances there all
have an even number of threads, and one for the others.  `WordSize` is 64.  Four
chunks and two threads with a cache of three make evictions happen while the
other thread holds chunks.  In `ps_workers` two threads of a process with two
chunks and three iterations make fetches that are waited for, too old, and
overtaken; four iterations of one chunk let an update that is counted twice be
forgotten, and a flush be overtaken by a fetch.  `data_loading` has two hosts,
three blocks (one on both hosts, one empty), a blank line, and a ring of two
batches of two into which one loading thread puts up to three.  SVRG and LDA
have two workers and enough iterations to meet the remains of the one before.
ALS has two iterations on a cycle of ratings over two processes, with and
without shared nodes.

**Deadlock** is checked for `SSPServer`, `RangeManager`, `SPMTWorker`,
`PSWorkers` and `SVRG`, the last three with an explicit final step.  The other
systems end: workers finish their iterations, the KVWorker is destroyed, the
program exits, and LDA threads with too many rounds hang (see 5).

**Fairness** is weak everywhere.  Threads run until they block (`FairSpec` of
each module has one condition per thread, or, where the order of the threads
does not matter to the end, one for the whole program); workers of an instance
send their Init and go on with their iterations; sockets are served and the
function of a task returns.  None of these steps is disabled by another actor
once it is enabled, apart from locks and sleeps, whose tests are part of the
step.

Every property of a passing run is paired with a mutation of the modelled code
under which TLC finds it violated (`PROJECT.json`, "mutants"); the mutated forms
stand before the definitions they replace.

## 4. Proofs

TLAPS checks the following for every value of the constants that the `ASSUME`s
of the modules allow.  They ask for no more than the code does: finite non-empty
sets, a staleness the constructor accepts, bounds that are numbers.  Every
inductive invariant was checked by TLC as an invariant of the module's run
before it was proved.  There is one lemma per action, and under it one step per
conjunct that the action can disturb.

**SSP server.**  `TypeCorrect` (clocks and buckets stay within the vectors that
hold them), `ClockCorrect` (`min_clock_` is the progress of the slowest worker),
`StalenessBounded` (the promise `BoundedStaleness`), `NoneStranded` and
`NoMutualWait` (no blocked request is passed over, the slowest worker is never
blocked; both together `NeverStuck`), all from `Invariance`.  None is inductive
alone.  The Inits of an epoch are counted from 0 (`InitsCounted`) and leave the
server with the instance's size (`SizeKnown`); then `clock_count_[k]` is exactly
the number of members past clock k (`CountsExact`), so that a count equal to
`num_workers_` means that the slowest worker has moved on (`MinClockExact`).  A
blocked request lies in the bucket of its clock, ahead of `min_clock_`
(`BucketsAhead`), and a push of the epoch is in the store or in such a bucket
(`PushesKept`).  So all pushes below `min_clock_` are in the store, and an
answer, given only when its clock is within the staleness of `min_clock_`
(`ReadsDue`), contains them.

`Refinement` is `Spec => ImplementsStaleStore`.  `StoreInv` adds what `Inv` does
not say of the store: a push is there at most once (`StoredOnce`), not while it
is blocked (`BlockedOutside`), not before it is due (`StoredDue`), and all those
of earlier epochs are there (`EarlierStored`); a worker that waits for a pull
makes no other call (`PullersStay`).  Then a push or a pull, whatever buckets it
opens, is summarised as a set of requests added to the store and a set of pulls
answered afterwards, and the abstract step follows from the summary alone.

**BSP server.**  `PhaseEnds`: a phase never waits for a request that is already
buffered.  The counts are exact as above; the calls of a worker alternate
(`Alternate`) and so do the phases (`PhasesAlternate`); nobody is behind the
current iterations (`NoneBehind`), and somebody has not yet made the request
that the phase counts (`SomeoneAwaited`).  `Refinement` needs where each push
is: in the store if its iteration is due, in the bucket of its iteration
otherwise (`PushesPlaced`, `Buffered`).  All answers are given in the reply
phase or as it opens, when the store holds exactly the iterations before
`push_iter_`; hence the abstract store with staleness 0 and lead 0.

**KV worker.**  `Delivered` is `WaitDelivers`, `Understood` is
`AnswersUnderstood`, for any number of servers, stores, concurrent requests and
any order of answers.  `Inv` follows every slice of a request from place to
place: not yet sent, at its server, in the mailbox, in the hands of the
receiving thread, counted; it is in one of them (`OnePlace`).  `tracker_` counts
the slices past all of them (`CountersExact`), which is why the test for the last
answer, made before the answer is stored, is still right when the callback runs
(`LastKnown`); `callbacks_` holds the callback from before the first slice is
sent until its single run (`CallbackTracked`); `recv_kvs_` has the stored slices
once each (`PullsCollected`).  What the callback does is `InKeyOrder`: the
sequence that sorts them.  `Understood` goes through the sums of magic numbers.

**Range manager.**  `Partition` is `RangesPartition`, for keys of any width and
any number of servers, from `Inv`: the ranges are those of consecutive chunks,
multiplied by the chunk size and cut at `max_key` (`Divided`).  The pass that cuts
the ranges back is a recursive function.  That its values have this closed form
is shown without induction over data, by taking the least index where they
differ; with it, the pass, which stops at the first range that begins below
`max_key`, has done all there was to do, and the ends that wrap around are among
those it corrects.  `Routed` is `RequestsRouted`, and `AnyRouted` the same for
requests of any length.  The positions that `Slice_` finds one from another are
those `lower_bound` finds from the start (`LowerBound`, `SplitsAscend`), so the
pieces are adjacent and make up the request (`FlattenSlices`); the range that
`PartitionChunks_` moves on to is never past the server of the chunk
(`NextRange`).  `RangeAssumption` also states `2^IntWidth = 2 * 2^(IntWidth - 1)`
and that these powers are positive: arithmetic that the provers do not know.

**PS workers.**  `ClocksReliable` is `CacheClocks`, `ReadsAsPromised` is
`ReadsConsistent` and `EachPushOnce` is `UpdatesCounted`, for all seven classes
with all three interfaces, pushes that arrive at any time, any number of
threads, chunks, iterations, requests and any staleness.  Each rests on the one
before.

`FetchInv` is about what is true of the process cache whoever looks at it.  A
push is in one message, in the push buffer or with `PSBspModel` (`Sent`,
`SentOnce`); a message counts at the server only when it has arrived.  A pull
arrives behind the pushes of its sender, so an answer has every push below its
clock (`Answered`); a chunk is installed together with the clock of the answer
it is from, and an update is added to a chunk without touching its clock, so the
labels of the cache stay honest (`CacheHolds`), in whatever order the answers
arrive.  The push buffer is flushed by another thread than the one that filled
it, as a push of that thread, which may be up to `s` iterations ahead and does
not wait for it.  A push in the buffer or in such a message may therefore be
missing from a value whose clock is `1 + s` past it (`Lead`), and a read may be
late by twice the staleness (`Lag`); for all other classes `Lead` is 0 and `Lag`
the staleness (but for PSMapNone, whose map is stamped with the thread's own
clock).

`ReadInv` follows one pull over its critical sections.  Which chunks are asked
for depends on the thread cache (`Asked`).  A chunk that is asked for and not
`Pending` has a clock in the process cache that is new enough, and stays so,
since installs never lower it (`Copied`); this is what makes it safe to release
the lock between `fetch_mgr_` and the copy.  What is in the thread cache has the
pushes its timestamp promises (`Holds`) and the thread's own (`HoldsOwn`).  Under
PSBsp the reads are exact, which follows from the two barriers: all threads are
in the same pull or the same push, except for those still leaving the barrier
before (`PullPhase`, `PushPhase`), and the counters `pull_num_` to `push_num2_`
say how many these are (`BspInv`).

`Update_v2` of three classes writes to a cache that `Clock_v2` adds to again, so a
read may count an update twice (`PSUnsound`, `CountedOnce`).  `UpdatesCounted`
says how far this goes: the double is in the cache of the thread that made it, in
nobody else's and not in the process cache, and only while the chunk is not older
than the staleness: the fetch that follows replaces it.

Two of these theorems have one hypothesis on the table.  `OneTimestamp`:
PSMapChunk has one timestamp for all its chunks.  `PSUnsound` shows what happens
if two requests have no chunk in common.  The proof attempt found a second case:
a missing chunk may be copied from the process cache with a clock older than
`cache_ts_`, and is then kept until `cache_ts_` expires.  With requests that
always share a chunk this exceeds the staleness from 4 on (TLC, by simulation,
finds reads that are too old at staleness 4); up to 3, or when a thread always
asks for the same chunks, it cannot happen, and this is what is proved.

**Local ML workers.**  `KeepInStep` is `InStep`, for any number of threads,
iterations and epochs and every table.  The barriers divide an epoch into rounds
that all threads are in together (`Together`); the leader can collect as many
messages as there are other threads only when all of them are at its own
barrier.  A round of iterations starts with a new controller (`Fresh`).  From
then on `BSPCounts` and `SSPClocks` tie its counters to the places and the
iterations of the threads: under BSP, counts of the threads that have pulled and
that have pushed, the latter one iteration ahead; under SSP, `clock_count_[k]` as
the number of threads past k, so that `min_clock_` is behind every thread.  The
code of the models enters by one lemma only: whatever they do, a thread that is
pulling or pushing stays so (`ModelMoves`).

`CacheRight` is `CacheSound` and `UpdatesKept` is `NoUpdateLost`, for the seven
kinds of model, any number of threads, chunks, iterations and epochs.  Both rest
on `CacheInvariance`, that is on `CacheInv` and `KeptInv`.  At its centre is
`LocksKept`: a chunk is locked by a thread exactly while the thread has it in
hand (`Held`: to fetch, fetched, to replace, written to the file), and while it
is locked, flag and content disagree only in the way its holder has yet to put
right (`Fits`).  What a thread has asked for and passed over is cached and
unlocked, its own to bring, or being brought by another (`Wanted`, `Checked`);
`prepare_count_` is the number of threads that passed over the chunk (`Pinned`),
which is why the replacement, that only takes chunks with count 0, never takes
one in use.  `num_cached_` counts the chunks to come and not those chosen to go
(`NumCached`), so it is right between the critical sections too.  Models that
are not fetched by chunks are whole while in use (`WholeLoaded`), and with direct
transfer the model is in one place between two epochs (`Handed`).  `KeptInv` says
where the updates are: outside the model before it is loaded and after it is
dumped, in memory or the file in between; the one thread of an unlocked model
stores the value it loaded plus one.

Flags share words of any size in these theorems.  A thread that stores a word
undoes what another has written to it since it was loaded; `lost` grows in that
step, and `CacheRight` and `UpdatesKept` speak of the states before: as long as
`lost` is empty.  What comes after is with TLC: in the run `spmt_worker`, with all
flags in one word, flags do get lost, and `CacheSound` and `NoUpdateLost` hold of
every other chunk.  The chunk itself may be brought from the store again without
its updates, be counted twice in `num_cached_`, or make the assertion behind a
wait fail; the replacement, which looks for chunks with a flag, may then scan for
ever, hence `TrainingEnds` with `lost # {}` as a way out.  `UpdatesKept` excludes
`unsaved`, what a caching model had in its file when it was dumped.  `Roomy`, a
premise of the bound of the cache: a replacement frees `num_dumps` chunks,
whatever the number to be brought in, so a request of more chunks takes
`num_cached_` over `cache_threshold_`.  The run has tables of both kinds.

**Cluster manager.**  `Accounted` is `ThreadsAccounted`, for any number of
processes and threads, any task list, each of the schedulers and any order in
which the messages of the processes are taken.  `Inv` follows a thread: it is
available, in an instance not yet sent, in one on its way, running or reported,
at one of these places and only once (`OnePlace`).  At each of them it is named
under the task in whose books it is, and it is in the books of one task at most
(`Booked`), so that `finish_thread`, which trusts the message, erases it from
the right list.  The sequential schedulers do not even look at the message's
task but take the first one in the queue; that this is the same one is
`FirstRuns`: only the first task has threads, and new tasks are queued behind
it.  All ways of choosing threads take them from the available ones
(`Selected`).  What `Send` appends for a process (a fold over the instances) and
what `erase_angry_task` leaves are recursive functions; as for the ranges, the
lemmas about them argue with the least index where they would fail.  The task
ids are assumed to be natural numbers, so that no task is mistaken for the -1 of
an idle thread.

`RunsOneInstance` is `RunInstanceAsserts`, the assertions of `run_instance`: the
manager is told of a thread before its process removes the instance, so it may
send the next instance of the task while the last one is still there.
`RunsInv` says why it does not arrive too early.  A round of `Submit` is at one
place: asked, at work or answered, and outside of work nothing runs (`Turns`).
A task with threads is marked as running, so that only one without threads is
given new ones (`Marked`), and an instance not yet sent holds all threads of its
task (`Unsent`).  Then of the instances of a task on their way to a process only
the last may have threads there, and none while a thread of the task runs
(`OneInstance`); the process keeps an instance only while a thread runs or its
main loop is between reporting the last thread and removing the instance, when
it takes no message (`InstancesKept`).

`ModelFound` is `TransferFindsModel`, on top of both.  The threads that run, or
are about to, are in the current epoch of their task (`EpochsKept`).  The leader of
the instance last sent is waited for or has left its model, and while no instance
is out the model of the last epoch is in its store (`ModelsLeft`).  There is one
order for a task at most, at one process (`OrdersOnce`), and while there is, the
model is in the store of that process and the new leader still waits for it, so
that neither the epoch nor the store can move on (`OrdersServed`).

**Sample buffer.**  `BufferIsSound` is `BufferSound` of `DataLoading`: for any number
of threads and processes, all blocks and replicas, every input format, and rings
and batches of any size, what the loading thread puts into the ring is in a slot
between `start_` and `end_` or was given to a thread, never both, and a thread
that was told there is no more data leaves at most the last batch behind.
`BufferInv` (`BufferInvariance`) follows the lines.  A line that a loading thread
was given is in the rest of its piece, in the batch it fills, or was put into the
ring, at one of these (`LinesApart`); there it is in one slot, or seen by a thread
of the process (`SlotsExact`).  That no line comes twice rests on the assigner:
it forgets a block when it hands it out, and lists the url again only after
turning down as many requests as there are threads.  A loading thread is turned
down once, so by then every process is at the end of its input (`Forgotten`).
`DataSeen` covers the reader of raw lines, which keeps a sample of its previous
batch in the place of a blank line: that sample was seen before.  `AtEnd` says
where a loading thread is when `eof_` is set, which bounds what a thread can miss.
The destructor, which takes no mutex, comes when all threads have ended
(`RingShape`).

**Model-checked only.**  Liveness, which is outside the prover's reach.
`EpochsInOrder` of `ClusterManager`, which counts the threads and iterations of an
epoch; of `AssertionsHold` the two conjuncts about the scheduler (`AlwaysAssigned`
depends on the tasks and the cluster, as `ClusterSequentialTravel` shows); and
`DataGivenOut` of `DataLoading` and the properties of `SVRG`, `LDA`, `KVStore` and
`ALS`, which count lines, gradients and topics over unbounded data.

## 5. Findings and observations

1. *Late empty messages* (`ssp_epochs`).  A push that misses a partition is sent
   to it empty and never answered.  PSWorker therefore returns while the message
   is under way; if the next epoch's Init from another thread overtakes it, the
   late push advances the clocks of the new epoch.  `ps.hpp:54` asks whether this
   can go wrong; it can, and `BoundedStaleness` of the new epoch goes with it.

Further disagreements between the code and what it says of itself have a
configuration of their own (`tlc -config <configuration>.cfg <module>`, with
`-continue` where one configuration shows several of them); the passing runs exclude
these cases, as said at the properties.

| Configuration | Module | What TLC shows |
|---|---|---|
| `ClusterSequentialTravel` | `MCClusterManager` | The sequential scheduler considers only the processes a task has visited least (`sequential_task_scheduler.cpp:76`); a two-thread task on three one-thread processes finds one in its second epoch, and the idle manager throws |
| `ClusterThreshold` | `MCClusterManager` | `init_timer` is commented out (`scheduler_trigger.cpp:31`), so with `count_threshold_ > 1` the last finished threads never lead to scheduling and `Submit` hangs, unless each instance has a multiple of so many threads |
| `SPMTCacheDump` | `MCSPMTWorker` | "if chunk is null, it needn't dumped" (`chunk_based_model.hpp:52`): chunks that a cache has evicted to its spill file are null, and their updates are lost in the dump |
| `SPMTSharedWord` | `MCSPMTWorker` | `is_cached_` is a `vector<bool>` (`chunk_based_mt_model.hpp:69`): two threads under different chunk locks write one word, and the flag of one of them is undone (`CachedFlagsRight`) |
| `PSUnsound` (`-continue`) | `MCPSWorkers` | `CountedOnce`: `Update_v2` adds to the cache and to the delta, and `Push`, called by `Clock_v2`, adds the delta to the cache again (`ps.hpp:597,627`) |
| the same | `MCPSWorkers` | `FreshReads`: The timestamp of a thread cache is replaced only when all keys are fetched together (`ps.hpp:659`); keys fetched earlier outlive the staleness |
| the same | `MCPSWorkers` | `WithinStaleness`: `PushBuffer::Flush` does not wait for its push (`chunk_based_ps_model.hpp:60`); a read misses updates that are further back than `kStaleness`, being under way |
| `SVRGChunk` | `MCSVRG` | `PSNoneChunkWorker::PushChunks` fills a buffer that the next pull flushes and the destructor drops (`ps.hpp:464,487`): the full gradient of the chunk program is lost |
| `LDARows` | `MCLDA` | With fewer words per pull than a batch has, words not in the pull are charged to the first row (`doc_sampler.cpp:48`) |
| `DataLastBatch` | `MCDataLoading` | `eof_` is set before the last batch is in the ring (`sample_reader.hpp:119`); a reader in between sees "no more data" and the batch is never read |
| `KVStoreUnsupported` (`-continue`) | `MCKVStore` | `SetUpBeforeUse`: Only process 0 submits, so a push can reach a process that has not created the table: the assertion at `kvmanager.hpp:183` |
| the same | `MCKVStore` | `AddsUp`: `"default_add_map"` makes a server that assigns (`kvstore.hpp:56`) |
| the same | `MCKVStore` | `LastFactors`: The factors of an iteration are pushed to a table that adds (`als.cpp:125,348`): from the third iteration on ALS computes with sums |

Noted while modelling: the class comment of SSPServer states
`staleness*num_workers*2-2` as the largest difference between reads of one
iteration, while for two workers at staleness 1 it is three; `Push` documents a
callback that `ZPush` never registers; a pull without keys leaves its callback
registered; `setup_scheduler_trigger` tests the wrong variable before it sets
the threshold.  `assert(++push_count_ == pull_count_)` in several PS workers
loses its increment when assertions are compiled out.  The priority scheduler
waits for ever when a task that needs all threads is alone with an angry one;
the auto-parallelism scheduler asserts enough threads for its maximum of ten, and
never ends a stage that is no multiple of ten iterations if no piece is slower
than the one before.  A
cache must be larger than what one thread prepares and small enough for
`dump_factor_`; under BSP a smaller one scans for ever.  The asynchronous buffer
may lose the wake-up of its destructor (`sample_reader.hpp:35`).  LDA threads
whose numbers of pulls differ by more than `staleness + 1` hang
(`lda_main.cpp:325`).  ALS divides by zero with one server, and with
`start_from_one` its last range ends one chunk beyond the table (`als.cpp:110`).

## 6. Not modelled

The Husky core (not in the tree), and crashes, which the code does not handle.
The numerical library (`lib/objectives.hpp`, `optimizers.hpp`, updaters), which
has no state shared between threads.  `IncreaseBestAmongSomeTriesPolicy`, the
second policy of the auto-parallelism scheduler.  The timer of
`SchedulerTrigger` and `kClusterManagerTimeOutSchedule`: received but, the timer
being disabled, never sent.  `chunk_based_frequency_model.hpp`, used by its unit
test only.  Use of one caching model both by keys and by chunks.  In `SVRG`, the
empty pushes of threads that aggregate (`svrg_helper.hpp:71-73`) are neither
answered nor waited for; one that is still under way when its instance ends is
the subject of `SSPEpochs` and is not carried over.  Programs that call one
worker in a loop of pulls and pushes (`examples/`, `exp/`, `bench/`), whose
coordination is that of the workers modelled here; several of them
(`exp/logistic_regression_svrg.cpp`, `exp/multi_tasks_*.cpp`,
`exp/parameter_tuning.cpp`, `exp/num_threads_tuning.cpp`, `bench/kvstore.cpp`,
`lib/app_config.hpp`) use interfaces that no longer exist.

## 7. Plan

*Proofs.*  `EpochBarrier` of `ClusterManager`, on top of `ModelsInv`: the threads
given to an instance are as many as the epoch asks for; `RequestsServed` of
`KVStore`.
