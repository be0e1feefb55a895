----------------------------- MODULE SPMTWorker -----------------------------
(***************************************************************************)
(* The workers that share one model inside a process: SPMTWorker,          *)
(* HogwildWorker and SingleWorker of ml/mlworker/, on the models of        *)
(* ChunkModel and the controllers of ConsistencyController, with           *)
(* SharedState (ml/shared/) as their barrier.                              *)
(*                                                                         *)
(* In every epoch each thread constructs its worker (the leader creates    *)
(* and loads the model), pulls and pushes MaxIter times, and destroys it   *)
(* (the leader dumps and deletes the model).  With direct model transfer   *)
(* the model goes from one epoch to the next through ModelTransferStore,   *)
(* the thread of ModelTransferManager and the new leader's mailbox.        *)
(***************************************************************************)
EXTENDS ConsistencyController, ChunkModel

CONSTANT Tables   \* the table_infos to try, each with the bounds of its task

ASSUME WorkersAssumption ==
  \A tab \in Tables :
    /\ tab.mode_type \in {"Single", "Hogwild", "SPMT"}
    /\ tab.consistency \in Protocols
    /\ tab.cache_strategy \in Caching \union {"None"}
    /\ tab.api \in {"keys", "chunks"}
    /\ tab.chunk \in BOOLEAN /\ tab.transfer \in BOOLEAN
    /\ tab.chunk => ~tab.transfer
    /\ {tab.cache_threshold_, tab.num_dumps} \subseteq Nat
    \* bounds: epochs, iterations of an epoch, chunks asked for at once
    /\ tab.epochs \in Nat \ {0}
    /\ tab.iters \in 1 .. MaxIter
    /\ tab.chunks \subseteq Chunks /\ tab.request \in Nat \ {0}

VARIABLES
  table,       \* table_info
  ctl,         \* the controller
  iter, epoch,
  sent,        \* the threads whose barrier message waits for the leader
  order,       \* kCmdTask waits for the ModelTransferManager's thread
  store,       \* ModelTransferStore's entry of the task
  mailbox,     \* the model on its way to the new leader
  unsaved      \* history: the chunks that were in the file when a model was dumped

vars == <<kind, api, limits, model, th, kv, applied, lost, unsaved, table, ctl, iter, epoch, sent,
          order, store, mailbox>>

NoParams == [c \in Chunks |-> None]
Leader == 0
Workers == IF table.mode_type = "Single" THEN {Leader} ELSE Threads
protocol == IF table.mode_type = "SPMT" THEN table.consistency ELSE "none"

\* The model the leader creates.
ModelOf(tab) ==
  CASE tab.mode_type = "Single" -> IF tab.chunk THEN "Chunk" ELSE "Integral"
    [] tab.mode_type = "Hogwild" -> IF tab.chunk THEN "MT" ELSE "Integral"
    [] OTHER -> IF tab.chunk /\ tab.cache_strategy # "None" THEN tab.cache_strategy ELSE "MTLock"

Init ==
  /\ table \in Tables
  /\ kind = ModelOf(table) /\ api = table.api
  /\ limits = [cache_threshold_ |-> table.cache_threshold_, num_dumps |-> table.num_dumps]
  /\ model = NewModel
  /\ th = [t \in Threads |-> NewLocals(IF t \in Workers THEN "construct" ELSE "done")]
  /\ kv = [c \in Chunks |-> 0]
  /\ applied = [c \in Chunks |-> 0] /\ lost = {} /\ unsaved = {}
  /\ ctl = NewController(Workers)
  /\ iter = [t \in Threads |-> 0]
  /\ epoch = 0
  /\ sent = {}
  /\ order = FALSE
  /\ store = NoParams
  /\ mailbox = NoParams

move(t, l) == th' = [th EXCEPT ![t].pc = l]
transfer == <<order, store, mailbox>>
run == <<kind, api, limits, table, epoch>>
history == <<applied, lost, unsaved>>

------------------------------------------------------------------------------
(* SharedState: the leader collects a message from every other thread,     *)
(* then answers them all.                                                  *)

\* Where a thread goes from a barrier, and from the work before it.
After(t, l) ==
  CASE l = "sync" -> IF t = Leader THEN "load" ELSE "loaded"
    [] l = "loaded" -> "idle"
    [] l = "finished" -> IF t = Leader THEN "dump" ELSE "dumped"
    [] l = "dumped" -> "leave"
    [] l = "leave" -> IF t = Leader THEN "delete" ELSE "done"
Barriers == {"sync", "loaded", "finished", "dumped", "leave"}

Send(t) ==
  /\ t # Leader /\ th[t].pc \in Barriers /\ t \notin sent
  /\ sent' = sent \union {t}
  /\ UNCHANGED <<run, model, th, kv, history, ctl, iter, transfer>>

\* num_threads_ - 1 messages are collected
CollectedAll == Cardinality(sent) = Cardinality(Workers) - 1

Barrier ==
  /\ th[Leader].pc \in Barriers /\ CollectedAll
  /\ sent' = {}
  /\ th' = [t \in Threads |->
       IF t \in sent \union {Leader} THEN [th[t] EXCEPT !.pc = After(t, @)] ELSE th[t]]
  /\ UNCHANGED <<run, model, kv, history, ctl, iter, transfer>>

------------------------------------------------------------------------------
(* Constructor and destructor.                                             *)

\* The leader creates the controller and the model; a SingleWorker has no
\* one to share them with, and a chunk model to load on demand only.
Construct(t) ==
  /\ At(t, "construct")
  /\ IF t = Leader
     THEN model' = NewModel /\ ctl' = NewController(Workers)
     ELSE UNCHANGED <<model, ctl>>
  /\ move(t, IF table.mode_type # "Single" THEN "sync"
             ELSE IF table.chunk THEN "idle" ELSE "load")
  /\ UNCHANGED <<run, kv, history, iter, sent, transfer>>

\* The hint of Load: a SingleWorker never says kKVStoreChunks.
LoadHint ==
  CASE table.transfer /\ epoch # 0 -> Transfer
    [] table.chunk /\ table.mode_type # "Single" -> Chunks_KV
    [] OTHER -> Integral_KV

Load(t) ==
  /\ At(t, "load")
  /\ LoadHint = Transfer => mailbox # NoParams
  /\ model' = LoadModel(LoadHint, mailbox)
  /\ mailbox' = IF LoadHint = Transfer THEN NoParams ELSE mailbox
  /\ move(t, IF table.mode_type = "Single" THEN "idle" ELSE "loaded")
  /\ UNCHANGED <<run, kv, history, ctl, iter, sent, order, store>>

Finish(t) ==
  /\ At(t, "idle") /\ iter[t] = table.iters
  /\ move(t, IF table.mode_type = "Single" THEN "dump" ELSE "finished")
  /\ UNCHANGED <<run, model, kv, history, ctl, iter, sent, transfer>>

\* The hint of Dump: the model goes to the next epoch, if there is one.
DumpHint ==
  CASE table.transfer /\ epoch < table.epochs - 1 -> Transfer
    [] table.chunk /\ table.mode_type # "Single" -> Chunks_KV
    [] OTHER -> Integral_KV

Dump(t) ==
  /\ At(t, "dump")
  /\ store' = IF DumpHint = Transfer THEN DumpToStore(store) ELSE store
  /\ kv' = IF DumpHint = Transfer THEN kv ELSE DumpToKV(DumpHint)
  /\ move(t, IF table.mode_type = "Single" THEN "done" ELSE "dumped")
  /\ unsaved' = unsaved \union {c \in Chunks : model.params_[c] = None /\ model.disk[c] # None}
  /\ UNCHANGED <<run, model, applied, lost, ctl, iter, sent, order, mailbox>>

Delete(t) ==
  /\ At(t, "delete")
  /\ model' = NewModel
  /\ move(t, "done")
  /\ UNCHANGED <<run, kv, history, ctl, iter, sent, transfer>>

------------------------------------------------------------------------------
(* Push and Pull.                                                          *)

\* A thread asks for the chunks of its next keys, which it will update too.
Request(t) ==
  /\ At(t, "idle") /\ iter[t] < table.iters
  /\ \E r \in SUBSET table.chunks :
       /\ r # {} /\ Cardinality(r) <= table.request
       /\ th' = [th EXCEPT ![t].req = r, ![t].pc = "before_pull"]
  /\ UNCHANGED <<run, model, kv, history, ctl, iter, sent, transfer>>

BeforePull(t) ==
  /\ At(t, "before_pull") /\ t \notin ctl.asleep
  /\ IF MayPull(protocol, ctl, t)
     THEN th' = [th EXCEPT ![t] = Prepare(t)] /\ UNCHANGED ctl
     ELSE ctl' = Sleep(ctl, t) /\ UNCHANGED th
  /\ UNCHANGED <<run, model, kv, history, iter, sent, transfer>>

Work(t) ==
  /\ ModelStep(t)
  /\ UNCHANGED <<run, kv, unsaved, ctl, iter, sent, transfer>>

Pulled(t) ==
  /\ At(t, "read") /\ th[t].todo = {}
  /\ ctl' = AfterPull(protocol, ctl)
  /\ move(t, "before_push")
  /\ UNCHANGED <<run, model, kv, history, iter, sent, transfer>>

BeforePush(t) ==
  /\ At(t, "before_push") /\ t \notin ctl.asleep
  /\ IF MayPush(protocol, ctl, t)
     THEN /\ th' = [th EXCEPT ![t].pc = "write", ![t].todo = th[t].req]
          /\ UNCHANGED ctl
     ELSE ctl' = Sleep(ctl, t) /\ UNCHANGED th
  /\ UNCHANGED <<run, model, kv, history, iter, sent, transfer>>

Pushed(t) ==
  /\ At(t, "write") /\ th[t].todo = {}
  /\ ctl' = AfterPush(protocol, ctl, t)
  /\ iter' = [iter EXCEPT ![t] = @ + 1]
  /\ th' = [th EXCEPT ![t] = NewLocals("idle")]
  /\ UNCHANGED <<run, model, kv, history, sent, transfer>>

------------------------------------------------------------------------------
(* Between epochs.                                                         *)

\* The cluster manager starts the next instance when every thread of the
\* last one is done and, with direct model transfer, has the process of the
\* last leader send the model.
NextEpoch ==
  /\ \A t \in Threads : At(t, "done")
  /\ epoch + 1 < table.epochs
  /\ epoch' = epoch + 1
  /\ th' = [t \in Threads |-> IF t \in Workers THEN NewLocals("construct") ELSE th[t]]
  /\ iter' = [t \in Threads |-> 0]
  /\ order' = table.transfer
  /\ UNCHANGED <<kind, api, limits, table, model, kv, history, ctl, sent, store, mailbox>>

\* ModelTransferManager::Main, kCmdTask: Pop asserts that the model is there.
SendModel ==
  /\ order
  /\ mailbox' = store
  /\ store' = NoParams
  /\ order' = FALSE
  /\ UNCHANGED <<run, model, th, kv, history, ctl, iter, sent>>

Done == /\ epoch + 1 = table.epochs /\ \A t \in Threads : At(t, "done")
Finished == Done /\ UNCHANGED vars

Step(t) ==
  \/ Send(t) \/ Construct(t) \/ Load(t) \/ Finish(t) \/ Dump(t) \/ Delete(t)
  \/ Request(t) \/ BeforePull(t) \/ Work(t) \/ Pulled(t) \/ BeforePush(t) \/ Pushed(t)

Next == (\E t \in Threads : Step(t)) \/ Barrier \/ NextEpoch \/ SendModel \/ Finished

Spec == Init /\ [][Next]_vars
\* Every thread runs until it blocks; zmq delivers.
FairSpec == Spec /\ WF_vars(Barrier) /\ WF_vars(NextEpoch) /\ WF_vars(SendModel)
                 /\ \A t \in Threads : WF_vars(Step(t))

------------------------------------------------------------------------------
(* Properties.                                                             *)

Training == {"before_pull", "prepare", "collect", "fetch", "mark", "unmark", "cache",
             "uncache", "check", "await", "lock", "scan", "flush", "read",
             "before_push", "write", "add"}

\* While the leader loads, dumps or deletes the model, no other thread of the
\* process can be using it, and nobody uses a model that is gone.
LeaderAlone ==
  \A t \in Threads : th[t].pc \in Training =>
    /\ th[Leader].pc \notin {"construct", "sync", "load", "dump", "delete", "done"}
    /\ t \notin sent

\* Where the updates of chunk c are.
Content(c) ==
  IF model.params_[c] # None THEN model.params_[c]
  ELSE IF model.disk[c] # None THEN model.disk[c]
  ELSE IF store[c] # None THEN store[c]
  ELSE IF mailbox[c] # None THEN mailbox[c] ELSE kv[c]

\* Whatever the interleaving of fetches, evictions and pushes, and from one
\* epoch to the next, no update to a chunk is lost, unless its flag was
\* undone in the shared word or the chunk was in the file at a dump: the loss
\* never spreads to another chunk.  (Hogwild loses updates by design.)
NoUpdateLost ==
  table.mode_type # "Hogwild" =>
    \A c \in Chunks \ (lost \union unsaved) : Content(c) = applied[c]

\* At the end the KV store holds every update made to a chunk.
DumpComplete == Done => table.mode_type = "Hogwild" \/ kv = applied

\* A chunk a thread has prepared stays in memory until the thread has pushed
\* it, whatever the cache replaces meanwhile, if its flag was not undone.
PreparedInMemory ==
  \A t \in Threads :
    \A c \in IF th[t].pc \in {"read", "before_push"} THEN th[t].req
             ELSE IF th[t].pc \in {"write", "add"} THEN th[t].todo ELSE {} :
      c \notin lost => model.params_[c] # None

\* A thread that waited for another to fetch a chunk finds it cached, and
\* once a lock is free the cached flag tells what is in memory.
FlagRight(c) ==
  /\ \A t \in Threads : At(t, "await") /\ c \in th[t].check /\ model.mtx_[c] = Free =>
                          model.is_cached_[c]
  /\ kind # "Integral" /\ model.mtx_[c] = Free =>
       (model.is_cached_[c] <=> model.params_[c] # None)

\* Every flag is right, as the assertion in PrepareChunks takes for granted.
CachedFlagsRight == \A c \in Chunks : FlagRight(c)

\* What is dumped at once makes room for what one thread prepares.
Roomy == Replacing => table.request <= table.num_dumps

\* num_cached_ never exceeds the threshold, as Prepare asserts, where a dump
\* makes room for a request, and it counts the chunks in memory while no flag
\* has been undone.
CacheBounded ==
  Replacing =>
    LET inMemory == {c \in Chunks : model.params_[c] # None} IN
    /\ Roomy => model.num_cached_ <= limits.cache_threshold_
    /\ lost = {} /\ (\A c \in Chunks : model.mtx_[c] = Free) =>
         model.num_cached_ = Cardinality(inMemory)

\* The cache of a process: within its bound, with every chunk somebody is
\* working on, and every flag right but those undone in the shared word.
CacheSound ==
  PreparedInMemory /\ (\A c \in Chunks \ lost : FlagRight(c)) /\ CacheBounded

\* BSP: while a thread pulls, every thread has made the same number of
\* pushes and none is pushing.  SSP: no thread gets two iterations ahead.
Paced ==
  \A t, u \in Workers :
    /\ protocol = "BSP" /\ th[t].pc \in Training \ {"before_pull", "before_push", "write"}
         => iter[u] = iter[t] /\ ~At(u, "write")
    /\ protocol = "SSP" /\ th[t].pc \in Training \ {"before_pull"}
         => iter[t] <= iter[u] + staleness_

\* The threads of a process wait for one another where they have to.
InStep == LeaderAlone /\ Paced

\* Training ends: no wake-up is lost, no cycle of locks, no endless scan.  An
\* undone flag may keep it from ending: num_cached_ then counts a chunk that
\* replace_lock never finds, or an assertion fails.
TrainingEnds == <>(Done \/ lost # {})

------------------------------------------------------------------------------
(* The inductive invariant behind InStep.  The threads of an epoch pass its *)
(* barriers together, so they are always in the same round; while they      *)
(* iterate, the controller's counters agree with where the threads are.     *)

Looping == Training \cup {"idle", "finished"}
Pulling == Training \ {"before_pull", "before_push", "write", "add"}
Pushing == {"write", "add"}

Round(l) == CASE l \in {"construct", "sync"} -> 0
              [] l \in {"load", "loaded"} -> 1
              [] l \in Looping -> 2
              [] l \in {"dump", "dumped"} -> 3
              [] l = "leave" -> 4
              [] OTHER -> 5
Labels == Looping \cup {"construct", "sync", "load", "loaded", "dump", "dumped", "leave",
                        "delete", "done"}

Controllers ==
  [num_local_workers_ : Nat,
   bsp : [push_count_ : Nat, pull_count_ : Nat, reply_phase_ : BOOLEAN],
   ssp : [worker_progress_ : [Threads -> Nat], clock_count_ : [0 .. MaxIter -> Nat],
          min_clock_ : Nat],
   asleep : SUBSET Threads]

TypeOK ==
  /\ table \in Tables /\ kind = ModelOf(table)
  /\ DOMAIN th = Threads
  /\ \A t \in Threads : /\ DOMAIN th[t] = DOMAIN NewLocals("done")
                        /\ th[t].pc \in Labels
  /\ iter \in [Threads -> Nat]
  /\ sent \in SUBSET (Threads \ {Leader})
  /\ ctl \in Controllers

\* A thread that has sent its message stays at its barrier; a SingleWorker
\* has no barrier, and the other threads nothing to do.
Together ==
  /\ \A t, u \in Workers : Round(th[t].pc) = Round(th[u].pc)
  /\ \A t \in Threads \ Workers : At(t, "done")
  /\ \A t \in sent : th[t].pc \in Barriers
  /\ table.mode_type = "Single" => th[Leader].pc \notin Barriers

\* A thread begins an epoch at its first iteration, with a new controller.
Fresh ==
  /\ \A t \in Workers : Round(th[t].pc) \in {0, 1} => iter[t] = 0
  /\ th[Leader].pc \in {"sync", "load", "loaded"} => ctl = NewController(Workers)
  /\ \A t \in Threads : th[t].pc \in Training => iter[t] < table.iters
  /\ table.mode_type = "SPMT" => \A t \in Threads : ~At(t, "add")

\* BSP: the threads that have pulled are counted in one phase, those that
\* have pushed in the other; these are one iteration ahead.
HavePulled == {t \in Threads : At(t, "before_push")}
HavePushed == {t \in Threads : th[t].pc \in {"idle", "before_pull", "finished"}}

BSPCounts ==
  protocol = "BSP" /\ th[Leader].pc \in Looping =>
    /\ ctl.num_local_workers_ = Cardinality(Threads)
    /\ ctl.bsp.reply_phase_ =>
         /\ ctl.bsp.push_count_ = 0 /\ ctl.bsp.pull_count_ = Cardinality(HavePulled)
         /\ \A t \in Threads : ~At(t, "write")
         /\ \A t, u \in Threads : iter[t] = iter[u]
    /\ ~ctl.bsp.reply_phase_ =>
         /\ ctl.bsp.pull_count_ = 0 /\ ctl.bsp.push_count_ = Cardinality(HavePushed)
         /\ \A t \in Threads : th[t].pc \notin Pulling
         /\ \A t, u \in Threads :
              (t \in HavePushed <=> u \in HavePushed) => iter[t] = iter[u]
         /\ \A t \in HavePushed, u \in Threads \ HavePushed : iter[t] = iter[u] + 1

\* SSP: min_clock_ is behind every thread, and no thread at work is more than
\* the staleness ahead of it.
SSPClocks ==
  protocol = "SSP" /\ th[Leader].pc \in Looping =>
    /\ ctl.num_local_workers_ = Cardinality(Threads)
    /\ ctl.ssp.worker_progress_ = iter
    /\ \A k \in 0 .. MaxIter :
         ctl.ssp.clock_count_[k] = Cardinality({t \in Threads : iter[t] > k})
    /\ \A t \in Threads : ctl.ssp.min_clock_ <= iter[t]
    /\ \A t \in Threads : th[t].pc \in Training \ {"before_pull"} =>
                            iter[t] <= ctl.ssp.min_clock_ + staleness_

Inv == TypeOK /\ Together /\ Fresh /\ BSPCounts /\ SSPClocks
------------------------------------------------------------------------------
(* The inductive invariant behind CacheSound and NoUpdateLost.              *)

\* No flag has been undone.
Intact == lost = {}

Amount == Nat \union {None}
Models == [params_ : [Chunks -> Amount], is_cached_ : [Chunks -> BOOLEAN],
           mtx_ : [Chunks -> Threads \union {Free}], global_mtx_ : Threads \union {Free},
           prepare_count_ : [Chunks -> Int], num_cached_ : Int,
           rank_ : [Chunks -> Int], access_count_ : Int, disk : [Chunks -> Amount]]

Filling == {"collect", "mark", "cache", "check", "await"}
Evicting == {"scan", "flush", "unmark", "uncache", "fetch"}

LocalState == [pc : Labels, req : SUBSET Chunks, todo : SUBSET Chunks, fetch : SUBSET Chunks,
               check : SUBSET Chunks, pool : SUBSET Chunks, word : SUBSET Chunks, val : Amount]

\* Where a thread may be, and what it has in its hands there.
Placed(l) ==
  /\ l.pc \in {"lock"} \union Evicting => Replacing
  /\ l.pc \in {"collect", "await"} => kind \in {"MT", "MTLock"} \union Caching /\ ~Replacing
  /\ l.pc \in {"mark", "cache", "check"} => kind \in {"MT", "MTLock"} \union Caching
  /\ l.pc = "prepare" => kind = "Chunk"
  /\ l.pc = "add" => kind \in {"MT", "Integral"}
  /\ l.pc \notin Filling \union Evicting => l.fetch = {} /\ l.check = {} /\ l.pool = {}
  /\ Replacing => l.check = {}
  /\ l.pc \in {"mark", "cache", "unmark", "uncache", "add"} => l.todo # {}
  /\ l.pc = "await" => l.check # {}
  /\ l.pc = "flush" => l.pool # {}
  /\ l.pc \in Evicting => l.fetch \subseteq l.req
  /\ l.pc \in Training => Cardinality(l.req) <= table.request

ModelTyped ==
  /\ table \in Tables /\ api = table.api
  /\ lost \subseteq Chunks /\ unsaved \subseteq Chunks
  /\ limits = [cache_threshold_ |-> table.cache_threshold_, num_dumps |-> table.num_dumps]
  /\ model \in Models
  /\ kv \in [Chunks -> Nat] /\ applied \in [Chunks -> Nat]
  /\ store \in [Chunks -> Amount] /\ mailbox \in [Chunks -> Amount]
  /\ order \in BOOLEAN /\ epoch \in Nat
  /\ th \in [Threads -> LocalState] /\ \A t \in Threads : Placed(th[t])

\* The chunks whose lock a thread holds: those it is to fetch, those it has
\* fetched, those it is to replace and those it has written to the file.
Missing(l) == IF l.pc \in {"collect"} \union Evicting THEN l.fetch ELSE {}
Brought(l) == IF l.pc \in {"mark", "cache"} THEN l.todo ELSE {}
Chosen(l) == IF l.pc \in {"scan", "flush"} THEN l.pool ELSE {}
Evicted(l) == IF l.pc \in {"unmark", "uncache"} THEN l.todo ELSE {}
Held(l) == Missing(l) \union Brought(l) \union Chosen(l) \union Evicted(l)

\* The flag and the content of a chunk agree, except while it is locked, and
\* then they disagree in the way its holder has yet to put right.
Fits(m, l, c) ==
  /\ m.is_cached_[c] <=> c \in Chosen(l) \union Evicted(l)
  /\ m.is_cached_[c] <=> c \notin Missing(l) \union Brought(l)
  /\ m.params_[c] # None <=> c \in Brought(l) \union Chosen(l)
LocksKept ==
  \A c \in Chunks :
    /\ \A t \in Threads : /\ model.mtx_[c] = t <=> c \in Held(th[t])
                          /\ model.mtx_[c] = t => Fits(model, th[t], c)
    /\ kind # "Integral" /\ model.mtx_[c] = Free =>
         (model.is_cached_[c] <=> model.params_[c] # None)

\* What a thread has asked for and passed over is cached and unlocked, in its
\* hands, or, without a cache, being fetched by another thread.
Ready(c) == model.is_cached_[c] /\ model.mtx_[c] = Free
Passed(l) == CASE l.pc = "collect" -> l.req \ l.todo
               [] l.pc \in {"mark", "cache", "check", "await", "read", "before_push"}
                             \union Evicting -> l.req
               [] l.pc \in {"write", "add"} -> l.todo
               [] OTHER -> {}
Wanted ==
  kind # "Integral" => \A t \in Threads : \A c \in Passed(th[t]) :
    \/ Ready(c)
    \/ c \in Missing(th[t]) \union Brought(th[t])
    \/ th[t].pc \in Filling /\ c \in th[t].check /\ ~Replacing

Checked ==
  \A t \in Threads : \A c \in th[t].check :
    ~Replacing => model.is_cached_[c] \/ model.mtx_[c] # Free

\* prepare_count_ counts the threads that need the chunk.
Pinned ==
  Replacing => \A c \in Chunks :
    model.prepare_count_[c] = Cardinality({t \in Threads : c \in Passed(th[t])})

\* num_cached_ counts the chunks to come and not those to go.
Counted(c) == model.is_cached_[c] <=> (model.mtx_[c] = Free \/ At(model.mtx_[c], "scan"))
NumCached ==
  Replacing =>
    /\ model.num_cached_ = Cardinality({c \in Chunks : Counted(c)})
    /\ Roomy => model.num_cached_ <= limits.cache_threshold_

\* Only the leader loads, dumps and deletes the model.
Leading == \A t \in Threads : th[t].pc \in {"load", "dump", "delete"} => t = Leader

\* A model that is not fetched chunk by chunk is all there once it is loaded.
Loaded == th[Leader].pc \in Looping \union {"loaded", "dump", "dumped", "leave"}
Whole(m) == \A c \in Chunks : m[c] # None
WholeLoaded == ~table.chunk /\ Loaded => Whole(model.params_)

\* With direct transfer the model is in one place between two epochs.
Start == {"construct", "sync", "load"}
End == {"dumped", "leave", "delete", "done"}
Idle == ~order /\ store = NoParams /\ mailbox = NoParams
Handed ==
  IF table.transfer /\ th[Leader].pc \in Start /\ epoch > 0
  THEN \/ order /\ Whole(store) /\ mailbox = NoParams
       \/ ~order /\ store = NoParams /\ Whole(mailbox)
  ELSE IF table.transfer /\ th[Leader].pc \in End /\ epoch < table.epochs - 1
  THEN ~order /\ Whole(store) /\ mailbox = NoParams
  ELSE Idle

FlagsInv == LocksKept /\ Wanted /\ Checked /\ Pinned /\ NumCached
CacheInv ==
  ModelTyped /\ Leading /\ WholeLoaded /\ Handed /\ (Intact => FlagsInv)

\* The updates outside the model are all there are before it is loaded and
\* after it has been dumped.
Outside(c) == IF store[c] # None THEN store[c]
              ELSE IF mailbox[c] # None THEN mailbox[c] ELSE kv[c]

KeptInv ==
  Intact /\ table.mode_type # "Hogwild" =>
    /\ \A c \in Chunks \ unsaved : Content(c) = applied[c]
    /\ th[Leader].pc \in Start \union End =>
         \A c \in Chunks \ unsaved : Outside(c) = applied[c]
    /\ ~Replacing => \A c \in Chunks : model.disk[c] = None
    /\ \A t \in Threads : At(t, "add") => th[t].val = model.params_[Min(th[t].todo)]
    /\ th[Leader].pc \in {"sync", "load"} => model = NewModel
=============================================================================
