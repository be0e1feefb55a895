------------------------------ MODULE PSWorkers ------------------------------
(***************************************************************************)
(* The parameter-server workers of ml/mlworker/ps.hpp and the caches they  *)
(* put between an iteration and the server, ml/model/                      *)
(* chunk_based_ps_model.hpp:                                               *)
(*                                                                         *)
(*                 thread cache            process cache                   *)
(*   PSWorker      none                    none                            *)
(*   PSMapNone     a map, one timestamp    none                            *)
(*   PSChunkNone   chunks with clocks      none                            *)
(*   PSNoneChunk   none                    chunks with clocks, push buffer *)
(*   PSMapChunk    a map, one timestamp    chunks with clocks              *)
(*   PSChunkChunk  chunks with clocks      chunks with clocks              *)
(*   PSBsp         none                    one union of keys per iteration *)
(*                                                                         *)
(* The server is the stale-synchronous one: it counts the pushes of every  *)
(* worker, answers a pull once min_clock_ has caught up with the puller,   *)
(* labels the answer with min_clock_, and holds back a push that is too    *)
(* far ahead (see SSPServer; for PSBsp it is BSPServer, which shows every  *)
(* puller the pushes of the iterations before its own).  A push is a       *)
(* message: it arrives some time after it is sent, behind the earlier      *)
(* messages of its sender, and only some classes wait for it.  The value   *)
(* of a chunk is the set of pushes added to it, <<worker, number>>.        *)
(* The keys of one chunk are pulled and pushed together.  A table is used  *)
(* through Push and Pull (api keys), PushChunks and PullChunks (chunks) or *)
(* Prepare_v2, Update_v2 and Clock_v2 (v2).                                *)
(***************************************************************************)
EXTENDS Integers, FiniteSets, FiniteSetsExt, Sequences

CONSTANTS
  Workers,    \* the worker threads, naturals, in one process; 0 is the leader
  Chunks,     \* chunk ids, naturals
  Tables      \* the worker types and stalenesses to try; iters bounds the
              \* iterations of a worker, request is what it may ask for

Types == {"PSWorker", "PSMapNone", "PSChunkNone", "PSNoneChunk", "PSMapChunk",
          "PSChunkChunk", "PSBsp"}
ASSUME PSAssumption ==
  /\ 0 \in Workers /\ Workers \subseteq Nat /\ IsFiniteSet(Workers)
  /\ Chunks \subseteq Nat /\ IsFiniteSet(Chunks)
  /\ Tables \subseteq [worker_type : Types, api : {"keys", "chunks", "v2"}, staleness_ : Nat, iters : Nat,
                      request : SUBSET ((SUBSET Chunks) \ {{}})]

VARIABLES
  table,      \* table_info
  clock,      \* server: worker_progress_, the pushes of a worker that arrived
  sent,       \* how many pushes a worker has sent
  messages,   \* the pushes sent, with their number among those of the sender
  ws,         \* the workers
  cache,      \* the process cache
  bsp,        \* PSBspModel
  pushed      \* history: every push made to a chunk

vars == <<table, clock, sent, messages, ws, cache, bsp, pushed>>

None == {<<-1, -1>>}        \* the value of a chunk that is not in a cache
is(types) == table.worker_type \in types
s == IF is({"PSBsp"}) THEN 0 ELSE table.staleness_
Nothing == [c \in Chunks |-> None]

\* A value is a sum: adding a push to one that has it counts it twice.
Plus(v, q) == IF q \in v THEN v \union {<<q[1], q[2], "twice">>} ELSE v \union {q}

\* PSNoneChunkWorker::PushChunks goes through the push buffer, Push does not;
\* PullChunksWithMinClock fetches through fetch_mgr_, Prepare directly.
Buffered == is({"PSNoneChunk"}) /\ table.api = "chunks"
Managed == Buffered \/ is({"PSChunkChunk"})

\* Pull waits for the last push, unless it is PSNoneChunk's; Prepare_v2 does
\* so only where it is a Pull.
WaitsForPush == /\ ~is({"PSNoneChunk"})
                /\ table.api = "v2" => is({"PSWorker", "PSMapNone", "PSBsp"})

------------------------------------------------------------------------------
(* The server.                                                             *)

min_clock == Min({clock[w] : w \in Workers})

\* A push that has arrived is added to the store unless it is held back.
Applied(q) == q.at < clock[q.from] /\ q.at - s <= min_clock

\* The pushes of w that are answered, those that hold something, have been.
Acked(w) == \A c \in Chunks : \A q \in messages[c] : q.from = w => Applied(q)

\* A pull of w arrives behind its pushes.
Answers(w) == clock[w] = sent[w] /\ clock[w] - s <= min_clock

\* What w reads of chunk c; under BSP only what belongs to earlier iterations.
Visible(w, c) ==
  {q.id : q \in {q \in messages[c] : Applied(q) /\ (is({"PSBsp"}) => q.at < clock[w])}}

\* w sends a push with the given contents for each chunk.
Send(w, contents) ==
  /\ messages' = [c \in Chunks |-> messages[c] \union
                    {[id |-> q, from |-> w, at |-> sent[w]] : q \in contents[c]}]
  /\ sent' = [sent EXCEPT ![w] = @ + 1]
  /\ UNCHANGED clock

\* The next push of w is received.
Arrive(w) ==
  /\ clock[w] < sent[w]
  /\ clock' = [clock EXCEPT ![w] = @ + 1]
  /\ UNCHANGED <<table, sent, messages, ws, cache, bsp, pushed>>

------------------------------------------------------------------------------
(* Init.                                                                   *)

NoAnswer == [clock |-> 0, vals |-> Nothing]
NewWorker == [pc |-> "idle", updated |-> FALSE, pull_count_ |-> 0, push_count_ |-> 0, keys |-> {},
              need |-> {},      \* what the thread cache has to get
              fetch |-> {}, wait |-> {}, todo |-> {},
              answer |-> NoAnswer,
              vals |-> Nothing, label |-> 0,
              cached |-> Nothing, chunk_clocks_ |-> [c \in Chunks |-> -1],
              cache_ts_ |-> 0]

NewCache == [params_ |-> Nothing, chunk_clocks_ |-> [c \in Chunks |-> -1],
             fetch_mgr_ |-> [c \in Chunks |-> <<>>], asleep |-> {},
             buffer |-> [c \in Chunks |-> {}]]

NewBsp == [params_ |-> [c \in Chunks |-> {}], keys |-> {}, vals |-> Nothing,
           push_num_ |-> 0, push_num2_ |-> 0, pull_num_ |-> 0, pull_num2_ |-> 0]

Init ==
  /\ table \in Tables
  /\ clock = [w \in Workers |-> 0]
  /\ sent = [w \in Workers |-> 0]
  /\ messages = [c \in Chunks |-> {}]
  /\ ws = [w \in Workers |-> NewWorker]
  /\ cache = NewCache
  /\ bsp = NewBsp
  /\ pushed = [c \in Chunks |-> {}]

At(w, l) == ws[w].pc = l
server == <<clock, sent, messages>>

------------------------------------------------------------------------------
(* Pull: what the thread cache lacks.  r is the record of a worker.       *)

Missing(r) == {c \in r.keys : r.cached[c] = None}

\* PSMapNoneWorker::Pull and PSMapChunkWorker::Prepare: the map as a whole is
\* too old, or keys are missing from it.
TooOldOneLater(r) == r.pull_count_ - r.cache_ts_ > s + 1
TooOld(r) == r.pull_count_ - r.cache_ts_ > s

MapNoneNeeds(r) == IF TooOld(r) \/ r.cached = Nothing THEN r.keys ELSE Missing(r)
MapChunkNeeds(r) == IF TooOld(r) THEN r.keys ELSE Missing(r)

\* ChunkBasedModelWithClocks::PrepareChunks; clock_ counts its pushes.
ChunkNoneNeeds(r) ==
  {c \in r.keys : r.cached[c] = None \/ r.chunk_clocks_[c] < r.push_count_ - s}

\* PSChunkChunkWorker::PrepareChunks
min_clock_of(r) == Max({0, r.pull_count_ - s - 1})
ChunkChunkNeeds(r) == {c \in r.keys : r.chunk_clocks_[c] < min_clock_of(r)}

\* The clock the process cache has to have.
Required(r) == IF is({"PSChunkChunk"}) THEN min_clock_of(r)
               ELSE Max({0, r.pull_count_ - s})

\* PushBuffer::Flush: what all threads have put there is sent as a push of w,
\* which does not wait for it.
Flush(w) ==
  /\ Send(w, cache.buffer)
  /\ cache' = [cache EXCEPT !.buffer = [c \in Chunks |-> {}]]

\* The pull returns: its keys are in the thread cache.
Returned(r) == [r EXCEPT !.pc = "push", !.need = {}, !.fetch = {}, !.todo = {},
                  !.answer = NoAnswer, !.vals = Nothing, !.label = 0]

\* What Pull, PullChunks and Prepare_v2 of each class do before they talk to
\* anyone: they return at once if the thread cache lacks nothing, else they ask
\* the server, the process cache or the other threads of PSBspModel.
Ask(r, need, l) == IF need = {} THEN Returned(r)
                   ELSE [r EXCEPT !.need = need, !.fetch = need, !.pc = l]

PSWorkerPull(r) == Ask(r, r.keys, "fetch")
BspPull(r) == Ask(r, r.keys, "register")
MapNonePull(r) == Ask(r, MapNoneNeeds(r), "fetch")
ChunkNonePull(r) == Ask(r, ChunkNoneNeeds(r), "fetch")
NoneChunkPull(r) == Ask(r, r.keys, "process")
\* PSMapChunk forgets a map that is too old.
MapChunkPull(r) == Ask([r EXCEPT !.cached = IF TooOld(r) THEN Nothing ELSE @],
                       MapChunkNeeds(r), "process")
ChunkChunkPull(r) == Ask(r, ChunkChunkNeeds(r), "process")

Prepared(r) == CASE is({"PSWorker"}) -> PSWorkerPull(r)
                 [] is({"PSBsp"}) -> BspPull(r)
                 [] is({"PSMapNone"}) -> MapNonePull(r)
                 [] is({"PSChunkNone"}) -> ChunkNonePull(r)
                 [] is({"PSNoneChunk"}) -> NoneChunkPull(r)
                 [] is({"PSMapChunk"}) -> MapChunkPull(r)
                 [] is({"PSChunkChunk"}) -> ChunkChunkPull(r)

\* Pull, PullChunks, Prepare_v2: wait for the last push, then start.
Pull(w) ==
  /\ At(w, "idle") /\ ws[w].pull_count_ < table.iters
  /\ WaitsForPush => Acked(w)
  /\ \E keys \in table.request :
       ws' = [ws EXCEPT ![w] = Prepared([ws[w] EXCEPT !.keys = keys, !.pull_count_ = @ + 1])]
  /\ IF Buffered THEN Flush(w) ELSE UNCHANGED <<server, cache>>
  /\ UNCHANGED <<table, bsp, pushed>>

------------------------------------------------------------------------------
(* The process cache.                                                      *)

\* ChunkBasedPSModel::Prepare and PullChunksWithMinClock: which chunks are
\* too stale; the former fetches them at once.
Process(w) ==
  /\ At(w, "process")
  /\ LET stale == {c \in ws[w].need : cache.chunk_clocks_[c] < Required(ws[w])} IN
     ws' = [ws EXCEPT ![w].fetch = stale, ![w].wait = {}, ![w].todo = ws[w].need,
              ![w].pc = IF stale = {} THEN "copy"
                       ELSE IF Managed THEN "manage" ELSE "fetch"]
  /\ UNCHANGED <<table, server, cache, bsp, pushed>>

\* fetch_mgr_: for each chunk the clocks that are wanted, in ascending order,
\* the first of them being fetched (1) or not (0).
InsertClock(list, m) ==
  IF \E i \in DOMAIN list : list[i][1] = m THEN list
  ELSE SelectSeq(list, LAMBDA e : e[1] < m) \o <<<<m, 0>>>>
         \o SelectSeq(list, LAMBDA e : e[1] > m)

Earliest(c) == Head(cache.fetch_mgr_[c])
Mine(c, m) == \/ cache.fetch_mgr_[c] = <<>> \/ m < Earliest(c)[1]
              \/ Earliest(c) = <<m, 0>>
ClaimClock(c, m) ==
  IF cache.fetch_mgr_[c] # <<>> /\ Earliest(c)[1] = m
  THEN [cache.fetch_mgr_[c] EXCEPT ![1] = <<m, 1>>]
  ELSE <<<<m, 1>>>> \o cache.fetch_mgr_[c]

\* fetch_mgr_fetch_chunk, 1: claim the chunks nobody is fetching for this
\* clock or an earlier one; with nothing to claim, sleep until a notify_all.
Manage(w) ==
  /\ At(w, "manage") /\ w \notin cache.asleep
  /\ LET m == Required(ws[w])
         stale == {c \in ws[w].fetch : cache.chunk_clocks_[c] < m}
         real == {c \in stale : Mine(c, m)}
         wait == stale \ real IN
     /\ cache' = [cache EXCEPT
          !.fetch_mgr_ = [c \in Chunks |->
             CASE c \in real -> ClaimClock(c, m)
               [] c \in wait -> InsertClock(@[c], m)
               [] OTHER -> @[c]],
          !.asleep = IF real = {} /\ wait # {} THEN @ \union {w} ELSE @]
     /\ ws' = [ws EXCEPT ![w].fetch = IF real # {} THEN real ELSE wait,
                         ![w].wait = wait,
                         ![w].pc = IF real # {} THEN "fetch"
                                  ELSE IF wait # {} THEN "manage" ELSE "copy"]
  /\ UNCHANGED <<table, server, bsp, pushed>>

------------------------------------------------------------------------------
(* The thread cache takes what has been brought.                           *)

\* The map gets a new timestamp when nothing in it was used.
KeepMap(r, vals, ts, clears) ==
  LET all == r.need = r.keys IN
  [r EXCEPT
     !.cached = [c \in Chunks |-> IF c \in r.need THEN vals[c]
                                  ELSE IF all /\ clears THEN None ELSE @[c]],
     !.cache_ts_ = IF all THEN ts ELSE @]

\* PSMapNoneWorker::Pull empties its map and stamps it with its own clock,
KeepMapNone(r) == KeepMap(r, r.answer.vals, r.pull_count_, TRUE)

\* PSMapChunkWorker::Prepare with the oldest clock of the chunks it copied.
KeepMapChunk(r) == KeepMap(r, r.vals, r.label, FALSE)

KeepChunks(r, vals) ==
  [r EXCEPT !.cached = [c \in Chunks |-> IF c \in r.need THEN vals[c] ELSE @[c]]]

\* ChunkBasedModelWithClocks::fetch_chunk
KeepChunkNone(r) ==
  [KeepChunks(r, r.answer.vals) EXCEPT
     !.chunk_clocks_ = [c \in Chunks |-> IF c \in r.need THEN r.answer.clock ELSE @[c]]]

\* PSWorker and PSNoneChunk return the values and keep nothing.
Keep(r) == CASE is({"PSMapNone"}) -> KeepMapNone(r)
             [] is({"PSMapChunk"}) -> KeepMapChunk(r)
             [] is({"PSChunkNone"}) -> KeepChunkNone(r)
             [] is({"PSWorker"}) -> KeepChunks(r, r.answer.vals)
             [] OTHER -> KeepChunks(r, r.vals)

\* fetch_chunk: the server answers when it may.
Fetch(w) ==
  /\ At(w, "fetch") /\ Answers(w)
  /\ LET r == [ws[w] EXCEPT !.pc = "install", !.todo = ws[w].fetch,
                 !.answer = [clock |-> min_clock,
                             vals |-> [c \in Chunks |-> IF c \in ws[w].fetch
                                                        THEN Visible(w, c) ELSE None]]] IN
     ws' = [ws EXCEPT ![w] = IF is({"PSWorker", "PSMapNone", "PSChunkNone"})
                             THEN Returned(Keep(r)) ELSE r]
  /\ UNCHANGED <<table, server, cache, bsp, pushed>>

\* The process cache takes each chunk that is newer than its own.
Newer(w, c) == cache.chunk_clocks_[c] < ws[w].answer.clock

OwnClock(w, c) == IF Newer(w, c) THEN ws[w].pull_count_ ELSE cache.chunk_clocks_[c]
NewClock(w, c) == IF Newer(w, c) THEN ws[w].answer.clock ELSE cache.chunk_clocks_[c]

InstallProcess(w) ==
  /\ At(w, "install")
  /\ LET c == Min(ws[w].todo)
         rest == ws[w].todo \ {c}
         next == IF rest # {} THEN "install"
                 ELSE IF Managed THEN "release" ELSE "copy" IN
     /\ cache' = [cache EXCEPT
          !.params_[c] = IF Newer(w, c) THEN ws[w].answer.vals[c] ELSE @,
          !.chunk_clocks_[c] = NewClock(w, c)]
     /\ ws' = [ws EXCEPT ![w].pc = next,
                 ![w].todo = IF next = "copy" THEN ws[w].need ELSE rest]
  /\ UNCHANGED <<table, server, bsp, pushed>>

NoneWoken == cache.asleep
StillAsleep == {}

\* fetch_mgr_fetch_chunk, 3 and 4: what was fetched is off the lists, the
\* sleepers are woken, and what others were fetching is looked at again.
Release(w) ==
  /\ At(w, "release")
  /\ cache' = [cache EXCEPT !.asleep = StillAsleep,
       !.fetch_mgr_ = [c \in Chunks |->
          IF c \in ws[w].fetch
          THEN SelectSeq(@[c], LAMBDA e : e[1] > ws[w].answer.clock) ELSE @[c]]]
  /\ ws' = [ws EXCEPT ![w].fetch = ws[w].wait, ![w].wait = {}, ![w].todo = ws[w].need,
              ![w].pc = IF ws[w].wait = {} THEN "copy" ELSE "manage"]
  /\ UNCHANGED <<table, server, bsp, pushed>>

\* PullWithMinClock and PullChunksWithMinClock copy one chunk at a time; the
\* former returns the oldest clock it met.
CopyChunk(w) ==
  /\ At(w, "copy")
  /\ LET c == Min(ws[w].todo)
         rest == ws[w].todo \ {c}
         label == cache.chunk_clocks_[c]
         r == [ws[w] EXCEPT !.todo = rest,
                 !.vals[c] = cache.params_[c],
                 !.label = IF ws[w].todo = ws[w].need THEN label ELSE Min({@, label}),
                 !.chunk_clocks_[c] = IF is({"PSChunkChunk"}) THEN label ELSE @] IN
     ws' = [ws EXCEPT ![w] = IF rest = {} THEN Returned(Keep(r)) ELSE r]
  /\ UNCHANGED <<table, server, cache, bsp, pushed>>

------------------------------------------------------------------------------
(* Push.                                                                   *)

Update(w) == [c \in Chunks |-> IF c \in ws[w].keys THEN {<<w, ws[w].push_count_>>} ELSE {}]
Made(w) == pushed' = [c \in Chunks |-> pushed[c] \union Update(w)[c]]

\* Adding the update u to what the thread has cached.
Added(r, u) ==
  [r EXCEPT !.cached = [c \in Chunks |-> IF c \in r.keys THEN Plus(@[c], u) ELSE @[c]]]

\* Push and PushChunks of each class once the update is sent: PSWorker and
\* PSNoneChunk have no thread cache, the others aggregate.
PSWorkerPush(r, u) == [r EXCEPT !.cached = Nothing]
MapNonePush(r, u) == Added(r, u)
ChunkNonePush(r, u) == Added(r, u)
NoneChunkPush(r, u) == [r EXCEPT !.cached = Nothing]
MapChunkPush(r, u) == Added(r, u)
ChunkChunkPush(r, u) == Added(r, u)

Aggregate(r, u) == CASE is({"PSWorker"}) -> PSWorkerPush(r, u)
                     [] is({"PSMapNone"}) -> MapNonePush(r, u)
                     [] is({"PSChunkNone"}) -> ChunkNonePush(r, u)
                     [] is({"PSNoneChunk"}) -> NoneChunkPush(r, u)
                     [] is({"PSMapChunk"}) -> MapChunkPush(r, u)
                     [] is({"PSChunkChunk"}) -> ChunkChunkPush(r, u)

\* Update_v2 of the workers with a chunk cache, or a map over one, writes to
\* the cache; of the others, to a copy and to delta_.
PSWorkerUpdate(r, u) == r
BspUpdate(r, u) == r
MapNoneUpdateCache(r, u) == Added(r, u)
MapNoneUpdate(r, u) == r
NoneChunkUpdate(r, u) == r
ChunkNoneUpdate(r, u) == Added(r, u)
MapChunkUpdate(r, u) == Added(r, u)
ChunkChunkUpdate(r, u) == Added(r, u)

Updated(r, u) == CASE is({"PSWorker"}) -> PSWorkerUpdate(r, u)
                   [] is({"PSBsp"}) -> BspUpdate(r, u)
                   [] is({"PSMapNone"}) -> MapNoneUpdate(r, u)
                   [] is({"PSNoneChunk"}) -> NoneChunkUpdate(r, u)
                   [] is({"PSChunkNone"}) -> ChunkNoneUpdate(r, u)
                   [] is({"PSMapChunk"}) -> MapChunkUpdate(r, u)
                   [] is({"PSChunkChunk"}) -> ChunkChunkUpdate(r, u)

Update_v2(w) ==
  /\ At(w, "push") /\ table.api = "v2" /\ ~ws[w].updated
  /\ ws' = [ws EXCEPT ![w] = [Updated(ws[w], <<w, ws[w].push_count_>>) EXCEPT !.updated = TRUE]]
  /\ UNCHANGED <<table, server, cache, bsp, pushed>>

\* Push, PushChunks and Clock_v2, to the server and to the thread cache.
Ready(w) == At(w, "push") /\ (table.api = "v2" => ws[w].updated)
Push(w) ==
  /\ Ready(w) /\ ~Buffered /\ ~is({"PSBsp"})
  /\ Send(w, Update(w))
  /\ Made(w)
  /\ ws' = [ws EXCEPT ![w] =
       [Aggregate(ws[w], <<w, ws[w].push_count_>>) EXCEPT
          !.pc = "idle", !.updated = FALSE, !.push_count_ = @ + 1, !.keys = {}]]
  /\ UNCHANGED <<table, cache, bsp>>

\* PSNoneChunkWorker::PushChunks: into the push buffer of the process.  The
\* buffer is locked chunk by chunk; a flush in between would send the chunks in
\* two messages, and what is said of a single chunk stays the same.
PushToBuffer(w) ==
  /\ Ready(w) /\ Buffered
  /\ cache' = [cache EXCEPT !.buffer = [c \in Chunks |-> @[c] \union Update(w)[c]]]
  /\ Made(w)
  /\ ws' = [ws EXCEPT ![w].pc = "idle", ![w].push_count_ = @ + 1, ![w].keys = {},
                      ![w].cached = Nothing]
  /\ UNCHANGED <<table, server, bsp>>

------------------------------------------------------------------------------
(* PSBspModel: one pull and one push for the process.                      *)

num_local_threads_ == Cardinality(Workers)

\* Pull, first part: the keys are registered ...
Register(w) ==
  /\ At(w, "register")
  /\ bsp' = [bsp EXCEPT !.keys = @ \union ws[w].keys]
  /\ ws' = [ws EXCEPT ![w].pc = "join"]
  /\ UNCHANGED <<table, server, cache, pushed>>

\* ... and the last thread to come pulls them all.
JoinPull(w) ==
  /\ At(w, "join")
  /\ LET last == bsp.pull_num_ + 1 = num_local_threads_ IN
     /\ last => Answers(w)
     /\ bsp' = [bsp EXCEPT !.pull_num_ = @ + 1,
          !.vals = IF last THEN [c \in Chunks |-> IF c \in bsp.keys THEN Visible(w, c) ELSE None]
                   ELSE @]
  /\ ws' = [ws EXCEPT ![w].pc = "joined"]
  /\ UNCHANGED <<table, server, cache, pushed>>

\* The threads wait until all have come, copy their keys, and the last to
\* leave resets the counters.
LeavePull(w) ==
  /\ At(w, "joined") /\ bsp.pull_num_ = num_local_threads_
  /\ LET last == bsp.pull_num2_ + 1 = num_local_threads_ IN
     bsp' = IF last THEN [bsp EXCEPT !.pull_num_ = 0, !.pull_num2_ = 0, !.keys = {}]
            ELSE [bsp EXCEPT !.pull_num2_ = @ + 1]
  /\ ws' = [ws EXCEPT ![w] = Returned([ws[w] EXCEPT !.cached = bsp.vals])]
  /\ UNCHANGED <<table, server, cache, pushed>>

\* Push: the updates of the process are summed up ...
JoinPush(w) ==
  /\ Ready(w) /\ is({"PSBsp"})
  /\ bsp' = [bsp EXCEPT !.params_ = [c \in Chunks |-> @[c] \union Update(w)[c]],
                        !.push_num_ = @ + 1]
  /\ Made(w)
  /\ ws' = [ws EXCEPT ![w].pc = "pushing"]
  /\ UNCHANGED <<table, server, cache>>

AllPushed == bsp.push_num_ = num_local_threads_
LeavePush(w) ==
  /\ At(w, "pushing") /\ AllPushed
  /\ LET last == bsp.push_num2_ + 1 = num_local_threads_ IN
     bsp' = IF last THEN [bsp EXCEPT !.push_num_ = 0, !.push_num2_ = 0]
            ELSE [bsp EXCEPT !.push_num2_ = @ + 1]
  /\ ws' = [ws EXCEPT ![w].pc = "send"]
  /\ UNCHANGED <<table, server, cache, pushed>>

\* ... and sent by the leader; the others push nothing.
SendPush(w) ==
  /\ At(w, "send")
  /\ Send(w, IF w = 0 THEN bsp.params_ ELSE [c \in Chunks |-> {}])
  /\ bsp' = IF w = 0 THEN [bsp EXCEPT !.params_ = [c \in Chunks |-> {}]] ELSE bsp
  /\ ws' = [ws EXCEPT ![w].pc = "idle", ![w].push_count_ = @ + 1,
                      ![w].updated = FALSE, ![w].keys = {}, ![w].cached = Nothing]
  /\ UNCHANGED <<table, cache, pushed>>

------------------------------------------------------------------------------
Finished == /\ \A w \in Workers : At(w, "idle") /\ ws[w].pull_count_ = table.iters
            /\ UNCHANGED vars

\* What the thread w does.
Step(w) ==
  \/ Pull(w) \/ Process(w) \/ Manage(w) \/ Fetch(w) \/ InstallProcess(w)
  \/ Release(w) \/ CopyChunk(w) \/ Update_v2(w)
  \/ Push(w) \/ PushToBuffer(w)
  \/ Register(w) \/ JoinPull(w) \/ LeavePull(w) \/ JoinPush(w) \/ LeavePush(w)
  \/ SendPush(w)

Next == (\E w \in Workers : Step(w) \/ Arrive(w)) \/ Finished

Spec == Init /\ [][Next]_vars
\* Every thread runs until it blocks, and every message arrives.
FairSpec == Spec /\ \A w \in Workers : WF_vars(Step(w)) /\ WF_vars(Arrive(w))

------------------------------------------------------------------------------
(* Properties.                                                             *)

\* How many iterations a read may lag behind: the staleness of the server or,
\* for the map whose timestamp is its own clock and for the push buffer, whose
\* contents may be on their way in the push of a faster thread, once more that.
Lag == IF is({"PSMapNone"}) \/ Buffered THEN 2 * s ELSE s

\* By how much the clock of a chunk may be ahead of a push that is not in the
\* chunk: not at all, but for what is in the push buffer, or was flushed by a
\* thread up to s iterations ahead.
Lead == IF Buffered THEN 1 + s ELSE 0

\* What w has read of chunk c in this iteration.
HasRead(w, c) == At(w, "push") /\ c \in ws[w].keys
Iteration(w) == ws[w].pull_count_ - 1

\* Whatever the caches hold, a worker in its n-th iteration reads every push
\* that any worker made more than Lag iterations before.
FreshReads ==
  \A w \in Workers, c \in Chunks : HasRead(w, c) =>
    \A q \in pushed[c] : q[2] < Iteration(w) - Lag => q \in ws[w].cached[c]

\* A worker without a process cache reads its own pushes.
OwnPushesRead ==
  is({"PSWorker", "PSMapNone", "PSChunkNone", "PSBsp"}) =>
    \A w \in Workers, c \in Chunks : HasRead(w, c) =>
      \A q \in pushed[c] : q[1] = w /\ q[2] < Iteration(w) => q \in ws[w].cached[c]

\* A chunk of the process cache has every push below the clock it is labelled
\* with, up to Lead, though threads fetch it concurrently, answers arrive in any
\* order and pushes are under way.
LabelsHonest ==
  \A c \in Chunks : cache.chunk_clocks_[c] >= 0 =>
    \A q \in pushed[c] : q[2] + Lead < cache.chunk_clocks_[c] => q \in cache.params_[c]

\* fetch_mgr_fetch_chunk asserts that the server's answer is new enough.
FetchedNewEnough ==
  \A w \in Workers : At(w, "release") => ws[w].answer.clock >= Required(ws[w])

\* The clocks in the process cache can be relied on to decide what to fetch.
CacheClocks == LabelsHonest /\ FetchedNewEnough

\* PSBsp: all threads of an iteration read exactly the pushes of the
\* iterations before.
BspExact ==
  is({"PSBsp"}) => \A w \in Workers, c \in Chunks : HasRead(w, c) =>
    ws[w].cached[c] = {q \in pushed[c] : q[2] < Iteration(w)}

\* What the consistency of its table promises a worker that pulls.
ReadsConsistent == FreshReads /\ OwnPushesRead /\ BspExact

\* A push is counted once: it is in the push buffer, among those PSBspModel is
\* collecting, or in one message, however flushes, fills and pushes interleave.
SentOnce ==
  \A c \in Chunks :
    /\ pushed[c] = {a.id : a \in messages[c]} \union cache.buffer[c] \union bsp.params_[c]
    /\ \A a, b \in messages[c] : a.id = b.id => a = b
    /\ \A a \in messages[c] : a.id \notin cache.buffer[c] \union bsp.params_[c]
    /\ cache.buffer[c] \intersect bsp.params_[c] = {}

\* Update_v2 of these classes writes to the thread cache what Clock_v2 then adds
\* to it again.
AddsTwice == table.api = "v2" /\ is({"PSChunkNone", "PSMapChunk", "PSChunkChunk"})
Twice(v) == {q \in v : q \in Workers \X Nat \X {"twice"}}

\* What is counted twice is an own update, seen by nobody else and gone with the
\* staleness: the chunk has been fetched again.
DoublesForgotten ==
  \A c \in Chunks :
    /\ Twice(cache.params_[c]) = {}
    /\ \A w \in Workers : HasRead(w, c) /\ ~ws[w].updated =>
         \A q \in Twice(ws[w].cached[c]) : AddsTwice /\ q[1] = w /\ q[2] >= Iteration(w) - s

\* No update is lost or sent twice, and none stays counted twice in a cache.
UpdatesCounted == SentOnce /\ DoublesForgotten

\* What a user of the table may expect: a push is in a read at most once,
CountedOnce ==
  \A w \in Workers, c \in Chunks : HasRead(w, c) /\ ~ws[w].updated => Twice(ws[w].cached[c]) = {}

\* and a read lags behind by kStaleness iterations at most.  Neither holds of
\* every table (PSUnsound.cfg).
WithinStaleness ==
  \A w \in Workers, c \in Chunks : HasRead(w, c) =>
    \A q \in pushed[c] : q[2] < Iteration(w) - s => q \in ws[w].cached[c]

\* No thread waits for ever for another's fetch, for the server or for the
\* rest of its process: every worker gets through all its iterations.
PullsReturn == <>[](\A w \in Workers : At(w, "idle") /\ ws[w].pull_count_ = table.iters)

------------------------------------------------------------------------------
(* The inductive invariant behind CacheClocks, ReadsConsistent and         *)
(* UpdatesCounted (PSWorkersProofs).                                       *)

Pushes == Workers \X Nat
Values == SUBSET (Pushes \union (Workers \X Nat \X {"twice"}) \union None)
Contents == [Chunks -> Values]
Pulling == {"process", "manage", "fetch", "install", "release", "copy"}
Local == [pc : Pulling \union {"idle", "push", "register", "join", "joined", "pushing", "send"},
          updated : BOOLEAN, pull_count_ : Nat, push_count_ : Nat,
          keys : SUBSET Chunks, need : SUBSET Chunks, fetch : SUBSET Chunks,
          wait : SUBSET Chunks, todo : SUBSET Chunks,
          answer : [clock : Nat, vals : Contents], vals : Contents, label : Int,
          cached : Contents, chunk_clocks_ : [Chunks -> Int], cache_ts_ : Int]
BspState == [params_ : [Chunks -> SUBSET Pushes], keys : SUBSET Chunks, vals : Contents,
             push_num_ : Nat, push_num2_ : Nat, pull_num_ : Nat, pull_num2_ : Nat]

\* The lists of fetch_mgr_ only decide who fetches: nothing is asked of them.
TypeOK ==
  /\ table \in Tables
  /\ clock \in [Workers -> Nat]
  /\ sent \in [Workers -> Nat]
  /\ messages \in [Chunks -> SUBSET [id : Pushes, from : Workers, at : Nat]]
  /\ ws \in [Workers -> Local]
  /\ DOMAIN cache = DOMAIN NewCache
  /\ cache.params_ \in Contents /\ cache.chunk_clocks_ \in [Chunks -> Int]
  /\ cache.buffer \in [Chunks -> SUBSET Pushes]
  /\ bsp \in BspState
  /\ pushed \in [Chunks -> SUBSET Pushes]

\* v has the pushes of P below l, a clock min_clock_ has reached at m.
Has(P, m, v, l) == l <= m /\ \A q \in P : q[2] + Lead < l => q \in v

\* A push is numbered by its worker; a worker of PSBsp has made it while it
\* waits for the others to send it.
Numbered ==
  \A c \in Chunks : \A q \in pushed[c] :
    \/ q[2] < ws[q[1]].push_count_
    \/ q[2] = ws[q[1]].push_count_ /\ ws[q[1]].pc \in {"pushing", "send"}

\* A push is in a message, in the push buffer until the next pull of any thread,
\* or among those PSBspModel is collecting.  A thread that flushes the buffer is
\* not more than s ahead of the pushes in it.
Sent ==
  /\ \A w \in Workers : clock[w] <= sent[w]
  /\ \A c \in Chunks :
       /\ pushed[c] = {a.id : a \in messages[c]} \union cache.buffer[c] \union bsp.params_[c]
       /\ \A a \in messages[c] :
            /\ a.at < sent[a.from]
            /\ Buffered => a.at - s <= min_clock /\ a.at <= a.id[2] + Lead
            /\ ~Buffered /\ ~is({"PSBsp"}) => a.at = a.id[2] /\ a.from = a.id[1]
       /\ IF Buffered THEN \A q \in cache.buffer[c] : q[2] + 1 >= sent[q[1]]
          ELSE cache.buffer[c] = {}
       /\ ~is({"PSBsp"}) => bsp.params_[c] = {}

CacheHolds ==
  \A c \in Chunks :
    /\ cache.chunk_clocks_[c] >= -1
    /\ cache.chunk_clocks_[c] >= 0 => cache.params_[c] # None
    /\ Has(pushed[c], min_clock, cache.params_[c], cache.chunk_clocks_[c])

\* From here on r is the record of worker w and k the pushes it has sent,
\* P all pushes, m min_clock_, L the clocks of the process cache.
Counted(r, k) ==
  /\ r.pull_count_ = r.push_count_ + (IF r.pc = "idle" THEN 0 ELSE 1)
  /\ k = IF Buffered THEN r.pull_count_ ELSE r.push_count_

OverCache == is({"PSNoneChunk", "PSMapChunk", "PSChunkChunk"})

Placed(r) ==
  /\ r.pc # "idle" => r.keys \in table.request
  /\ r.pc \in {"register", "join", "joined", "pushing", "send"} => is({"PSBsp"})
  /\ r.pc \in Pulling => /\ ~is({"PSBsp"}) /\ r.need # {}
                         /\ r.need \subseteq r.keys
                         /\ r.fetch \subseteq r.need /\ r.wait \subseteq r.need
  /\ r.pc \in Pulling \ {"fetch"} => OverCache
  /\ r.pc \in {"manage", "release"} => Managed
  /\ r.pc \in {"manage", "fetch", "install", "release"} => r.fetch # {}
  /\ r.pc = "fetch" /\ ~OverCache => r.fetch = r.need
  /\ r.pc \in {"fetch", "install"} /\ ~Managed => r.wait = {}
  /\ r.pc \notin {"manage", "fetch", "install", "release"} => r.wait = {}
  /\ r.pc = "manage" => r.todo = r.need
  /\ r.pc = "install" => r.todo # {} /\ r.todo \subseteq r.fetch
  /\ r.pc = "copy" => r.todo # {} /\ r.todo \subseteq r.need

\* A thread that flushes the push buffer has read what is not too old, so the
\* server does not hold back what it flushes.
Early(r, m) ==
  Buffered /\ r.pc \in {"idle", "install", "release", "copy", "push"} => r.pull_count_ - s <= m

Answered(r, k, P, m) ==
  /\ r.pc \in {"install", "release"} =>
       /\ r.answer.clock >= k - s /\ r.answer.clock <= m
       /\ is({"PSMapChunk"}) => r.answer.clock >= r.cache_ts_
  /\ r.pc = "install" =>
       \A c \in r.fetch : r.answer.vals[c] # None /\ Has(P[c], m, r.answer.vals[c], r.answer.clock)

\* What CacheClocks needs to know of a worker.
Fetching(r, k, P, m) ==
  Counted(r, k) /\ Placed(r) /\ Early(r, m) /\ Answered(r, k, P, m)
    /\ (is({"PSMapChunk"}) => r.cache_ts_ <= m)

\* The clock of a chunk that need not be fetched again.
Enough(r, k, l) ==
  /\ l >= 0 /\ l >= k - s
  /\ is({"PSMapChunk"}) => l >= r.pull_count_ - s \/ l >= r.cache_ts_

Pending(r) == CASE r.pc = "process" -> r.need
                [] r.pc = "manage" -> r.fetch
                [] r.pc = "fetch" -> r.fetch \union r.wait
                [] r.pc = "install" -> r.todo \union r.wait
                [] r.pc = "release" -> r.wait
                [] OTHER -> {}

\* What the thread cache lacks is asked for, and with a map nothing else is.
Asked(r) ==
  r.pc \in Pulling =>
    /\ is({"PSMapNone"}) => r.need = MapNoneNeeds(r)
    /\ is({"PSMapChunk"}) => r.need = MapChunkNeeds(r) /\ (TooOld(r) => r.cached = Nothing)
    /\ is({"PSChunkNone"}) => ChunkNoneNeeds(r) \subseteq r.need
    /\ is({"PSChunkChunk"}) => ChunkChunkNeeds(r) \subseteq r.need
    /\ is({"PSWorker", "PSNoneChunk"}) => r.need = r.keys

Copied(r, k, P, m, L) ==
  /\ OverCache /\ r.pc \in Pulling => \A c \in r.need \ Pending(r) : Enough(r, k, L[c])
  /\ r.pc = "copy" /\ r.todo # r.need =>
       /\ Enough(r, k, r.label)
       /\ \A c \in r.need \ r.todo : r.vals[c] # None /\ Has(P[c], m, r.vals[c], r.label)

\* PSMapChunk keeps its chunks under one timestamp.  That is good enough where
\* any two requests have a chunk in common and s is at most 3, or all are equal.
OneTimestamp ==
  is({"PSMapChunk"}) => /\ \A k, l \in table.request : k \intersect l # {}
                        /\ s <= 3 \/ \A k, l \in table.request : k = l

\* How far the clock of what a thread has cached may be behind its own.
Behind == IF is({"PSMapNone"}) THEN 2 * s ELSE s

\* The thread caches.
MapNoneHolds(r, P, m) ==
  /\ r.cache_ts_ <= r.pull_count_
  /\ \A c \in Chunks : r.cached[c] # None => Has(P[c], m, r.cached[c], r.cache_ts_ - 1 - s)
MapChunkHolds(r, P, m) ==
  r.cached # Nothing =>
    /\ r.cache_ts_ + (IF r.pc \in Pulling THEN 2 ELSE 1) <= r.pull_count_
    /\ \E k \in table.request : \A c \in k : r.cached[c] # None
    /\ \A c \in Chunks : r.cached[c] # None => Has(P[c], m, r.cached[c], r.cache_ts_ - 1)
    /\ (\A k, l \in table.request : k = l) =>
          \A k \in table.request, c \in Chunks : r.cached[c] # None <=> c \in k
ChunksHold(r, P, m) ==
  \A c \in Chunks :
    LET copied == r.pc = "copy" /\ c \in r.need \ r.todo IN
    /\ Has(P[c], m, IF copied THEN r.vals[c] ELSE r.cached[c], r.chunk_clocks_[c])
    /\ is({"PSChunkChunk"}) /\ r.chunk_clocks_[c] >= 0 /\ ~copied => r.cached[c] # None

Holds(r, k, P, m) ==
  /\ is({"PSMapNone"}) => MapNoneHolds(r, P, m)
  /\ is({"PSMapChunk"}) => MapChunkHolds(r, P, m)
  /\ is({"PSChunkNone", "PSChunkChunk"}) => ChunksHold(r, P, m)
  /\ r.pc = "push" /\ ~is({"PSBsp"}) =>
       \A c \in r.keys : r.cached[c] # None /\ Has(P[c], m, r.cached[c], k - Behind)

HoldsOwn(w, r, P) ==
  is({"PSWorker", "PSMapNone", "PSChunkNone"}) =>
    \A c \in Chunks : r.cached[c] # None => \A q \in P[c] : q[1] = w => q \in r.cached[c]

FetchInv ==
  /\ TypeOK /\ Numbered /\ Sent /\ CacheHolds
  /\ \A w \in Workers : Fetching(ws[w], sent[w], pushed, min_clock)

ReadInv ==
  OneTimestamp => \A w \in Workers :
    /\ Asked(ws[w])
    /\ Copied(ws[w], sent[w], pushed, min_clock, cache.chunk_clocks_)
    /\ Holds(ws[w], sent[w], pushed, min_clock)
    /\ HoldsOwn(w, ws[w], pushed)

\* PSBsp: between two barriers.  The threads come for the n-th pull while the
\* last may still be leaving the barrier of the push before, or they come for
\* the push while the last may still be leaving that of the pull.
AtPlace(l) == {w \in Workers : At(w, l)}

PullPhase(n) ==
  /\ \A w \in Workers :
       \/ ws[w].pc \in {"pushing", "send"} /\ ws[w].push_count_ + 1 = n
       \/ ws[w].pc \in {"idle", "register", "join", "joined"} /\ ws[w].push_count_ = n
  /\ bsp.pull_num_ = Cardinality(AtPlace("joined")) /\ bsp.pull_num_ # num_local_threads_
  /\ bsp.pull_num2_ = 0
  /\ bsp.push_num_ = IF AtPlace("pushing") = {} THEN 0 ELSE num_local_threads_
  /\ bsp.push_num2_ + Cardinality(AtPlace("pushing")) = bsp.push_num_

PushPhase(n) ==
  /\ \A w \in Workers : ws[w].pc \in {"joined", "push", "pushing"} /\ ws[w].push_count_ = n
  /\ bsp.push_num_ = Cardinality(AtPlace("pushing")) /\ bsp.push_num_ # num_local_threads_
  /\ bsp.push_num2_ = 0
  /\ bsp.pull_num_ = IF AtPlace("joined") = {} THEN 0 ELSE num_local_threads_
  /\ bsp.pull_num2_ + Cardinality(AtPlace("joined")) = bsp.pull_num_

Before(c, n) == {q \in pushed[c] : q[2] < n}

BspInv ==
  is({"PSBsp"}) =>
    /\ \E n \in {ws[0].push_count_, ws[0].push_count_ + 1} : PullPhase(n) \/ PushPhase(n)
    /\ \A c \in Chunks : /\ \A q \in bsp.params_[c] : q[2] = ws[0].push_count_
                         /\ \A a \in messages[c] : a.at = a.id[2]
    /\ \A w \in Workers :
         /\ ws[w].pc \in {"join", "joined"} => ws[w].keys \subseteq bsp.keys
         /\ \A c \in ws[w].keys :
              /\ At(w, "joined") /\ bsp.pull_num_ = num_local_threads_ =>
                   bsp.vals[c] = Before(c, ws[w].push_count_)
              /\ At(w, "push") => ws[w].cached[c] = Before(c, ws[w].push_count_)

\* A push is nowhere else when it is in a message.
OneMessage ==
  \A c \in Chunks :
    /\ \A a, b \in messages[c] : a.id = b.id => a = b
    /\ \A a \in messages[c] : a.id \notin cache.buffer[c] \union bsp.params_[c]

\* What is in a cache was pushed, or is about to be; what is there twice is the
\* thread's own,
Tidy(w, r, P) ==
  /\ r.updated => r.pc \in {"push", "pushing", "send"} /\ table.api = "v2"
  /\ \A c \in Chunks :
       /\ r.vals[c] \union r.answer.vals[c] \subseteq P[c] \union None
       /\ \A q \in r.cached[c] :
            \/ q \in P[c] \union None
            \/ AddsTwice /\ r.updated /\ c \in r.keys /\ q = <<w, r.push_count_>>
            \/ AddsTwice /\ q \in Twice(r.cached[c]) /\ q[1] = w

\* and was added since the chunk was fetched.
Since(r, c) == CASE is({"PSMapChunk"}) -> r.cache_ts_
                 [] r.pc = "copy" /\ c \in r.need \ r.todo -> 0
                 [] OTHER -> r.chunk_clocks_[c]
Fades(r) ==
  \A c \in Chunks : \A q \in Twice(r.cached[c]) :
    /\ q[2] >= Since(r, c)
    /\ r.pc = "push" /\ c \in r.keys => q[2] >= r.pull_count_ - 1 - s

TidyInv ==
  /\ \A c \in Chunks : cache.params_[c] \union bsp.vals[c] \subseteq pushed[c] \union None
  /\ \A w \in Workers : Tidy(w, ws[w], pushed)

OnceInv == OneMessage /\ TidyInv /\ (OneTimestamp => \A w \in Workers : Fades(ws[w]))
==============================================================================
