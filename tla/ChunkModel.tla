----------------------------- MODULE ChunkModel -----------------------------
(***************************************************************************)
(* The model a process keeps in memory for its threads, ml/model/*.hpp:    *)
(* chunks of parameters, fetched from the KV store when first wanted.      *)
(*                                                                         *)
(*   Integral  IntegralModel, loaded whole and updated without locks       *)
(*   Chunk     ChunkBasedModel, for a single thread                        *)
(*   MT        ChunkBasedMTModel, fetched under locks, updated without     *)
(*   MTLock    ChunkBasedMTLockModel, a lock for each chunk                *)
(*   LRU, LFU, Random  ModelWithCM*, a cache of at most cache_threshold_   *)
(*             chunks, the others being in a file                          *)
(*                                                                         *)
(* A chunk's parameters are the number of updates added to them, or None   *)
(* when the vector is empty.  A request is a set of chunks, visited in     *)
(* ascending order.  th[t].pc says where thread t is in Pull or Push; a    *)
(* critical section in which nothing can block is one step.                *)
(***************************************************************************)
EXTENDS Integers, FiniteSets, FiniteSetsExt

CONSTANTS
  Chunks,    \* the chunk ids, naturals
  WordSize   \* flags of is_cached_ in one word of std::vector<bool>

ASSUME ChunksAssumption ==
  /\ Chunks \subseteq Nat /\ IsFiniteSet(Chunks) /\ Chunks # {}
  /\ WordSize \in Nat \ {0}

VARIABLES
  kind,      \* the class of the model
  api,       \* what the threads call: Pull and Push, or PullChunks and PushChunks
  limits,    \* cache_threshold_ and num_dumps, int(dump_factor_ * cache_threshold_)
  model,     \* its fields
  th,        \* the local variables of each thread
  kv,        \* the chunks in the KV store
  applied,   \* history: the updates made to each chunk
  lost       \* history: the chunks whose flag a neighbour's update has undone

None == -1
Free == -1   \* the holder of a mutex that nobody holds
Caching == {"LRU", "LFU", "Random"}

\* ModelWithCM overrides Prepare and Push only: called by chunks, it is the
\* ChunkBasedMTLockModel it inherits from, and replaces nothing.
Replacing == kind \in Caching /\ api = "keys"

\* A new model.  disk is the file of ChunkFileEditor, with None for a chunk
\* whose status_ is InKVStore; rank_ is recency_ or frequency_.
NewModel ==
  [params_ |-> [c \in Chunks |-> None], is_cached_ |-> [c \in Chunks |-> FALSE],
   mtx_ |-> [c \in Chunks |-> Free], global_mtx_ |-> Free,
   prepare_count_ |-> [c \in Chunks |-> 0], num_cached_ |-> 0,
   rank_ |-> [c \in Chunks |-> 0], access_count_ |-> 0,
   disk |-> [c \in Chunks |-> None]]

\* The locals: the request, the chunks still to visit, chunks_to_fetch,
\* chunks_to_check, the pool of replace_lock (then chunks_to_replace), and
\* the word or value read and not yet written back.
NewLocals(pc) == [pc |-> pc, req |-> {}, todo |-> {}, fetch |-> {}, check |-> {},
                  pool |-> {}, word |-> {}, val |-> 0]

At(t, l) == th[t].pc = l

Unlock(mtx, cs) == [c \in Chunks |-> IF c \in cs THEN Free ELSE mtx[c]]

\* The chunks whose flags share a word with the flag of c.
Word(c) == {d \in Chunks : d \div WordSize = c \div WordSize}

\* What fetch_chunk brings into memory: the KV store's chunk, or the file's
\* once the chunk has been in the file.
FetchedFromKV(c) == kv[c]
Fetched(c) == IF model.disk[c] # None THEN model.disk[c] ELSE kv[c]

------------------------------------------------------------------------------
(* Prepare: bring the chunks of a request into memory.                     *)

\* Where Pull starts, and where it copies the chunks out.
Prepare(t) == LET l == CASE kind = "Integral" -> "read"
                         [] kind = "Chunk" -> "prepare"
                         [] Replacing -> "lock"
                         [] OTHER -> "collect"
              IN  [th[t] EXCEPT !.pc = l, !.todo = th[t].req]
Copy(l) == [l EXCEPT !.pc = "read", !.todo = l.req, !.fetch = {},
                       !.check = {}, !.pool = {}]

\* ChunkBasedModel::PrepareChunks, with one thread
ChunkPrepare(t) ==
  /\ At(t, "prepare")
  /\ model' = [model EXCEPT
       !.params_ = [c \in Chunks |-> IF c \in th[t].req /\ ~model.is_cached_[c]
                                     THEN Fetched(c) ELSE @[c]],
       !.is_cached_ = [c \in Chunks |-> c \in th[t].req \/ @[c]]]
  /\ th' = [th EXCEPT ![t] = Copy(@)]

\* ChunkBasedMTModel::PrepareChunks, 1: a chunk that is neither cached nor
\* locked is locked, to be fetched; one that is locked is being fetched.
Collect(t) ==
  /\ At(t, "collect") /\ th[t].todo # {}
  /\ LET c == Min(th[t].todo) IN
     /\ th' = [th EXCEPT ![t].todo = @ \ {c},
          ![t].fetch = IF ~model.is_cached_[c] /\ model.mtx_[c] = Free THEN @ \union {c} ELSE @,
          ![t].check = IF ~model.is_cached_[c] /\ model.mtx_[c] # Free THEN @ \union {c} ELSE @]
     /\ model' = [model EXCEPT !.mtx_[c] =
          IF ~model.is_cached_[c] /\ @ = Free THEN t ELSE @]

\* 2 and 3: fetch, then set the flags and unlock.  ModelWithCM::Prepare, 5
\* and 6, does the same once it has made room.
FetchChunks(t) ==
  /\ At(t, "fetch") \/ (At(t, "collect") /\ th[t].todo = {})
  /\ model' = [model EXCEPT !.params_ =
       [c \in Chunks |-> IF c \in th[t].fetch THEN Fetched(c) ELSE @[c]]]
  /\ th' = [th EXCEPT ![t].pc = IF th[t].fetch = {} THEN "check" ELSE "mark",
                      ![t].todo = th[t].fetch]

\* Setting one flag of a vector<bool> reads the word it is in ...
LoadWord(t) ==
  /\ th[t].pc \in {"mark", "unmark"}
  /\ th' = [th EXCEPT
       ![t].pc = IF @ = "mark" THEN "cache" ELSE "uncache",
       ![t].word = {d \in Word(Min(th[t].todo)) : model.is_cached_[d]}]
  /\ UNCHANGED model

\* ... and writes the word back, undoing what others have written to it in
\* between; then the chunk is unlocked.
StoreWord(t) ==
  /\ th[t].pc \in {"cache", "uncache"}
  /\ LET c == Min(th[t].todo)
         set == IF At(t, "cache") THEN th[t].word \union {c} ELSE th[t].word \ {c}
         rest == th[t].todo \ {c}
         next == IF At(t, "cache") THEN (IF rest # {} THEN "mark" ELSE "check")
                                   ELSE (IF rest # {} THEN "unmark" ELSE "fetch") IN
     /\ model' = [model EXCEPT
          !.is_cached_ = [d \in Chunks |-> IF d \in Word(c) THEN d \in set ELSE @[d]],
          !.mtx_[c] = Free]
     /\ lost' = lost \union {d \in Word(c) \ {c} : d \in th[t].word <=> ~model.is_cached_[d]}
     /\ th' = [th EXCEPT ![t].todo = rest, ![t].word = {}, ![t].pc = next]

\* 4: what another thread was fetching, unless it is cached by now ...
Recheck(t) ==
  /\ At(t, "check")
  /\ LET left == {c \in th[t].check : ~model.is_cached_[c]} IN
     th' = [th EXCEPT ![t] = IF left = {} THEN Copy(@)
                             ELSE [@ EXCEPT !.check = left, !.pc = "await"]]
  /\ UNCHANGED model

\* ... is waited for: lock, assert(is_cached_), unlock.
Await(t) ==
  /\ At(t, "await")
  /\ LET c == Min(th[t].check)
         left == th[t].check \ {c} IN
     /\ model.mtx_[c] = Free
     /\ th' = [th EXCEPT ![t] = IF left = {} THEN Copy(@)
                                ELSE [@ EXCEPT !.check = left]]
  /\ UNCHANGED model

------------------------------------------------------------------------------
(* ModelWithCM::Prepare: at most cache_threshold_ chunks stay in memory.   *)

\* overflow > 0: there is no room for n more chunks.
Overflow(n) == model.num_cached_ + n > limits.cache_threshold_

\* 1 to 4: lock the chunks and the cache together, pin the chunks, keep the
\* locks of those to fetch and, if there is no room for them, of the cache.
LockChunks(t) ==
  /\ At(t, "lock") /\ model.global_mtx_ = Free
  /\ \A c \in th[t].req : model.mtx_[c] = Free
  /\ LET need == {c \in th[t].req : ~model.is_cached_[c]}
         full == Overflow(Cardinality(need)) IN
     /\ model' = [model EXCEPT
          !.prepare_count_ = [c \in Chunks |-> IF c \in th[t].req THEN @[c] + 1 ELSE @[c]],
          !.mtx_ = [c \in Chunks |-> IF c \in need THEN t ELSE @[c]],
          !.global_mtx_ = IF need # {} /\ full THEN t ELSE Free,
          !.num_cached_ = IF full THEN @ ELSE @ + Cardinality(need)]
     /\ th' = [th EXCEPT ![t] =
          IF need = {} THEN Copy(@)
          ELSE [@ EXCEPT !.fetch = need, !.todo = {}, !.pc = IF full THEN "scan" ELSE "fetch"]]

\* replace_lock may take a chunk that is cached, not pinned and not locked.
Unlocked(c) == model.is_cached_[c] /\ model.mtx_[c] = Free
Unprotected(c) == /\ model.is_cached_[c]
                  /\ model.prepare_count_[c] = 0
                  /\ model.mtx_[c] = Free

\* replace_lock: pass over the chunks, locking those that may be replaced,
\* again and again until there are enough (Random stops when there are).
Scan(t) ==
  /\ At(t, "scan")
  /\ IF th[t].todo = {}
     THEN /\ Cardinality(th[t].pool) < limits.num_dumps
          /\ th' = [th EXCEPT ![t].todo = Chunks]
          /\ UNCHANGED model
     ELSE LET c == Min(th[t].todo)
              pool == IF Unprotected(c) THEN th[t].pool \union {c} ELSE th[t].pool
              stop == kind = "Random" /\ Cardinality(pool) = limits.num_dumps IN
          /\ th' = [th EXCEPT ![t].pool = pool,
                              ![t].todo = IF stop THEN {} ELSE @ \ {c}]
          /\ model' = [model EXCEPT !.mtx_[c] = IF Unprotected(c) THEN t ELSE @]

\* chunks_to_replace: the first of the pool when it is sorted by recency_ or
\* frequency_ (std::sort leaves the order of equals open), ...
LeastRanked(pool) ==
  {v \in kSubset(limits.num_dumps, pool) :
     \A c \in v, d \in pool \ v : model.rank_[c] <= model.rank_[d]}

\* ... or the whole pool, as the scan stopped when there was enough.
RandomVictims(pool) == {pool}

Victims(pool) == IF kind = "Random" THEN RandomVictims(pool) ELSE LeastRanked(pool)

\* LFU forgets how often the chunks it replaces were used.
LFUReset(v) ==
  [c \in Chunks |-> IF kind = "LFU" /\ c \in v THEN 0 ELSE model.rank_[c]]

\* The rest of the pool and the cache are unlocked.
Replace(t) ==
  /\ At(t, "scan") /\ th[t].todo = {} /\ Cardinality(th[t].pool) >= limits.num_dumps
  /\ \E v \in Victims(th[t].pool) :
     /\ model' = [model EXCEPT
          !.mtx_ = Unlock(@, th[t].pool \ v),
          !.global_mtx_ = Free,
          !.num_cached_ = @ + Cardinality(th[t].fetch) - Cardinality(v),
          !.rank_ = LFUReset(v)]
     /\ th' = [th EXCEPT ![t].pool = v, ![t].pc = IF v = {} THEN "fetch" ELSE "flush"]

\* flush_to_disk and write_chunks; the flags are cleared next
FlushToDisk(t) ==
  /\ At(t, "flush")
  /\ model' = [model EXCEPT
       !.disk = [c \in Chunks |-> IF c \in th[t].pool THEN model.params_[c] ELSE @[c]],
       !.params_ = [c \in Chunks |-> IF c \in th[t].pool THEN None ELSE @[c]]]
  /\ th' = [th EXCEPT ![t].pc = "unmark", ![t].todo = th[t].pool]

------------------------------------------------------------------------------
(* Pull and Push on chunks in memory.                                      *)

\* Pull and PullChunks copy one chunk at a time, under its lock.
CopyChunk(t) ==
  /\ At(t, "read") /\ th[t].todo # {}
  /\ kind # "MT" => model.mtx_[Min(th[t].todo)] = Free
  /\ th' = [th EXCEPT ![t].todo = @ \ {Min(@)}]
  /\ UNCHANGED <<model, applied, lost>>

\* touch(): an update sets the chunk's recency, or adds to its frequency.
LRUTouch(c) == [model EXCEPT !.rank_[c] = model.access_count_ + 1, !.access_count_ = @ + 1]
LFUTouch(c) == [model EXCEPT !.rank_[c] = @ + 1]
touch(c) == CASE kind = "LRU" -> LRUTouch(c)
              [] kind = "LFU" -> LFUTouch(c)
              [] OTHER -> model

\* An update of a chunk that is not in memory is gone: it is written past the
\* end of an empty vector.
Add(v) == IF v = None THEN None ELSE v + 1

\* ModelWithCM::Push also touches the chunk and takes the thread's pin off.
CachePush(c) == [touch(c) EXCEPT !.params_[c] = Add(@), !.prepare_count_[c] = @ - 1]

\* Push and PushChunks add to one chunk at a time, under its lock.
AddChunk(t) ==
  /\ At(t, "write") /\ th[t].todo # {} /\ kind \notin {"MT", "Integral"}
  /\ LET c == Min(th[t].todo) IN
     /\ model.mtx_[c] = Free
     /\ model' = IF Replacing THEN CachePush(c) ELSE [model EXCEPT !.params_[c] = Add(@)]
     /\ applied' = [applied EXCEPT ![c] = @ + 1]
     /\ th' = [th EXCEPT ![t].todo = @ \ {c}]
     /\ UNCHANGED lost

\* Without locks, += is a load and a store.
RacyLoad(t) ==
  /\ At(t, "write") /\ th[t].todo # {} /\ kind \in {"MT", "Integral"}
  /\ th' = [th EXCEPT ![t].pc = "add", ![t].val = model.params_[Min(th[t].todo)]]
  /\ UNCHANGED <<model, applied, lost>>
RacyStore(t) ==
  /\ At(t, "add")
  /\ LET c == Min(th[t].todo) IN
     /\ model' = [model EXCEPT !.params_[c] = th[t].val + 1]
     /\ applied' = [applied EXCEPT ![c] = @ + 1]
     /\ th' = [th EXCEPT ![t].pc = "write", ![t].todo = @ \ {c}, ![t].val = 0]
     /\ UNCHANGED lost

PrepareStep(t) ==
  /\ \/ ChunkPrepare(t) \/ Collect(t) \/ FetchChunks(t) \/ LoadWord(t) \/ Recheck(t)
     \/ Await(t) \/ LockChunks(t) \/ Scan(t) \/ Replace(t) \/ FlushToDisk(t)
  /\ UNCHANGED <<applied, lost>>

ModelStep(t) ==
  \/ PrepareStep(t) \/ (StoreWord(t) /\ UNCHANGED applied)
  \/ CopyChunk(t) \/ AddChunk(t) \/ RacyLoad(t) \/ RacyStore(t)

------------------------------------------------------------------------------
(* Load and Dump, by the hint the worker gives; bin is what the leader's   *)
(* mailbox holds.                                                          *)

Chunks_KV == "kvstore_chunks"
Integral_KV == "kvstore_integral"
Transfer == "transfer_integral"

LoadAllChunksFromKV == [model EXCEPT !.params_ = kv]
LoadAllChunksFromStore(bin) == [model EXCEPT !.params_ = bin]

\* ChunkBasedModel::Load: chunks fetched on demand are not loaded at all.
LoadChunkModel(hint, bin) ==
  LET cached(m) == [m EXCEPT !.is_cached_ = [c \in Chunks |-> TRUE]] IN
  CASE hint = Chunks_KV -> model
    [] hint = Integral_KV -> cached(LoadAllChunksFromKV)
    [] hint = Transfer -> cached(LoadAllChunksFromStore(bin))

\* IntegralModel::Load; it keeps no flags
LoadIntegralModel(hint, bin) ==
  CASE hint = Integral_KV -> [model EXCEPT !.params_ = kv]
    [] hint = Transfer -> [model EXCEPT !.params_ = bin]

LoadModel(hint, bin) ==
  IF kind = "Integral" THEN LoadIntegralModel(hint, bin) ELSE LoadChunkModel(hint, bin)

\* What the server makes of the pushed chunks cs: each value is assigned, and
\* a chunk without values changes nothing.
DumpChunks(cs) ==
  [c \in Chunks |-> IF c \in cs /\ model.params_[c] # None THEN model.params_[c] ELSE kv[c]]
DumpAllChunksToKV == DumpChunks(Chunks)

\* ChunkBasedModel::Dump and IntegralModel::Dump to the KV store: with chunks
\* on demand, an empty chunk is not sent.
DumpToKV(hint) ==
  IF hint = Chunks_KV THEN DumpChunks({c \in Chunks : model.params_[c] # None})
  ELSE DumpAllChunksToKV

\* ModelTransferStore::Add inserts: an entry that is there stays.
DumpToStore(store) ==
  IF \A c \in Chunks : store[c] = None THEN model.params_ ELSE store

=============================================================================
