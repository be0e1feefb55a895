--------------------------- MODULE PSWorkersProofs ---------------------------
(***************************************************************************)
(* Proofs about the parameter-server workers and their caches, for every   *)
(* number of threads and chunks, every staleness, every table and pushes   *)
(* that arrive whenever they do: the clocks in the process cache can be    *)
(* relied on, reads are as fresh as the table allows, and every push is    *)
(* sent once.                                                              *)
(*                                                                         *)
(* The parts of the invariant speak of the record of one worker, its clock *)
(* and what surrounds it (the pushes made, min_clock_, the clocks of the   *)
(* process cache); table never changes, so they are used without primes,   *)
(* on the old and on the new values.                                       *)
(***************************************************************************)
EXTENDS PSWorkers, FiniteSetTheorems, NaturalsInduction, WellFoundedInduction, TLAPS

LEMMA Least ==
  ASSUME NEW S \in SUBSET Nat, S # {}
  PROVE  \E a \in S : \A b \in S : a <= b
<1>1. PICK a \in S : \A b \in S : ~(<<b, a>> \in OpToRel(<, Nat))
  BY NatLessThanWellFounded, WFMin
<1>2. \A b \in S : ~(b < a)
  BY <1>1 DEF OpToRel
<1> QED BY <1>2

LEMMA MinOf ==
  ASSUME NEW S \in SUBSET Nat, S # {}
  PROVE  Min(S) \in S /\ \A b \in S : Min(S) <= b
<1>1. \E a \in S : \A b \in S : a <= b
  BY Least
<1> QED BY <1>1 DEF Min

LEMMA MinOfTwo ==
  ASSUME NEW a \in Int, NEW b \in Int
  PROVE  Min({a, b}) = IF a <= b THEN a ELSE b
<1> DEFINE m == IF a <= b THEN a ELSE b
<1>1. m \in {a, b} /\ \A y \in {a, b} : m <= y
  OBVIOUS
<1>2. \A x \in {a, b} : (\A y \in {a, b} : x <= y) => x = m
  OBVIOUS
<1> HIDE DEF m
<1>3. Min({a, b}) = m
  BY <1>1, <1>2 DEF Min
<1> QED BY <1>3 DEF m

LEMMA MaxOfTwo ==
  ASSUME NEW a \in Int, NEW b \in Int
  PROVE  Max({a, b}) = IF a >= b THEN a ELSE b
<1> DEFINE m == IF a >= b THEN a ELSE b
<1>1. m \in {a, b} /\ \A y \in {a, b} : m >= y
  OBVIOUS
<1>2. \A x \in {a, b} : (\A y \in {a, b} : x >= y) => x = m
  OBVIOUS
<1> HIDE DEF m
<1>3. Max({a, b}) = m
  BY <1>1, <1>2 DEF Max
<1> QED BY <1>3 DEF m

\* min_clock_ is the clock of the slowest worker.
LEMMA MinOfClocks ==
  ASSUME NEW f \in [Workers -> Nat]
  PROVE  LET m == Min({f[w] : w \in Workers}) IN
         m \in Nat /\ (\A w \in Workers : m <= f[w]) /\ \E w \in Workers : m = f[w]
<1> DEFINE S == {f[w] : w \in Workers}
<1>1. S \in SUBSET Nat /\ S # {}
  BY PSAssumption
<1>2. Min(S) \in S /\ \A b \in S : Min(S) <= b
  <2> HIDE DEF S
  <2> QED BY <1>1, MinOf
<1> QED BY <1>1, <1>2

LEMMA Clocks ==
  ASSUME clock \in [Workers -> Nat]
  PROVE  min_clock \in Nat /\ \A w \in Workers : min_clock <= clock[w]
BY MinOfClocks DEF min_clock

\* Clocks only go up, and min_clock_ with them.
LEMMA ClocksRise ==
  ASSUME clock \in [Workers -> Nat], clock' \in [Workers -> Nat],
         \A w \in Workers : clock[w] <= clock'[w]
  PROVE  min_clock' \in Nat /\ min_clock <= min_clock'
                            /\ \A w \in Workers : min_clock' <= clock'[w]
<1>1. min_clock \in Nat /\ \A w \in Workers : min_clock <= clock[w]
  BY Clocks
<1>2. PICK m : m = Min({clock'[w] : w \in Workers})
  OBVIOUS
<1>3. m \in Nat /\ (\A w \in Workers : m <= clock'[w]) /\ \E w \in Workers : m = clock'[w]
  BY <1>2, MinOfClocks
<1>4. min_clock' = m
  BY <1>2 DEF min_clock
<1> QED BY <1>1, <1>3, <1>4

LEMMA TableFacts ==
  ASSUME table \in Tables
  PROVE  /\ s \in Nat /\ Lead \in Nat /\ Lag \in Nat /\ Behind \in Nat /\ s <= Behind
         /\ table.worker_type \in Types /\ table.api \in {"keys", "chunks", "v2"}
         /\ table.request \in SUBSET ((SUBSET Chunks) \ {{}})
         /\ Buffered => Lead = 1 + s /\ Lag = Behind + s
         /\ ~Buffered => Lead = 0 /\ Lag = Behind
<1>1. table \in [worker_type : Types, api : {"keys", "chunks", "v2"}, staleness_ : Nat,
                 iters : Nat, request : SUBSET ((SUBSET Chunks) \ {{}})]
  BY PSAssumption
<1>2. s \in Nat
  BY <1>1 DEF s
<1>3. /\ Lag \in Nat /\ Behind \in Nat /\ s <= Behind
      /\ Lag = IF Buffered THEN Behind + s ELSE Behind
  BY <1>2 DEF Lag, Behind, Buffered, is
<1> QED BY <1>1, <1>2, <1>3 DEF Lead

------------------------------------------------------------------------------
(* What surrounds a worker changes while others take their steps.          *)

\* From pushes P and min_clock_ m to Q and n: the clock does not go back, and
\* the new pushes are not below what min_clock_ was.
Later(P, m, Q, n) ==
  /\ m <= n
  /\ \A c \in Chunks : /\ Q[c] \subseteq Pushes
                       /\ \A q \in Q[c] : q \in P[c] \/ q[2] + Lead >= m

LEMMA HasKept ==
  ASSUME table \in Tables, NEW P, NEW Q \in SUBSET Pushes, NEW m \in Nat, NEW n \in Nat, NEW v, NEW x,
         NEW l \in Int, Has(P, m, v, l), m <= n, v \subseteq x,
         \A q \in Q : q \in P \/ q[2] + Lead >= m
  PROVE  Has(Q, n, x, l)
<1>1. Lead \in Nat
  BY TableFacts
<1> QED BY <1>1 DEF Has, Pushes

LEMMA HasLess ==
  ASSUME table \in Tables, NEW P \in SUBSET Pushes, NEW m \in Nat, NEW v, NEW l \in Int, NEW j \in Int,
         Has(P, m, v, l), j <= l
  PROVE  Has(P, m, v, j)
<1>1. Lead \in Nat
  BY TableFacts
<1> QED BY <1>1 DEF Has, Pushes

LEMMA FetchingKept ==
  ASSUME table \in Tables, NEW r \in Local, NEW k \in Nat, NEW P, NEW m \in Nat, NEW Q, NEW n \in Nat,
         Later(P, m, Q, n), Fetching(r, k, P, m)
  PROVE  Fetching(r, k, Q, n)
<1>0. s \in Nat /\ m <= n
  BY TableFacts DEF Later
<1>1. Early(r, n)
  BY <1>0 DEF Fetching, Early, Local
<1>2. r.answer.clock \in Nat /\ r.cache_ts_ \in Int /\ r.fetch \subseteq Chunks
  BY DEF Local
<1>3. \A c \in r.fetch : Has(P[c], m, r.answer.vals[c], r.answer.clock)
                           => Has(Q[c], n, r.answer.vals[c], r.answer.clock)
  BY <1>2, HasKept DEF Later
<1>4. Answered(r, k, Q, n)
  BY <1>0, <1>2, <1>3 DEF Fetching, Answered
<1> QED BY <1>0, <1>1, <1>2, <1>4 DEF Fetching

LEMMA FetchingPrime ==
  ASSUME table' = table, NEW w \in Workers,
         Fetching(ws'[w], sent'[w], pushed', min_clock')
  PROVE  Fetching(ws[w], sent[w], pushed, min_clock)'
<1>1. /\ Buffered' = Buffered /\ s' = s /\ Lead' = Lead /\ OverCache' = OverCache
      /\ Managed' = Managed /\ (is({"PSMapChunk"}))' = is({"PSMapChunk"})
      /\ (is({"PSBsp"}))' = is({"PSBsp"})
  BY DEF Buffered, s, Lead, OverCache, Managed, is
<1> QED BY <1>1 DEF Fetching, Counted, Placed, Early, Answered, Has

------------------------------------------------------------------------------
(* The steps of a worker, first for what CacheClocks needs.                *)

\* Worker w takes a step to record r; the others are as before.
Becomes(w, r) == ws' = [ws EXCEPT ![w] = r] /\ table' = table

LEMMA BecomesType ==
  ASSUME TypeOK, NEW w \in Workers, NEW r \in Local, Becomes(w, r)
  PROVE  /\ ws' \in [Workers -> Local] /\ table' \in Tables
         /\ ws'[w] = r /\ \A u \in Workers : u # w => ws'[u] = ws[u]
BY DEF TypeOK, Becomes

LEMMA EachFetches ==
  ASSUME FetchInv, NEW w \in Workers, NEW r \in Local, Becomes(w, r),
         clock' \in [Workers -> Nat], \A u \in Workers : clock[u] <= clock'[u],
         \A u \in Workers : u # w => sent'[u] = sent[u],
         Later(pushed, min_clock, pushed', min_clock'),
         Fetching(r, sent'[w], pushed', min_clock')
  PROVE  \A u \in Workers : Fetching(ws[u], sent[u], pushed, min_clock)'
<1>1. TypeOK /\ \A u \in Workers : Fetching(ws[u], sent[u], pushed, min_clock)
  BY DEF FetchInv
<1>2. ws'[w] = r /\ \A u \in Workers : u # w => ws'[u] = ws[u]
  BY <1>1, BecomesType
<1>3. /\ table \in Tables /\ table' = table /\ clock \in [Workers -> Nat]
      /\ \A u \in Workers : ws[u] \in Local
  BY <1>1 DEF TypeOK, Becomes
<1>4. min_clock \in Nat /\ min_clock' \in Nat
  BY <1>3, Clocks, ClocksRise
<1> SUFFICES ASSUME NEW u \in Workers
             PROVE  Fetching(ws'[u], sent'[u], pushed', min_clock')
  BY <1>3, FetchingPrime
<1>5. CASE u = w
  BY <1>2, <1>5
<1>6. CASE u # w
  <2>1. ws'[u] = ws[u] /\ sent'[u] = sent[u]
    BY <1>2, <1>6
  <2>2. sent[u] \in Nat
    BY <1>1 DEF TypeOK
  <2>3. Fetching(ws[u], sent[u], pushed', min_clock')
    BY <1>1, <1>3, <1>4, <2>2, FetchingKept
  <2> QED BY <2>1, <2>3
<1> QED BY <1>5, <1>6

LEMMA CacheKept ==
  ASSUME FetchInv, table' = table, clock' \in [Workers -> Nat], \A u \in Workers : clock[u] <= clock'[u],
         Later(pushed, min_clock, pushed', min_clock'),
         cache'.params_ = cache.params_, cache'.chunk_clocks_ = cache.chunk_clocks_
  PROVE  CacheHolds'
<1>1. /\ table \in Tables /\ clock \in [Workers -> Nat] /\ cache.chunk_clocks_ \in [Chunks -> Int]
      /\ CacheHolds
  BY DEF FetchInv, TypeOK
<1>2. min_clock \in Nat /\ min_clock' \in Nat
  BY <1>1, Clocks, ClocksRise
<1>3. \A c \in Chunks : Has(pushed[c], min_clock, cache.params_[c], cache.chunk_clocks_[c])
  BY <1>1 DEF CacheHolds
<1>4. \A c \in Chunks : Has(pushed'[c], min_clock', cache.params_[c], cache.chunk_clocks_[c])
  <2> TAKE c \in Chunks
  <2>1. cache.chunk_clocks_[c] \in Int
    BY <1>1
  <2>2. /\ pushed'[c] \in SUBSET Pushes /\ min_clock <= min_clock'
        /\ \A q \in pushed'[c] : q \in pushed[c] \/ q[2] + Lead >= min_clock
    BY DEF Later
  <2> QED BY <1>1, <1>2, <1>3, <2>1, <2>2, HasKept
<1>5. Lead' = Lead
  BY DEF s, Lead, Buffered, is
<1> QED BY <1>1, <1>4, <1>5 DEF CacheHolds, Has

\* A step that pushes nothing.
LEMMA QuietStep ==
  ASSUME FetchInv, NEW w \in Workers, NEW r \in Local, Becomes(w, r),
         clock' = clock, sent' = sent, messages' = messages, pushed' = pushed,
         DOMAIN cache' = DOMAIN cache, cache'.buffer = cache.buffer,
         cache'.params_ \in Contents, cache'.chunk_clocks_ \in [Chunks -> Int],
         bsp' \in BspState, bsp'.params_ = bsp.params_,
         r.push_count_ = ws[w].push_count_,
         ws[w].pc \in {"pushing", "send"} => r.pc \in {"pushing", "send"},
         Fetching(r, sent[w], pushed, min_clock),
         CacheHolds'
  PROVE  FetchInv'
<1>1. TypeOK /\ Numbered /\ Sent
  BY DEF FetchInv
<1>2. /\ ws' \in [Workers -> Local] /\ table' \in Tables /\ table' = table
      /\ ws'[w] = r /\ \A u \in Workers : u # w => ws'[u] = ws[u]
  BY <1>1, BecomesType DEF Becomes
<1>3. TypeOK'
  BY <1>1, <1>2 DEF TypeOK
<1>4. Numbered'
  <2>1. \A c \in Chunks : pushed[c] \subseteq Pushes
    BY <1>1 DEF TypeOK
  <2>2. \A q \in Pushes : q[1] \in Workers
    BY DEF Pushes
  <2>3. \A u \in Workers : /\ ws'[u].push_count_ = ws[u].push_count_
                           /\ ws[u].pc \in {"pushing", "send"} => ws'[u].pc \in {"pushing", "send"}
    BY <1>2
  <2> QED BY <1>1, <2>1, <2>2, <2>3 DEF Numbered
<1>5. min_clock' = min_clock
  BY DEF min_clock
<1>6. Sent'
  <2>1. Buffered' = Buffered /\ s' = s /\ Lead' = Lead /\ is({"PSBsp"})' = is({"PSBsp"})
    BY <1>2 DEF Buffered, Lead, s, is
  <2> QED BY <1>1, <1>5, <2>1 DEF Sent
<1>7. Later(pushed, min_clock, pushed', min_clock')
  <2>1. min_clock \in Nat
    BY <1>1, Clocks DEF TypeOK
  <2> QED BY <1>1, <1>5, <2>1 DEF Later, TypeOK
<1>8. \A u \in Workers : Fetching(ws[u], sent[u], pushed, min_clock)'
  <2>1. clock' \in [Workers -> Nat] /\ \A u \in Workers : clock[u] <= clock'[u]
    BY <1>1 DEF TypeOK
  <2> QED BY <1>5, <1>7, <2>1, EachFetches
<1> QED BY <1>3, <1>4, <1>6, <1>8 DEF FetchInv

\* A step that changes nothing but the record of its worker.
LEMMA LocalStep ==
  ASSUME FetchInv, NEW w \in Workers, NEW r \in Local, Becomes(w, r),
         UNCHANGED <<clock, sent, messages, pushed, cache>>, bsp' \in BspState, bsp'.params_ = bsp.params_,
         r.push_count_ = ws[w].push_count_,
         ws[w].pc \in {"pushing", "send"} => r.pc \in {"pushing", "send"},
         Fetching(r, sent[w], pushed, min_clock)
  PROVE  FetchInv'
<1>1. TypeOK
  BY DEF FetchInv
<1>2. min_clock' = min_clock /\ min_clock \in Nat
  BY <1>1, Clocks DEF min_clock, TypeOK
<1>3. Later(pushed, min_clock, pushed', min_clock')
  BY <1>1, <1>2 DEF Later, TypeOK
<1>4. clock' \in [Workers -> Nat] /\ \A u \in Workers : clock[u] <= clock'[u]
  BY <1>1 DEF TypeOK
<1>5. CacheHolds'
  BY <1>3, <1>4, CacheKept DEF Becomes
<1>6. cache'.params_ \in Contents /\ cache'.chunk_clocks_ \in [Chunks -> Int]
  BY <1>1 DEF TypeOK
<1>7. /\ clock' = clock /\ sent' = sent /\ messages' = messages /\ pushed' = pushed
      /\ DOMAIN cache' = DOMAIN cache /\ cache'.buffer = cache.buffer
  OBVIOUS
<1> QED BY <1>5, <1>6, <1>7, QuietStep

LEMMA RequiredClock ==
  ASSUME table \in Tables, NEW r \in Local, NEW k \in Nat, Counted(r, k), r.pc # "idle"
  PROVE  /\ Required(r) \in Nat /\ Required(r) >= k - s
         /\ Managed => Required(r) = IF k >= s THEN k - s ELSE 0
         /\ ~is({"PSChunkChunk"}) => Required(r) >= r.pull_count_ - s
         /\ r.pull_count_ - 1 <= k
<1>1. s \in Nat
  BY TableFacts
<1>2. r.pull_count_ \in Nat /\ r.push_count_ \in Nat
  BY DEF Local
<1>3. r.pull_count_ = r.push_count_ + 1 /\ k = IF Buffered THEN r.pull_count_ ELSE r.push_count_
  BY <1>2 DEF Counted
<1>4. CASE is({"PSChunkChunk"})
  <2>1. PICK d : d = r.pull_count_ - s - 1
    OBVIOUS
  <2>2. Required(r) = IF 0 >= d THEN 0 ELSE d
    BY <1>1, <1>2, <1>4, <2>1, MaxOfTwo DEF Required, min_clock_of
  <2>3. ~Buffered
    BY <1>4 DEF Buffered, is
  <2> QED BY <1>1, <1>2, <1>3, <1>4, <2>1, <2>2, <2>3
<1>5. CASE ~is({"PSChunkChunk"})
  <2>1. PICK d : d = r.pull_count_ - s
    OBVIOUS
  <2>2. Required(r) = IF 0 >= d THEN 0 ELSE d
    BY <1>1, <1>2, <1>5, <2>1, MaxOfTwo DEF Required
  <2> QED BY <1>1, <1>2, <1>3, <1>5, <2>1, <2>2 DEF Managed
<1> QED BY <1>4, <1>5

\* What FetchInv says of one worker and its surroundings.
LEMMA WorkerFacts ==
  ASSUME FetchInv, NEW w \in Workers
  PROVE  /\ TypeOK /\ table \in Tables /\ ws[w] \in Local /\ sent[w] \in Nat /\ s \in Nat
         /\ min_clock \in Nat /\ min_clock <= sent[w]
         /\ Fetching(ws[w], sent[w], pushed, min_clock)
         /\ Counted(ws[w], sent[w]) /\ Placed(ws[w])
         /\ \A c \in Chunks : /\ cache.chunk_clocks_[c] \in Int
                              /\ cache.chunk_clocks_[c] <= min_clock
<1>1. TypeOK /\ CacheHolds /\ Fetching(ws[w], sent[w], pushed, min_clock)
  BY DEF FetchInv
<1>2. min_clock \in Nat /\ min_clock <= sent[w]
  <2>1. min_clock \in Nat /\ min_clock <= clock[w]
    BY <1>1, Clocks DEF TypeOK
  <2>2. clock[w] <= sent[w] /\ clock[w] \in Nat /\ sent[w] \in Nat
    BY <1>1 DEF FetchInv, Sent, TypeOK
  <2> QED BY <2>1, <2>2
<1>3. s \in Nat
  BY <1>1, TableFacts DEF TypeOK
<1> QED BY <1>1, <1>2, <1>3 DEF TypeOK, CacheHolds, Has, Fetching

LEMMA ProcessFetches ==
  ASSUME FetchInv, NEW w \in Workers, Process(w)
  PROVE  FetchInv'
<1> DEFINE old == ws[w]
           stale == {c \in old.need : cache.chunk_clocks_[c] < Required(old)}
           r == [old EXCEPT !.fetch = stale, !.wait = {}, !.todo = old.need,
                   !.pc = IF stale = {} THEN "copy" ELSE IF Managed THEN "manage" ELSE "fetch"]
<1>1. /\ old \in Local /\ Placed(old) /\ Counted(old, sent[w]) /\ sent[w] \in Nat
      /\ table \in Tables /\ TypeOK /\ Fetching(old, sent[w], pushed, min_clock)
      /\ min_clock \in Nat /\ s \in Nat
  BY WorkerFacts
<1>2. old.pc = "process"
  BY DEF Process, At
<1>3. Becomes(w, r)
  BY <1>1 DEF Process, Becomes, TypeOK, Local
<1>4. stale \subseteq old.need /\ old.need \subseteq Chunks
  BY <1>1 DEF Local
<1>5. r \in Local
  BY <1>1, <1>4 DEF Local, Pulling
<1>6. Counted(r, sent[w])
  BY <1>1, <1>2 DEF Counted, Local
<1>7. old.need # {} /\ old.keys \in table.request /\ ~is({"PSBsp"}) /\ OverCache
      /\ old.need \subseteq old.keys
  BY <1>1, <1>2 DEF Placed, Pulling
<1>8. Placed(r)
  BY <1>1, <1>2, <1>4, <1>7 DEF Placed, Pulling, Local
<1>9. Early(r, min_clock)
  <2> SUFFICES ASSUME Buffered, stale = {}
               PROVE  old.pull_count_ - s <= min_clock
    BY <1>1 DEF Early, Local
  <2>1. PICK c \in old.need : TRUE
    BY <1>7
  <2>2. ~(cache.chunk_clocks_[c] < Required(old))
    BY <2>1
  <2>3. Required(old) >= old.pull_count_ - s /\ Required(old) \in Nat
    BY <1>1, <1>2, RequiredClock DEF Buffered, is
  <2>4. cache.chunk_clocks_[c] <= min_clock /\ cache.chunk_clocks_[c] \in Int
    BY <1>4, <2>1, WorkerFacts
  <2> QED BY <1>1, <2>2, <2>3, <2>4 DEF Local
<1>10. Answered(r, sent[w], pushed, min_clock)
  BY <1>1 DEF Answered, Local
<1>11. Fetching(r, sent[w], pushed, min_clock)
  BY <1>1, <1>6, <1>8, <1>9, <1>10 DEF Fetching, Local
<1>12. /\ UNCHANGED <<clock, sent, messages, pushed, cache>> /\ bsp' \in BspState /\ bsp'.params_ = bsp.params_
  BY <1>1 DEF Process, server, TypeOK
<1>13. r.push_count_ = old.push_count_ /\ old.pc \notin {"pushing", "send"}
  BY <1>1, <1>2 DEF Local
<1> HIDE DEF r
<1> QED BY <1>3, <1>5, <1>11, <1>12, <1>13, LocalStep

LEMMA ManageFetches ==
  ASSUME FetchInv, NEW w \in Workers, Manage(w)
  PROVE  FetchInv'
<1> DEFINE old == ws[w]
           m == Required(old)
           stale == {c \in old.fetch : cache.chunk_clocks_[c] < m}
           real == {c \in stale : Mine(c, m)}
           wait == stale \ real
           r == [old EXCEPT !.fetch = IF real # {} THEN real ELSE wait, !.wait = wait,
                   !.pc = IF real # {} THEN "fetch" ELSE IF wait # {} THEN "manage" ELSE "copy"]
<1>1. /\ old \in Local /\ Placed(old) /\ Counted(old, sent[w]) /\ sent[w] \in Nat
      /\ table \in Tables /\ TypeOK /\ Fetching(old, sent[w], pushed, min_clock)
      /\ min_clock \in Nat /\ s \in Nat
  BY WorkerFacts
<1>2. old.pc = "manage"
  BY DEF Manage, At
<1>3. Becomes(w, r)
  BY <1>1 DEF Manage, Becomes, TypeOK, Local
<1>4. real \subseteq old.fetch /\ wait \subseteq old.fetch /\ old.fetch \subseteq Chunks
  BY <1>1 DEF Local
<1>5. real = {} /\ wait = {} => stale = {}
  OBVIOUS
<1>6. /\ DOMAIN cache' = DOMAIN cache /\ cache'.buffer = cache.buffer
      /\ cache'.params_ = cache.params_ /\ cache'.chunk_clocks_ = cache.chunk_clocks_
  BY <1>1 DEF Manage, TypeOK, NewCache
<1> HIDE DEF real, wait
<1>7. r \in Local
  BY <1>1, <1>4 DEF Local, Pulling
<1>8. Counted(r, sent[w])
  BY <1>1, <1>2 DEF Counted, Local
<1>9. /\ old.need # {} /\ old.keys \in table.request /\ ~is({"PSBsp"}) /\ OverCache /\ Managed
      /\ old.need \subseteq old.keys /\ old.fetch # {} /\ old.fetch \subseteq old.need
      /\ old.todo = old.need
  BY <1>1, <1>2 DEF Placed, Pulling
<1>10. Placed(r)
  BY <1>1, <1>2, <1>4, <1>9 DEF Placed, Pulling, Local
<1>11. Early(r, min_clock)
  <2> SUFFICES ASSUME Buffered, stale = {}
               PROVE  old.pull_count_ - s <= min_clock
    BY <1>1, <1>5 DEF Early, Local
  <2>1. PICK c \in old.fetch : TRUE
    BY <1>9
  <2>2. ~(cache.chunk_clocks_[c] < m)
    BY <2>1
  <2>3. m >= old.pull_count_ - s /\ m \in Nat
    BY <1>1, <1>2, RequiredClock DEF Buffered, is
  <2>4. cache.chunk_clocks_[c] <= min_clock /\ cache.chunk_clocks_[c] \in Int
    BY <1>4, <2>1, WorkerFacts
  <2> QED BY <1>1, <2>2, <2>3, <2>4 DEF Local
<1>12. Answered(r, sent[w], pushed, min_clock)
  BY <1>1 DEF Answered, Local
<1>13. Fetching(r, sent[w], pushed, min_clock)
  BY <1>1, <1>8, <1>10, <1>11, <1>12 DEF Fetching, Local
<1>14. r.push_count_ = old.push_count_ /\ old.pc \notin {"pushing", "send"}
  BY <1>1, <1>2 DEF Local
<1>15. clock' = clock /\ sent' = sent /\ messages' = messages /\ pushed' = pushed /\ bsp' = bsp /\ table' = table
  BY DEF Manage, server
<1>16. bsp' \in BspState /\ bsp'.params_ = bsp.params_ /\ cache'.params_ \in Contents
       /\ cache'.chunk_clocks_ \in [Chunks -> Int]
  BY <1>1, <1>6, <1>15 DEF TypeOK
<1>17. CacheHolds'
  <2>1. min_clock' = min_clock
    BY <1>15 DEF min_clock
  <2>2. Later(pushed, min_clock, pushed', min_clock')
    BY <1>1, <1>15, <2>1 DEF Later, TypeOK
  <2>3. clock' \in [Workers -> Nat] /\ \A u \in Workers : clock[u] <= clock'[u]
    BY <1>1, <1>15 DEF TypeOK
  <2> QED BY <1>6, <1>15, <2>2, <2>3, CacheKept
<1> HIDE DEF r
<1> QED BY <1>3, <1>6, <1>7, <1>13, <1>14, <1>15, <1>16, <1>17, QuietStep

\* What the server answers has every push below min_clock_.
LEMMA AnswerHas ==
  ASSUME FetchInv, NEW w \in Workers, NEW c \in Chunks, ~is({"PSBsp"})
  PROVE  /\ Visible(w, c) \subseteq pushed[c] /\ pushed[c] \subseteq Pushes
         /\ Has(pushed[c], min_clock, Visible(w, c), min_clock)
<1>1. TypeOK /\ Sent
  BY DEF FetchInv
<1>2. /\ min_clock \in Nat /\ s \in Nat /\ Lead \in Nat
      /\ (\A u \in Workers : min_clock <= clock[u])
      /\ (Buffered => Lead = 1 + s) /\ (~Buffered => Lead = 0)
  BY <1>1, Clocks, TableFacts DEF TypeOK
<1>3. /\ pushed[c] \subseteq Pushes /\ messages[c] \subseteq [id : Pushes, from : Workers, at : Nat]
      /\ clock \in [Workers -> Nat] /\ sent \in [Workers -> Nat]
      /\ \A u \in Workers : clock[u] <= sent[u]
  BY <1>1 DEF TypeOK, Sent
<1>4. /\ pushed[c] = {a.id : a \in messages[c]} \union cache.buffer[c]
      /\ \A a \in messages[c] : /\ Buffered => a.at - s <= min_clock /\ a.at <= a.id[2] + Lead
                                /\ ~Buffered => a.at = a.id[2]
      /\ IF Buffered THEN \A q \in cache.buffer[c] : q[2] + 1 >= sent[q[1]]
         ELSE cache.buffer[c] = {}
  BY <1>1 DEF Sent
<1>5. Visible(w, c) = {a.id : a \in {a \in messages[c] : Applied(a)}}
  BY DEF Visible
<1>6. ASSUME NEW q \in pushed[c], q[2] + Lead < min_clock
      PROVE  q \in Visible(w, c)
  <2>1. q[1] \in Workers /\ q[2] \in Nat
    BY <1>3 DEF Pushes
  <2>2. q \notin cache.buffer[c]
    <3>1. clock[q[1]] \in Nat /\ sent[q[1]] \in Nat /\ min_clock <= clock[q[1]] /\ clock[q[1]] <= sent[q[1]]
      BY <1>2, <1>3, <2>1
    <3> QED BY <1>2, <1>4, <1>6, <2>1, <3>1
  <2>3. PICK a \in messages[c] : a.id = q
    BY <1>4, <2>2
  <2>4. a.at \in Nat /\ clock[a.from] \in Nat /\ min_clock <= clock[a.from]
    BY <1>2, <1>3
  <2>5. a.at < min_clock
    BY <1>2, <1>4, <1>6, <2>1, <2>3, <2>4
  <2>6. Applied(a)
    BY <1>2, <2>4, <2>5 DEF Applied
  <2> QED BY <1>5, <2>3, <2>6
<1>7. Visible(w, c) \subseteq pushed[c]
  BY <1>4, <1>5
<1> QED BY <1>2, <1>3, <1>6, <1>7 DEF Has

LEMMA ValueFacts ==
  /\ \A v \in SUBSET Pushes : v \in Values /\ v # None
  /\ None \in Values
  /\ \A v \in Values, q \in Pushes : Plus(v, q) \in Values /\ Plus(v, q) # None /\ v \subseteq Plus(v, q)
                                     /\ q \in Plus(v, q)
<1>1. <<-1, -1>> \notin Pushes
  BY DEF Pushes
<1>2. \A v \in SUBSET Pushes : v \in Values /\ v # None
  BY <1>1 DEF Values, None
<1>3. None \in Values
  BY DEF Values, None
<1>4. ASSUME NEW v \in Values, NEW q \in Pushes
      PROVE  Plus(v, q) \in Values /\ Plus(v, q) # None /\ v \subseteq Plus(v, q) /\ q \in Plus(v, q)
  <2>1. q[1] \in Workers /\ q[2] \in Nat
    BY DEF Pushes
  <2>2. <<q[1], q[2], "twice">> \in Workers \X Nat \X {"twice"}
    BY <2>1
  <2>3. v \subseteq Plus(v, q) /\ q \in Plus(v, q)
    BY DEF Plus
  <2>4. Plus(v, q) # None
    BY <1>1, <2>3 DEF None
  <2>5. PICK t : t = <<q[1], q[2], "twice">>
    OBVIOUS
  <2>6. Plus(v, q) \subseteq v \union {q, t}
    BY <2>5 DEF Plus
  <2>7. Plus(v, q) \in Values
    BY <2>2, <2>5, <2>6 DEF Values
  <2> QED BY <2>3, <2>4, <2>7
<1> QED BY <1>2, <1>3, <1>4

\* The parts of its record a worker does not touch when it keeps or returns
\* what it has got.
SameRun(r, t) ==
  /\ t.pull_count_ = r.pull_count_ /\ t.push_count_ = r.push_count_ /\ t.keys = r.keys
  /\ t.updated = r.updated /\ t.wait = r.wait

LEMMA ReturnedFacts ==
  ASSUME NEW r \in Local
  PROVE  /\ Returned(r) \in Local /\ Returned(r).pc = "push" /\ SameRun(r, Returned(r))
         /\ Returned(r).cached = r.cached /\ Returned(r).chunk_clocks_ = r.chunk_clocks_
         /\ Returned(r).cache_ts_ = r.cache_ts_ /\ Returned(r).vals = Nothing
         /\ Returned(r).answer = NoAnswer
<1>1. Nothing \in Contents
  BY ValueFacts DEF Nothing, Contents
<1>2. NoAnswer \in [clock : Nat, vals : Contents]
  BY <1>1 DEF NoAnswer
<1>3. Returned(r) \in Local
  <2>1. {} \in SUBSET Chunks /\ 0 \in Int
    OBVIOUS
  <2>2. PICK a, v, e, z : a = NoAnswer /\ v = Nothing /\ e = {} /\ z = 0
    OBVIOUS
  <2>3. Returned(r) = [r EXCEPT !.pc = "push", !.need = e, !.fetch = e, !.todo = e,
                         !.answer = a, !.vals = v, !.label = z]
    BY <2>2 DEF Returned
  <2>4. a \in [clock : Nat, vals : Contents] /\ v \in Contents /\ e \in SUBSET Chunks /\ z \in Int
    BY <1>1, <1>2, <2>1, <2>2
  <2> QED BY ZenonT(60), <2>3, <2>4 DEF Local
<1> QED BY <1>3 DEF Returned, Local, SameRun

LEMMA KeepFacts ==
  ASSUME NEW r \in Local
  PROVE  /\ Keep(r) \in Local /\ SameRun(r, Keep(r)) /\ Keep(r).pc = r.pc
         /\ Keep(r).vals = r.vals /\ Keep(r).answer = r.answer
         /\ \A c \in r.need : Keep(r).cached[c] = IF is({"PSMapNone", "PSChunkNone", "PSWorker"})
                                                  THEN r.answer.vals[c] ELSE r.vals[c]
         /\ \A c \in Chunks \ r.need :
              Keep(r).cached[c] = IF is({"PSMapNone"}) /\ r.need = r.keys THEN None ELSE r.cached[c]
         /\ Keep(r).cache_ts_ = IF is({"PSMapNone"}) /\ r.need = r.keys THEN r.pull_count_
                                ELSE IF is({"PSMapChunk"}) /\ r.need = r.keys THEN r.label
                                ELSE r.cache_ts_
         /\ \A c \in Chunks : Keep(r).chunk_clocks_[c] =
              IF is({"PSChunkNone"}) /\ c \in r.need THEN r.answer.clock ELSE r.chunk_clocks_[c]
<1> DEFINE Good(t) ==
         /\ t \in Local /\ SameRun(r, t) /\ t.pc = r.pc
         /\ t.vals = r.vals /\ t.answer = r.answer
         /\ \A c \in r.need : t.cached[c] = IF is({"PSMapNone", "PSChunkNone", "PSWorker"})
                                            THEN r.answer.vals[c] ELSE r.vals[c]
         /\ \A c \in Chunks \ r.need :
              t.cached[c] = IF is({"PSMapNone"}) /\ r.need = r.keys THEN None ELSE r.cached[c]
         /\ t.cache_ts_ = IF is({"PSMapNone"}) /\ r.need = r.keys THEN r.pull_count_
                          ELSE IF is({"PSMapChunk"}) /\ r.need = r.keys THEN r.label
                          ELSE r.cache_ts_
         /\ \A c \in Chunks : t.chunk_clocks_[c] =
              IF is({"PSChunkNone"}) /\ c \in r.need THEN r.answer.clock ELSE r.chunk_clocks_[c]
<1>1. /\ None \in Values /\ r.answer.vals \in [Chunks -> Values] /\ r.vals \in [Chunks -> Values]
      /\ r.cached \in [Chunks -> Values] /\ r.need \subseteq Chunks
  BY ValueFacts DEF Local, Contents
<1>2. ASSUME NEW vals \in [Chunks -> Values], NEW ts \in Int, NEW b \in BOOLEAN
      PROVE  LET t == KeepMap(r, vals, ts, b) IN
             /\ t \in Local /\ SameRun(r, t) /\ t.pc = r.pc /\ t.vals = r.vals /\ t.answer = r.answer
             /\ \A c \in r.need : t.cached[c] = vals[c]
             /\ \A c \in Chunks \ r.need :
                  t.cached[c] = IF b /\ r.need = r.keys THEN None ELSE r.cached[c]
             /\ t.cache_ts_ = IF r.need = r.keys THEN ts ELSE r.cache_ts_
             /\ t.chunk_clocks_ = r.chunk_clocks_
  <2> DEFINE x == [c \in Chunks |-> IF c \in r.need THEN vals[c]
                                    ELSE IF r.need = r.keys /\ b THEN None ELSE r.cached[c]]
             y == IF r.need = r.keys THEN ts ELSE r.cache_ts_
             t == [r EXCEPT !.cached = x, !.cache_ts_ = y]
  <2>1. x \in Contents /\ y \in Int
    BY <1>1, <1>2 DEF Contents, Local
  <2>2. KeepMap(r, vals, ts, b) = t
    BY DEF KeepMap, Local
  <2>3. /\ t \in Local /\ SameRun(r, t) /\ t.pc = r.pc /\ t.vals = r.vals /\ t.answer = r.answer
        /\ t.cached = x /\ t.cache_ts_ = y /\ t.chunk_clocks_ = r.chunk_clocks_
    <3> HIDE DEF x, y
    <3> QED BY <2>1 DEF Local, SameRun
  <2> HIDE DEF t
  <2> QED BY <1>1, <2>2, <2>3
<1>3. ASSUME NEW vals \in [Chunks -> Values]
      PROVE  LET t == KeepChunks(r, vals) IN
             /\ t \in Local /\ SameRun(r, t) /\ t.pc = r.pc /\ t.vals = r.vals /\ t.answer = r.answer
             /\ \A c \in r.need : t.cached[c] = vals[c]
             /\ \A c \in Chunks \ r.need : t.cached[c] = r.cached[c]
             /\ t.cache_ts_ = r.cache_ts_ /\ t.chunk_clocks_ = r.chunk_clocks_
  <2> DEFINE x == [c \in Chunks |-> IF c \in r.need THEN vals[c] ELSE r.cached[c]]
             t == [r EXCEPT !.cached = x]
  <2>1. x \in Contents
    BY <1>1, <1>3 DEF Contents, Local
  <2>2. KeepChunks(r, vals) = t
    BY DEF KeepChunks, Local
  <2>3. /\ t \in Local /\ SameRun(r, t) /\ t.pc = r.pc /\ t.vals = r.vals /\ t.answer = r.answer
        /\ t.cached = x /\ t.cache_ts_ = r.cache_ts_ /\ t.chunk_clocks_ = r.chunk_clocks_
    <3> HIDE DEF x
    <3> QED BY <2>1 DEF Local, SameRun
  <2> HIDE DEF t
  <2> QED BY <1>1, <2>2, <2>3
<1>4. CASE is({"PSMapNone"})
  <2>1. Keep(r) = KeepMap(r, r.answer.vals, r.pull_count_, TRUE)
    BY <1>4 DEF Keep, KeepMapNone, is
  <2>2. r.pull_count_ \in Int
    BY DEF Local
  <2>3. is({"PSMapNone", "PSChunkNone", "PSWorker"}) /\ ~is({"PSMapChunk"}) /\ ~is({"PSChunkNone"})
    BY <1>4 DEF is
  <2>4. PICK t : t = KeepMap(r, r.answer.vals, r.pull_count_, TRUE)
    OBVIOUS
  <2>5. /\ t \in Local /\ SameRun(r, t) /\ t.pc = r.pc /\ t.vals = r.vals /\ t.answer = r.answer
        /\ \A c \in r.need : t.cached[c] = r.answer.vals[c]
        /\ \A c \in Chunks \ r.need :
             t.cached[c] = IF TRUE /\ r.need = r.keys THEN None ELSE r.cached[c]
        /\ t.cache_ts_ = IF r.need = r.keys THEN r.pull_count_ ELSE r.cache_ts_
        /\ t.chunk_clocks_ = r.chunk_clocks_
    BY <1>1, <1>2, <2>2, <2>4
  <2>6. Good(t)
    BY <1>4, <2>3, <2>5
  <2> QED BY <2>1, <2>4, <2>6
<1>5. CASE is({"PSMapChunk"})
  <2>1. Keep(r) = KeepMap(r, r.vals, r.label, FALSE)
    BY <1>5 DEF Keep, KeepMapChunk, is
  <2>2. r.label \in Int
    BY DEF Local
  <2>3. ~is({"PSMapNone", "PSChunkNone", "PSWorker"}) /\ ~is({"PSMapNone"}) /\ ~is({"PSChunkNone"})
    BY <1>5 DEF is
  <2>4. Good(KeepMap(r, r.vals, r.label, FALSE))
    BY ZenonT(60), <1>1, <1>2, <1>5, <2>2, <2>3
  <2> QED BY <2>1, <2>4
<1>6. CASE is({"PSChunkNone"})
  <2> DEFINE t == KeepChunks(r, r.answer.vals)
             x == [c \in Chunks |-> IF c \in r.need THEN r.answer.clock ELSE t.chunk_clocks_[c]]
  <2>1. Keep(r) = [t EXCEPT !.chunk_clocks_ =
                     [c \in Chunks |-> IF c \in r.need THEN r.answer.clock ELSE @[c]]]
    BY <1>6 DEF Keep, KeepChunkNone, is
  <2>2. /\ t \in Local /\ SameRun(r, t) /\ t.pc = r.pc /\ t.vals = r.vals /\ t.answer = r.answer
        /\ \A c \in r.need : t.cached[c] = r.answer.vals[c]
        /\ \A c \in Chunks \ r.need : t.cached[c] = r.cached[c]
        /\ t.cache_ts_ = r.cache_ts_ /\ t.chunk_clocks_ = r.chunk_clocks_
    BY <1>1, <1>3
  <2> HIDE DEF t
  <2>3. Keep(r) = [t EXCEPT !.chunk_clocks_ = x]
    BY <2>1, <2>2 DEF Local
  <2>4. x \in [Chunks -> Int]
    BY <1>1, <2>2 DEF Local
  <2> HIDE DEF x
  <2>5. PICK z : z = [t EXCEPT !.chunk_clocks_ = x]
    OBVIOUS
  <2>6. z \in Local /\ SameRun(r, z) /\ z.pc = r.pc /\ z.vals = r.vals /\ z.answer = r.answer
        /\ z.cached = t.cached /\ z.cache_ts_ = t.cache_ts_ /\ z.chunk_clocks_ = x
    BY <2>2, <2>4, <2>5 DEF Local, SameRun
  <2>7. is({"PSMapNone", "PSChunkNone", "PSWorker"}) /\ ~is({"PSMapNone"}) /\ ~is({"PSMapChunk"})
    BY <1>6 DEF is
  <2>8. \A c \in Chunks : x[c] = IF c \in r.need THEN r.answer.clock ELSE r.chunk_clocks_[c]
    BY <2>2 DEF x
  <2>9. Good(z)
    BY <1>6, <2>2, <2>6, <2>7, <2>8
  <2> QED BY <2>3, <2>5, <2>9
<1>7. CASE is({"PSWorker"})
  <2>1. Keep(r) = KeepChunks(r, r.answer.vals)
    BY <1>7 DEF Keep, is
  <2>2. is({"PSMapNone", "PSChunkNone", "PSWorker"}) /\ ~is({"PSMapNone"}) /\ ~is({"PSMapChunk"})
        /\ ~is({"PSChunkNone"})
    BY <1>7 DEF is
  <2>3. Good(KeepChunks(r, r.answer.vals))
    BY <1>1, <1>3, <2>2
  <2> QED BY <2>1, <2>3
<1>8. CASE ~is({"PSMapNone", "PSChunkNone", "PSWorker", "PSMapChunk"})
  <2>1. Keep(r) = KeepChunks(r, r.vals)
    BY <1>8 DEF Keep, is
  <2>2. ~is({"PSMapNone", "PSChunkNone", "PSWorker"}) /\ ~is({"PSMapNone"}) /\ ~is({"PSMapChunk"})
        /\ ~is({"PSChunkNone"})
    BY <1>8 DEF is
  <2>3. Good(KeepChunks(r, r.vals))
    BY <1>1, <1>3, <2>2
  <2> QED BY <2>1, <2>3
<1> QED BY <1>4, <1>5, <1>6, <1>7, <1>8 DEF is

\* A worker that has returned from its pull asks nothing more of the caches.
LEMMA ReturnFetches ==
  ASSUME FetchInv, NEW w \in Workers, NEW r \in Local, r.pc = "push", SameRun(ws[w], r),
         ws[w].pc # "idle", ws[w].wait = {},
         Buffered => ws[w].pull_count_ - s <= min_clock,
         is({"PSMapChunk"}) => r.cache_ts_ <= min_clock
  PROVE  Fetching(r, sent[w], pushed, min_clock)
<1>1. ws[w] \in Local /\ Placed(ws[w]) /\ Counted(ws[w], sent[w])
  BY WorkerFacts
<1>2. Counted(r, sent[w])
  BY <1>1 DEF Counted, SameRun, Local
<1>3. Placed(r)
  BY <1>1 DEF Placed, SameRun, Pulling
<1>4. Early(r, min_clock) /\ Answered(r, sent[w], pushed, min_clock)
  BY DEF Early, Answered, SameRun
<1> QED BY <1>2, <1>3, <1>4 DEF Fetching

\* The record of a worker whose fetch has been answered.
Arrived(w) ==
  [ws[w] EXCEPT !.pc = "install", !.todo = ws[w].fetch,
     !.answer = [clock |-> min_clock,
                 vals |-> [c \in Chunks |-> IF c \in ws[w].fetch THEN Visible(w, c) ELSE None]]]

LEMMA ArrivedFacts ==
  ASSUME FetchInv, NEW w \in Workers, At(w, "fetch")
  PROVE  /\ Arrived(w) \in Local /\ SameRun(ws[w], Arrived(w)) /\ Arrived(w).pc = "install"
         /\ Arrived(w).need = ws[w].need /\ Arrived(w).fetch = ws[w].fetch
         /\ Arrived(w).wait = ws[w].wait /\ Arrived(w).todo = ws[w].fetch
         /\ Arrived(w).cached = ws[w].cached /\ Arrived(w).chunk_clocks_ = ws[w].chunk_clocks_
         /\ Arrived(w).cache_ts_ = ws[w].cache_ts_ /\ Arrived(w).vals = ws[w].vals
         /\ Arrived(w).label = ws[w].label
         /\ Arrived(w).answer.clock = min_clock
         /\ \A c \in ws[w].fetch :
              /\ Arrived(w).answer.vals[c] = Visible(w, c) /\ Visible(w, c) # None
              /\ Has(pushed[c], min_clock, Visible(w, c), min_clock)
         /\ \A c \in Chunks \ ws[w].fetch : Arrived(w).answer.vals[c] = None
<1>1. ws[w] \in Local /\ Placed(ws[w]) /\ min_clock \in Nat
  BY WorkerFacts
<1>2. ~is({"PSBsp"}) /\ ws[w].fetch \subseteq Chunks
  BY <1>1 DEF Placed, Pulling, At, Local
<1>3. \A c \in ws[w].fetch : /\ Visible(w, c) \in Values /\ Visible(w, c) # None
                             /\ Has(pushed[c], min_clock, Visible(w, c), min_clock)
  BY <1>2, AnswerHas, ValueFacts
<1> DEFINE v == [c \in Chunks |-> IF c \in ws[w].fetch THEN Visible(w, c) ELSE None]
<1>4. v \in Contents
  BY <1>3, ValueFacts DEF Contents
<1>5. /\ \A c \in ws[w].fetch : v[c] = Visible(w, c)
      /\ \A c \in Chunks \ ws[w].fetch : v[c] = None
  BY <1>2
<1>6. Arrived(w) = [ws[w] EXCEPT !.pc = "install", !.todo = ws[w].fetch,
                      !.answer = [clock |-> min_clock, vals |-> v]]
  BY DEF Arrived
<1> HIDE DEF v
<1>7. PICK a : a = [clock |-> min_clock, vals |-> v]
  OBVIOUS
<1>8. a \in [clock : Nat, vals : Contents] /\ a.clock = min_clock /\ a.vals = v
  BY <1>1, <1>4, <1>7
<1>9. Arrived(w) = [ws[w] EXCEPT !.pc = "install", !.todo = ws[w].fetch, !.answer = a]
  BY <1>6, <1>7
<1>10. Arrived(w) \in Local
  BY <1>1, <1>8, <1>9 DEF Local, Pulling
<1>11. /\ SameRun(ws[w], Arrived(w)) /\ Arrived(w).pc = "install"
       /\ Arrived(w).need = ws[w].need /\ Arrived(w).fetch = ws[w].fetch
       /\ Arrived(w).wait = ws[w].wait /\ Arrived(w).todo = ws[w].fetch
       /\ Arrived(w).cached = ws[w].cached /\ Arrived(w).chunk_clocks_ = ws[w].chunk_clocks_
       /\ Arrived(w).cache_ts_ = ws[w].cache_ts_ /\ Arrived(w).vals = ws[w].vals
       /\ Arrived(w).label = ws[w].label
       /\ Arrived(w).answer = a
  BY <1>1, <1>9 DEF Local, SameRun
<1> QED BY <1>3, <1>5, <1>8, <1>10, <1>11

LEMMA FetchFetches ==
  ASSUME FetchInv, NEW w \in Workers, Fetch(w)
  PROVE  FetchInv'
<1> DEFINE old == ws[w]
           r == Arrived(w)
<1>1. /\ old \in Local /\ Placed(old) /\ Counted(old, sent[w]) /\ sent[w] \in Nat
      /\ table \in Tables /\ TypeOK /\ Fetching(old, sent[w], pushed, min_clock)
      /\ min_clock \in Nat /\ s \in Nat
  BY WorkerFacts
<1>2. old.pc = "fetch" /\ At(w, "fetch") /\ sent[w] - s <= min_clock
  BY DEF Fetch, At, Answers
<1>3. /\ r \in Local /\ SameRun(old, r) /\ r.pc = "install" /\ r.need = old.need
      /\ r.fetch = old.fetch /\ r.wait = old.wait /\ r.todo = old.fetch
      /\ r.cache_ts_ = old.cache_ts_ /\ r.answer.clock = min_clock
      /\ \A c \in old.fetch : /\ r.answer.vals[c] # None
                              /\ Has(pushed[c], min_clock, r.answer.vals[c], min_clock)
  BY <1>2, ArrivedFacts
<1>4. Becomes(w, IF is({"PSWorker", "PSMapNone", "PSChunkNone"}) THEN Returned(Keep(r)) ELSE r)
  BY <1>2 DEF Fetch, Becomes, Arrived
<1>5. /\ UNCHANGED <<clock, sent, messages, pushed, cache>> /\ bsp' \in BspState /\ bsp'.params_ = bsp.params_
  BY <1>1 DEF Fetch, server, TypeOK
<1> HIDE DEF r
<1>6. CASE is({"PSWorker", "PSMapNone", "PSChunkNone"})
  <2>1. PICK t : t = Returned(Keep(r))
    OBVIOUS
  <2>2. t \in Local /\ t.pc = "push" /\ SameRun(old, t)
    BY <1>3, <2>1, KeepFacts, ReturnedFacts DEF SameRun
  <2>3. ~Buffered /\ ~is({"PSMapChunk"}) /\ ~Managed
    BY <1>6 DEF Buffered, is, Managed
  <2>4. Fetching(t, sent[w], pushed, min_clock)
    <3>1. old.wait = {}
      BY <1>1, <1>2, <2>3 DEF Placed
    <3> QED BY <1>2, <2>2, <2>3, <3>1, ReturnFetches
  <2>5. Becomes(w, t)
    BY <1>4, <1>6, <2>1
  <2>6. t.push_count_ = old.push_count_
    BY <2>2 DEF SameRun
  <2> QED BY <1>2, <1>5, <2>2, <2>4, <2>5, <2>6, LocalStep
<1>7. CASE ~is({"PSWorker", "PSMapNone", "PSChunkNone"})
  <2>1. Counted(r, sent[w])
    BY <1>1, <1>2, <1>3 DEF Counted, SameRun
  <2>2. OverCache
    BY <1>1, <1>2, <1>7, TableFacts DEF OverCache, is, Types, Placed, Pulling
  <2>3. Placed(r)
    BY <1>1, <1>2, <1>3, <2>2 DEF Placed, Pulling, SameRun
  <2>4. Early(r, min_clock)
    BY <1>1, <1>2, <1>3 DEF Early, Counted, SameRun
  <2>5. is({"PSMapChunk"}) => old.cache_ts_ <= min_clock
    BY <1>1 DEF Fetching
  <2>6. Answered(r, sent[w], pushed, min_clock)
    BY <1>1, <1>2, <1>3, <2>5 DEF Answered
  <2>7. Fetching(r, sent[w], pushed, min_clock)
    BY <1>3, <2>1, <2>3, <2>4, <2>5, <2>6 DEF Fetching
  <2>8. Becomes(w, r)
    BY <1>4, <1>7
  <2>9. r.push_count_ = old.push_count_
    BY <1>3 DEF SameRun
  <2> QED BY <1>2, <1>3, <1>5, <2>7, <2>8, <2>9, LocalStep
<1> QED BY <1>6, <1>7

\* InstallProcess stores what is newer, for the first chunk still to do.
LEMMA InstallFacts ==
  ASSUME FetchInv, NEW w \in Workers, InstallProcess(w)
  PROVE  \E c \in ws[w].todo, l \in {"install", "release", "copy"} :
           LET todo == IF l = "copy" THEN ws[w].need ELSE ws[w].todo \ {c} IN
           /\ l = IF ws[w].todo \ {c} # {} THEN "install" ELSE IF Managed THEN "release" ELSE "copy"
           /\ Becomes(w, [ws[w] EXCEPT !.pc = l, !.todo = todo])
           /\ [ws[w] EXCEPT !.pc = l, !.todo = todo] \in Local
           /\ DOMAIN cache' = DOMAIN cache /\ cache'.buffer = cache.buffer
           /\ cache'.params_ \in Contents /\ cache'.chunk_clocks_ \in [Chunks -> Int]
           /\ \A d \in Chunks :
                LET new == d = c /\ cache.chunk_clocks_[c] < ws[w].answer.clock IN
                /\ cache'.params_[d] = IF new THEN ws[w].answer.vals[c] ELSE cache.params_[d]
                /\ cache'.chunk_clocks_[d] = IF new THEN ws[w].answer.clock
                                             ELSE cache.chunk_clocks_[d]
           /\ UNCHANGED <<table, clock, sent, messages, bsp, pushed>>
<1> DEFINE old == ws[w]
           c == Min(old.todo)
           l == IF old.todo \ {c} # {} THEN "install" ELSE IF Managed THEN "release" ELSE "copy"
           todo == IF l = "copy" THEN old.need ELSE old.todo \ {c}
<1>1. old \in Local /\ Placed(old) /\ TypeOK
  BY WorkerFacts
<1>2. old.pc = "install"
  BY DEF InstallProcess, At
<1>3. old.todo # {} /\ old.todo \in SUBSET Nat /\ old.todo \subseteq Chunks
  BY <1>1, <1>2, PSAssumption DEF Placed, Local
<1>4. c \in old.todo /\ c \in Chunks
  BY <1>3, MinOf
<1>5. Becomes(w, [old EXCEPT !.pc = l, !.todo = todo])
  BY <1>1 DEF InstallProcess, Becomes, TypeOK, Local
<1>6. cache' = [cache EXCEPT
          !.params_[c] = IF Newer(w, c) THEN old.answer.vals[c] ELSE @,
          !.chunk_clocks_[c] = NewClock(w, c)]
  BY DEF InstallProcess
<1>7. UNCHANGED <<table, clock, sent, messages, bsp, pushed>>
  BY DEF InstallProcess, server
<1> HIDE DEF c
<1>8. /\ DOMAIN cache = {"params_", "chunk_clocks_", "fetch_mgr_", "asleep", "buffer"}
      /\ cache.params_ \in [Chunks -> Values] /\ cache.chunk_clocks_ \in [Chunks -> Int]
  BY <1>1 DEF TypeOK, NewCache, Contents
<1>9. old.answer.vals[c] \in Values /\ old.answer.clock \in Int
  BY <1>1, <1>4 DEF Local, Contents
<1>10. /\ DOMAIN cache' = DOMAIN cache /\ cache'.buffer = cache.buffer
       /\ cache'.params_ = [cache.params_ EXCEPT ![c] = IF Newer(w, c) THEN old.answer.vals[c] ELSE @]
       /\ cache'.chunk_clocks_ = [cache.chunk_clocks_ EXCEPT ![c] = NewClock(w, c)]
  BY <1>6, <1>8
<1>11. cache'.params_ \in Contents /\ cache'.chunk_clocks_ \in [Chunks -> Int]
  BY <1>8, <1>9, <1>10 DEF NewClock, Contents
<1>12. \A d \in Chunks :
                LET new == d = c /\ cache.chunk_clocks_[c] < old.answer.clock IN
                /\ cache'.params_[d] = IF new THEN old.answer.vals[c] ELSE cache.params_[d]
                /\ cache'.chunk_clocks_[d] = IF new THEN old.answer.clock
                                             ELSE cache.chunk_clocks_[d]
  BY <1>4, <1>8, <1>10 DEF NewClock, Newer
<1>13. [old EXCEPT !.pc = l, !.todo = todo] \in Local
  BY <1>1 DEF Local, Pulling
<1>14. l \in {"install", "release", "copy"}
  OBVIOUS
<1> QED BY <1>4, <1>5, <1>7, <1>10, <1>11, <1>12, <1>13, <1>14

LEMMA InstallFetches ==
  ASSUME FetchInv, NEW w \in Workers, InstallProcess(w)
  PROVE  FetchInv'
<1> DEFINE old == ws[w]
<1>1. /\ old \in Local /\ Placed(old) /\ Counted(old, sent[w]) /\ sent[w] \in Nat
      /\ table \in Tables /\ TypeOK /\ Fetching(old, sent[w], pushed, min_clock)
      /\ min_clock \in Nat /\ s \in Nat
  BY WorkerFacts
<1>2. old.pc = "install"
  BY DEF InstallProcess, At
<1>3. PICK c \in old.todo, l \in {"install", "release", "copy"} :
           LET todo == IF l = "copy" THEN old.need ELSE old.todo \ {c} IN
           /\ l = IF old.todo \ {c} # {} THEN "install" ELSE IF Managed THEN "release" ELSE "copy"
           /\ Becomes(w, [old EXCEPT !.pc = l, !.todo = todo])
           /\ [old EXCEPT !.pc = l, !.todo = todo] \in Local
           /\ DOMAIN cache' = DOMAIN cache /\ cache'.buffer = cache.buffer
           /\ cache'.params_ \in Contents /\ cache'.chunk_clocks_ \in [Chunks -> Int]
           /\ \A d \in Chunks :
                LET new == d = c /\ cache.chunk_clocks_[c] < old.answer.clock IN
                /\ cache'.params_[d] = IF new THEN old.answer.vals[c] ELSE cache.params_[d]
                /\ cache'.chunk_clocks_[d] = IF new THEN old.answer.clock
                                             ELSE cache.chunk_clocks_[d]
           /\ UNCHANGED <<table, clock, sent, messages, bsp, pushed>>
  BY InstallFacts
<1> DEFINE todo == IF l = "copy" THEN old.need ELSE old.todo \ {c}
           r == [old EXCEPT !.pc = l, !.todo = todo]
<1>4. r \in Local /\ Becomes(w, r)
  BY <1>3
<1>5. /\ r.pc = l /\ r.todo = todo /\ SameRun(old, r) /\ r.need = old.need /\ r.fetch = old.fetch
      /\ r.wait = old.wait /\ r.answer = old.answer /\ r.cache_ts_ = old.cache_ts_
  BY <1>1 DEF Local, SameRun
<1>6. /\ l = IF old.todo \ {c} # {} THEN "install" ELSE IF Managed THEN "release" ELSE "copy"
      /\ UNCHANGED <<table, clock, sent, messages, bsp, pushed>>
  BY <1>3
<1> HIDE DEF r
<1>7. Counted(r, sent[w])
  BY <1>1, <1>2, <1>3, <1>5 DEF Counted, SameRun
<1>8. Placed(r)
  BY <1>1, <1>2, <1>3, <1>5, <1>6 DEF Placed, Pulling, SameRun
<1>9. Early(r, min_clock)
  BY <1>1, <1>2, <1>5 DEF Fetching, Early, SameRun
<1>10. Answered(r, sent[w], pushed, min_clock)
  BY <1>1, <1>2, <1>3, <1>5 DEF Fetching, Answered, SameRun
<1>11. Fetching(r, sent[w], pushed, min_clock)
  BY <1>1, <1>5, <1>7, <1>8, <1>9, <1>10 DEF Fetching
<1>12. CacheHolds'
  <2>1. Lead' = Lead /\ min_clock' = min_clock
    BY <1>6 DEF s, Lead, Buffered, is, min_clock
  <2>2. old.answer.clock \in Nat /\ old.todo \subseteq Chunks
    BY <1>1 DEF Local
  <2>3. old.answer.vals[c] # None /\ Has(pushed[c], min_clock, old.answer.vals[c], old.answer.clock)
    BY <1>1, <1>2, <1>3 DEF Fetching, Answered, Placed
  <2>4. \A d \in Chunks :
          /\ cache'.chunk_clocks_[d] >= -1
          /\ cache'.chunk_clocks_[d] >= 0 => cache'.params_[d] # None
          /\ Has(pushed[d], min_clock, cache'.params_[d], cache'.chunk_clocks_[d])
    <3> TAKE d \in Chunks
    <3>1. /\ cache.chunk_clocks_[d] >= -1 /\ (cache.chunk_clocks_[d] >= 0 => cache.params_[d] # None)
          /\ Has(pushed[d], min_clock, cache.params_[d], cache.chunk_clocks_[d])
      BY DEF FetchInv, CacheHolds
    <3>2. CASE d = c /\ cache.chunk_clocks_[c] < old.answer.clock
      <4>1. cache'.params_[d] = old.answer.vals[c] /\ cache'.chunk_clocks_[d] = old.answer.clock
        BY <1>3, <3>2
      <4> QED BY <2>2, <2>3, <3>2, <4>1
    <3>3. CASE ~(d = c /\ cache.chunk_clocks_[c] < old.answer.clock)
      <4>1. cache'.params_[d] = cache.params_[d] /\ cache'.chunk_clocks_[d] = cache.chunk_clocks_[d]
        BY <1>3, <3>3
      <4> QED BY <3>1, <4>1
    <3> QED BY <3>2, <3>3
  <2> QED BY <1>6, <2>1, <2>4 DEF CacheHolds, Has
<1>13. /\ clock' = clock /\ sent' = sent /\ messages' = messages /\ pushed' = pushed /\ bsp' \in BspState
       /\ bsp'.params_ = bsp.params_
  BY <1>1, <1>6 DEF TypeOK
<1>14. r.push_count_ = old.push_count_
  BY <1>5 DEF SameRun
<1>15. /\ DOMAIN cache' = DOMAIN cache /\ cache'.buffer = cache.buffer
       /\ cache'.params_ \in Contents /\ cache'.chunk_clocks_ \in [Chunks -> Int]
  BY <1>3
<1> QED BY <1>2, <1>4, <1>11, <1>12, <1>13, <1>14, <1>15, QuietStep

LEMMA ReleaseFetches ==
  ASSUME FetchInv, NEW w \in Workers, Release(w)
  PROVE  FetchInv'
<1> DEFINE old == ws[w]
           r == [old EXCEPT !.fetch = old.wait, !.wait = {}, !.todo = old.need,
                   !.pc = IF old.wait = {} THEN "copy" ELSE "manage"]
<1>1. /\ old \in Local /\ Placed(old) /\ Counted(old, sent[w]) /\ sent[w] \in Nat
      /\ table \in Tables /\ TypeOK /\ Fetching(old, sent[w], pushed, min_clock)
      /\ min_clock \in Nat /\ s \in Nat
  BY WorkerFacts
<1>2. old.pc = "release"
  BY DEF Release, At
<1>3. Becomes(w, r)
  BY <1>1 DEF Release, Becomes, TypeOK, Local
<1>4. r \in Local
  BY <1>1 DEF Local, Pulling
<1>5. /\ DOMAIN cache' = DOMAIN cache /\ cache'.buffer = cache.buffer
      /\ cache'.params_ = cache.params_ /\ cache'.chunk_clocks_ = cache.chunk_clocks_
  BY <1>1 DEF Release, TypeOK, NewCache
<1>6. Counted(r, sent[w])
  BY <1>1, <1>2 DEF Counted, Local
<1>7. Placed(r)
  BY <1>1, <1>2 DEF Placed, Pulling, Local
<1>8. Early(r, min_clock)
  BY <1>1, <1>2 DEF Fetching, Early, Local
<1>9. Answered(r, sent[w], pushed, min_clock)
  BY <1>1 DEF Answered, Local
<1>10. Fetching(r, sent[w], pushed, min_clock)
  BY <1>1, <1>6, <1>7, <1>8, <1>9 DEF Fetching, Local
<1>11. r.push_count_ = old.push_count_ /\ old.pc \notin {"pushing", "send"}
  BY <1>1, <1>2 DEF Local
<1>12. clock' = clock /\ sent' = sent /\ messages' = messages /\ pushed' = pushed /\ bsp' = bsp /\ table' = table
  BY DEF Release, server
<1>13. bsp' \in BspState /\ bsp'.params_ = bsp.params_ /\ cache'.params_ \in Contents
       /\ cache'.chunk_clocks_ \in [Chunks -> Int]
  BY <1>1, <1>5, <1>12 DEF TypeOK
<1>14. CacheHolds'
  <2>1. min_clock' = min_clock
    BY <1>12 DEF min_clock
  <2>2. Later(pushed, min_clock, pushed', min_clock')
    BY <1>1, <1>12, <2>1 DEF Later, TypeOK
  <2>3. clock' \in [Workers -> Nat] /\ \A u \in Workers : clock[u] <= clock'[u]
    BY <1>1, <1>12 DEF TypeOK
  <2> QED BY <1>5, <1>12, <2>2, <2>3, CacheKept
<1> HIDE DEF r
<1> QED BY <1>3, <1>4, <1>5, <1>10, <1>11, <1>12, <1>13, <1>14, QuietStep

\* CopyChunk copies the first chunk still to do.
CopiedChunk(w, c) ==
  [ws[w] EXCEPT !.todo = ws[w].todo \ {c},
     !.vals = [ws[w].vals EXCEPT ![c] = cache.params_[c]],
     !.label = IF ws[w].todo = ws[w].need THEN cache.chunk_clocks_[c]
               ELSE Min({ws[w].label, cache.chunk_clocks_[c]}),
     !.chunk_clocks_ = IF is({"PSChunkChunk"})
                       THEN [ws[w].chunk_clocks_ EXCEPT ![c] = cache.chunk_clocks_[c]]
                       ELSE ws[w].chunk_clocks_]

LEMMA CopyFacts ==
  ASSUME FetchInv, NEW w \in Workers, CopyChunk(w)
  PROVE  \E c \in ws[w].todo :
           LET r == CopiedChunk(w, c) IN
           /\ Becomes(w, IF ws[w].todo \ {c} = {} THEN Returned(Keep(r)) ELSE r)
           /\ r \in Local /\ SameRun(ws[w], r) /\ r.pc = "copy"
           /\ r.need = ws[w].need /\ r.fetch = ws[w].fetch /\ r.wait = ws[w].wait
           /\ r.answer = ws[w].answer /\ r.cached = ws[w].cached /\ r.cache_ts_ = ws[w].cache_ts_
           /\ r.todo = ws[w].todo \ {c}
           /\ r.label <= cache.chunk_clocks_[c]
           /\ IF ws[w].todo = ws[w].need THEN r.label = cache.chunk_clocks_[c]
              ELSE r.label <= ws[w].label /\ r.label \in {ws[w].label, cache.chunk_clocks_[c]}
           /\ \A d \in Chunks :
                /\ r.vals[d] = IF d = c THEN cache.params_[c] ELSE ws[w].vals[d]
                /\ r.chunk_clocks_[d] = IF d = c /\ is({"PSChunkChunk"}) THEN cache.chunk_clocks_[c]
                                        ELSE ws[w].chunk_clocks_[d]
<1> DEFINE old == ws[w]
           c == Min(old.todo)
<1>1. old \in Local /\ Placed(old) /\ TypeOK
  BY WorkerFacts
<1>2. old.pc = "copy"
  BY DEF CopyChunk, At
<1>3. old.todo # {} /\ old.todo \in SUBSET Nat /\ old.todo \subseteq Chunks
  BY <1>1, <1>2, PSAssumption DEF Placed, Local
<1>4. c \in old.todo /\ c \in Chunks
  BY <1>3, MinOf
<1>5. \E t : /\ t = [old EXCEPT !.todo = old.todo \ {c},
                   !.vals[c] = cache.params_[c],
                   !.label = IF old.todo = old.need THEN cache.chunk_clocks_[c]
                             ELSE Min({@, cache.chunk_clocks_[c]}),
                   !.chunk_clocks_[c] = IF is({"PSChunkChunk"}) THEN cache.chunk_clocks_[c] ELSE @]
            /\ ws' = [ws EXCEPT ![w] = IF old.todo \ {c} = {} THEN Returned(Keep(t)) ELSE t]
  BY SMTT(40) DEF CopyChunk
<1> HIDE DEF c
<1>6. /\ cache.params_ \in [Chunks -> Values] /\ cache.chunk_clocks_ \in [Chunks -> Int]
      /\ old.vals \in [Chunks -> Values] /\ old.chunk_clocks_ \in [Chunks -> Int]
      /\ old.label \in Int
  BY <1>1 DEF TypeOK, Contents, Local
<1>7. PICK label : label = cache.chunk_clocks_[c]
  OBVIOUS
<1>8. PICK z : z = IF old.todo = old.need THEN label ELSE Min({old.label, label})
  OBVIOUS
<1>9. label \in Int /\ z \in Int /\ z <= label
      /\ IF old.todo = old.need THEN z = label ELSE z <= old.label /\ z \in {old.label, label}
  BY <1>4, <1>6, <1>7, <1>8, MinOfTwo
<1>10. PICK v, x : /\ v = [old.vals EXCEPT ![c] = cache.params_[c]]
                   /\ x = IF is({"PSChunkChunk"}) THEN [old.chunk_clocks_ EXCEPT ![c] = label]
                          ELSE old.chunk_clocks_
  OBVIOUS
<1>11. /\ v \in Contents /\ x \in [Chunks -> Int]
       /\ \A d \in Chunks : /\ v[d] = IF d = c THEN cache.params_[c] ELSE old.vals[d]
                            /\ x[d] = IF d = c /\ is({"PSChunkChunk"}) THEN label
                                      ELSE old.chunk_clocks_[d]
  BY <1>4, <1>6, <1>9, <1>10 DEF Contents
<1>12. CopiedChunk(w, c) = [old EXCEPT !.todo = old.todo \ {c}, !.vals = v, !.label = z,
                                       !.chunk_clocks_ = x]
  BY <1>7, <1>8, <1>10 DEF CopiedChunk
<1>13. [old EXCEPT !.todo = old.todo \ {c},
                   !.vals[c] = cache.params_[c],
                   !.label = IF old.todo = old.need THEN cache.chunk_clocks_[c]
                             ELSE Min({@, cache.chunk_clocks_[c]}),
                   !.chunk_clocks_[c] = IF is({"PSChunkChunk"}) THEN cache.chunk_clocks_[c] ELSE @]
          = CopiedChunk(w, c)
  BY ZenonT(60), <1>1, <1>4, <1>6, <1>7, <1>8, <1>10, <1>12 DEF Local
<1>14. PICK r : r = CopiedChunk(w, c)
  OBVIOUS
<1>15. ws' = [ws EXCEPT ![w] = IF old.todo \ {c} = {} THEN Returned(Keep(r)) ELSE r]
  BY <1>5, <1>13, <1>14
<1>16. Becomes(w, IF old.todo \ {c} = {} THEN Returned(Keep(r)) ELSE r)
  BY <1>15 DEF Becomes, CopyChunk
<1>a. r \in Local
  BY ZenonT(60), <1>1, <1>9, <1>11, <1>12, <1>14 DEF Local
<1>17. /\ r \in Local /\ SameRun(old, r) /\ r.pc = "copy"
       /\ r.need = old.need /\ r.fetch = old.fetch /\ r.wait = old.wait
       /\ r.answer = old.answer /\ r.cached = old.cached /\ r.cache_ts_ = old.cache_ts_
       /\ r.todo = old.todo \ {c} /\ r.label = z /\ r.vals = v /\ r.chunk_clocks_ = x
  BY <1>a, <1>1, <1>2, <1>12, <1>14 DEF Local, SameRun
<1> QED BY <1>4, <1>7, <1>9, <1>11, <1>14, <1>16, <1>17

LEMMA CopyFetches ==
  ASSUME FetchInv, NEW w \in Workers, CopyChunk(w)
  PROVE  FetchInv'
<1> DEFINE old == ws[w]
<1>1. /\ old \in Local /\ Placed(old) /\ Counted(old, sent[w]) /\ sent[w] \in Nat
      /\ table \in Tables /\ TypeOK /\ Fetching(old, sent[w], pushed, min_clock)
      /\ min_clock \in Nat /\ s \in Nat
  BY WorkerFacts
<1>2. old.pc = "copy"
  BY DEF CopyChunk, At
<1>3. PICK c \in old.todo :
           LET r == CopiedChunk(w, c) IN
           /\ Becomes(w, IF old.todo \ {c} = {} THEN Returned(Keep(r)) ELSE r)
           /\ r \in Local /\ SameRun(old, r) /\ r.pc = "copy"
           /\ r.need = old.need /\ r.fetch = old.fetch /\ r.wait = old.wait
           /\ r.answer = old.answer /\ r.cached = old.cached /\ r.cache_ts_ = old.cache_ts_
           /\ r.todo = old.todo \ {c}
           /\ r.label <= cache.chunk_clocks_[c]
  BY CopyFacts
<1>4. PICK r : r = CopiedChunk(w, c)
  OBVIOUS
<1>5. /\ Becomes(w, IF old.todo \ {c} = {} THEN Returned(Keep(r)) ELSE r)
      /\ r \in Local /\ SameRun(old, r) /\ r.pc = "copy"
      /\ r.need = old.need /\ r.fetch = old.fetch /\ r.wait = old.wait
      /\ r.answer = old.answer /\ r.cached = old.cached /\ r.cache_ts_ = old.cache_ts_
      /\ r.todo = old.todo \ {c}
      /\ r.label <= cache.chunk_clocks_[c]
  BY <1>3, <1>4
<1>6. /\ UNCHANGED <<clock, sent, messages, pushed, cache>> /\ bsp' \in BspState /\ bsp'.params_ = bsp.params_
  BY <1>1 DEF CopyChunk, server, TypeOK
<1>7. CASE old.todo \ {c} = {}
  <2>1. PICK t : t = Returned(Keep(r))
    OBVIOUS
  <2>2. t \in Local /\ t.pc = "push" /\ SameRun(old, t)
    BY <1>5, <2>1, KeepFacts, ReturnedFacts DEF SameRun
  <2>3. is({"PSMapChunk"}) => t.cache_ts_ \in {r.label, r.cache_ts_}
    BY <1>5, <2>1, KeepFacts, ReturnedFacts DEF is
  <2>4. cache.chunk_clocks_[c] <= min_clock /\ cache.chunk_clocks_[c] \in Int
    BY <1>1, WorkerFacts DEF Local
  <2>5. is({"PSMapChunk"}) => t.cache_ts_ <= min_clock
    BY <1>1, <1>5, <2>3, <2>4 DEF Fetching, Local
  <2>6. Buffered => old.pull_count_ - s <= min_clock
    BY <1>1, <1>2 DEF Fetching, Early
  <2>7. Fetching(t, sent[w], pushed, min_clock)
    <3>1. old.wait = {}
      BY <1>1, <1>2 DEF Placed
    <3> QED BY <1>2, <2>2, <2>5, <2>6, <3>1, ReturnFetches
  <2>8. t.push_count_ = old.push_count_ /\ Becomes(w, t)
    BY <1>5, <1>7, <2>1, <2>2 DEF SameRun
  <2> QED BY <1>2, <1>6, <2>2, <2>7, <2>8, LocalStep
<1>8. CASE old.todo \ {c} # {}
  <2>1. Counted(r, sent[w])
    BY <1>1, <1>2, <1>5 DEF Counted, SameRun
  <2>2. Placed(r)
    BY <1>1, <1>2, <1>5, <1>8 DEF Placed, Pulling, SameRun
  <2>3. Early(r, min_clock)
    BY <1>1, <1>2, <1>5 DEF Fetching, Early, SameRun
  <2>4. Answered(r, sent[w], pushed, min_clock)
    BY <1>5 DEF Answered
  <2>5. Fetching(r, sent[w], pushed, min_clock)
    BY <1>1, <1>5, <2>1, <2>2, <2>3, <2>4 DEF Fetching
  <2>6. r.push_count_ = old.push_count_ /\ Becomes(w, r)
    BY <1>5, <1>8 DEF SameRun
  <2> QED BY <1>2, <1>5, <1>6, <2>5, <2>6, LocalStep
<1> QED BY <1>7, <1>8

\* What the thread cache of r becomes when u is added to it.
Sum(r, u) == [c \in Chunks |-> IF c \in r.keys THEN Plus(r.cached[c], u) ELSE r.cached[c]]

LEMMA SumFacts ==
  ASSUME NEW r \in Local, NEW u \in Pushes
  PROVE  /\ Sum(r, u) \in Contents /\ Added(r, u) = [r EXCEPT !.cached = Sum(r, u)]
         /\ \A c \in Chunks : /\ r.cached[c] \subseteq Sum(r, u)[c]
                              /\ Sum(r, u)[c] = None => r.cached[c] = None
                              /\ c \notin r.keys => Sum(r, u)[c] = r.cached[c]
                              /\ c \in r.keys => Sum(r, u)[c] # None /\ u \in Sum(r, u)[c]
<1>1. r.cached \in [Chunks -> Values]
  BY DEF Local, Contents
<1>2. Added(r, u) = [r EXCEPT !.cached = Sum(r, u)]
  BY DEF Added, Sum, Local
<1>3. \A c \in Chunks : /\ Plus(r.cached[c], u) \in Values /\ Plus(r.cached[c], u) # None
                        /\ r.cached[c] \subseteq Plus(r.cached[c], u) /\ u \in Plus(r.cached[c], u)
  BY <1>1, ValueFacts
<1>4. Sum(r, u) \in Contents
  BY <1>1, <1>3 DEF Sum, Contents
<1>5. \A c \in Chunks : Sum(r, u)[c] = IF c \in r.keys THEN Plus(r.cached[c], u) ELSE r.cached[c]
  BY DEF Sum
<1> QED BY <1>2, <1>3, <1>4, <1>5

LEMMA UpdatedFacts ==
  ASSUME table \in Tables, NEW r \in Local, NEW u \in Pushes
  PROVE  Updated(r, u) = [r EXCEPT !.cached = IF is({"PSChunkNone", "PSMapChunk", "PSChunkChunk"})
                                              THEN Sum(r, u) ELSE r.cached]
<1>1. Added(r, u) = [r EXCEPT !.cached = Sum(r, u)]
  BY SumFacts
<1>2. r = [r EXCEPT !.cached = r.cached]
  BY DEF Local
<1>3. table.worker_type \in Types
  BY TableFacts
<1>4. is({"PSChunkNone", "PSMapChunk", "PSChunkChunk"}) => Updated(r, u) = Added(r, u)
  BY DEF Updated, is, ChunkNoneUpdate, MapChunkUpdate, ChunkChunkUpdate
<1>5. ~is({"PSChunkNone", "PSMapChunk", "PSChunkChunk"}) => Updated(r, u) = r
  BY <1>3 DEF Updated, is, PSWorkerUpdate, BspUpdate, MapNoneUpdate, NoneChunkUpdate, Types
<1> QED BY <1>1, <1>2, <1>4, <1>5

LEMMA AggregateFacts ==
  ASSUME table \in Tables, NEW r \in Local, NEW u \in Pushes, ~is({"PSBsp"})
  PROVE  Aggregate(r, u) = [r EXCEPT !.cached = IF is({"PSWorker", "PSNoneChunk"}) THEN Nothing
                                                ELSE Sum(r, u)]
<1>1. Added(r, u) = [r EXCEPT !.cached = Sum(r, u)]
  BY SumFacts
<1>2. table.worker_type \in Types
  BY TableFacts
<1>3. is({"PSWorker", "PSNoneChunk"}) => Aggregate(r, u) = [r EXCEPT !.cached = Nothing]
  BY DEF Aggregate, is, PSWorkerPush, NoneChunkPush
<1>4. ~is({"PSWorker", "PSNoneChunk"}) => Aggregate(r, u) = Added(r, u)
  BY <1>2 DEF Aggregate, is, MapNonePush, ChunkNonePush, MapChunkPush, ChunkChunkPush, Types
<1> QED BY <1>1, <1>3, <1>4

\* The push a worker makes.
LEMMA OwnPush ==
  ASSUME FetchInv, NEW w \in Workers
  PROVE  <<w, ws[w].push_count_>> \in Pushes
BY WorkerFacts DEF Pushes, Local

\* The record after Update_v2.
AfterUpdate(w) ==
  [ws[w] EXCEPT !.cached = IF is({"PSChunkNone", "PSMapChunk", "PSChunkChunk"})
                           THEN Sum(ws[w], <<w, ws[w].push_count_>>) ELSE ws[w].cached,
                !.updated = TRUE]

LEMMA UpdateFacts ==
  ASSUME FetchInv, NEW w \in Workers, Update_v2(w)
  PROVE  LET r == AfterUpdate(w) IN
         /\ r \in Local /\ Becomes(w, r) /\ r.pc = "push" /\ ws[w].pc = "push" /\ r.updated
         /\ r.pull_count_ = ws[w].pull_count_ /\ r.push_count_ = ws[w].push_count_
         /\ r.keys = ws[w].keys /\ r.cache_ts_ = ws[w].cache_ts_ /\ r.wait = ws[w].wait
         /\ r.chunk_clocks_ = ws[w].chunk_clocks_ /\ r.vals = ws[w].vals /\ r.answer = ws[w].answer
         /\ \A c \in Chunks : /\ ws[w].cached[c] \subseteq r.cached[c]
                              /\ r.cached[c] = None => ws[w].cached[c] = None
                              /\ c \notin ws[w].keys => r.cached[c] = ws[w].cached[c]
                              /\ c \in ws[w].keys /\ ws[w].cached[c] # None => r.cached[c] # None
         /\ ~is({"PSChunkNone", "PSMapChunk", "PSChunkChunk"}) => r.cached = ws[w].cached
<1> DEFINE old == ws[w]
           q == <<w, old.push_count_>>
           x == IF is({"PSChunkNone", "PSMapChunk", "PSChunkChunk"}) THEN Sum(old, q) ELSE old.cached
<1>1. old \in Local /\ table \in Tables /\ q \in Pushes /\ TypeOK
  BY WorkerFacts, OwnPush
<1>2. old.pc = "push"
  BY DEF Update_v2, At
<1>3. Updated(old, q) = [old EXCEPT !.cached = x]
  BY <1>1, UpdatedFacts
<1>4. x \in Contents
  BY <1>1, SumFacts DEF Local
<1>5. \A c \in Chunks : /\ old.cached[c] \subseteq x[c]
                        /\ x[c] = None => old.cached[c] = None
                        /\ c \notin old.keys => x[c] = old.cached[c]
                        /\ c \in old.keys /\ old.cached[c] # None => x[c] # None
  BY <1>1, SumFacts
<1>6. ~is({"PSChunkNone", "PSMapChunk", "PSChunkChunk"}) => x = old.cached
  OBVIOUS
<1>7. ws' = [ws EXCEPT ![w] = [Updated(old, q) EXCEPT !.updated = TRUE]] /\ table' = table
  BY DEF Update_v2
<1>8. AfterUpdate(w) = [old EXCEPT !.cached = x, !.updated = TRUE]
  BY DEF AfterUpdate
<1> HIDE DEF x
<1>9. [Updated(old, q) EXCEPT !.updated = TRUE] = AfterUpdate(w)
  BY <1>1, <1>3, <1>8 DEF Local
<1>10. Becomes(w, AfterUpdate(w))
  BY <1>7, <1>9 DEF Becomes
<1>11. PICK r : r = AfterUpdate(w)
  OBVIOUS
<1>12. /\ r \in Local /\ r.pc = "push" /\ r.updated
       /\ r.pull_count_ = old.pull_count_ /\ r.push_count_ = old.push_count_
       /\ r.keys = old.keys /\ r.cache_ts_ = old.cache_ts_ /\ r.wait = old.wait
       /\ r.chunk_clocks_ = old.chunk_clocks_ /\ r.vals = old.vals /\ r.answer = old.answer
       /\ r.cached = x
  BY <1>1, <1>2, <1>4, <1>8, <1>11 DEF Local
<1> QED BY <1>2, <1>5, <1>6, <1>10, <1>11, <1>12

LEMMA UpdateFetches ==
  ASSUME FetchInv, NEW w \in Workers, Update_v2(w)
  PROVE  FetchInv'
<1>1. PICK r : r = AfterUpdate(w)
  OBVIOUS
<1>2. /\ r \in Local /\ Becomes(w, r) /\ r.pc = "push" /\ ws[w].pc = "push"
      /\ r.pull_count_ = ws[w].pull_count_ /\ r.push_count_ = ws[w].push_count_
      /\ r.keys = ws[w].keys /\ r.cache_ts_ = ws[w].cache_ts_ /\ r.wait = ws[w].wait
  BY <1>1, UpdateFacts
<1>3. ws[w] \in Local /\ Fetching(ws[w], sent[w], pushed, min_clock) /\ TypeOK
  BY WorkerFacts
<1>4. Fetching(r, sent[w], pushed, min_clock)
  BY <1>2, <1>3 DEF Fetching, Counted, Placed, Early, Answered, Pulling
<1>5. UNCHANGED <<clock, sent, messages, pushed, cache>> /\ bsp' \in BspState /\ bsp'.params_ = bsp.params_
  BY <1>3 DEF Update_v2, server, TypeOK
<1> QED BY <1>2, <1>4, <1>5, LocalStep

\* Steps of PSBspModel that push nothing.
LEMMA RegisterFetches ==
  ASSUME FetchInv, NEW w \in Workers, Register(w)
  PROVE  FetchInv'
<1> DEFINE r == [ws[w] EXCEPT !.pc = "join"]
<1>1. ws[w] \in Local /\ Fetching(ws[w], sent[w], pushed, min_clock) /\ TypeOK
  BY WorkerFacts
<1>2. ws[w].pc = "register"
  BY DEF Register, At
<1>3. /\ r \in Local /\ Becomes(w, r) /\ r.pc = "join"
      /\ r.pull_count_ = ws[w].pull_count_ /\ r.push_count_ = ws[w].push_count_
      /\ r.keys = ws[w].keys /\ r.cache_ts_ = ws[w].cache_ts_ /\ r.wait = ws[w].wait
  BY <1>1 DEF Local, Register, Becomes, TypeOK
<1> HIDE DEF r
<1>4. Fetching(r, sent[w], pushed, min_clock)
  BY <1>1, <1>2, <1>3 DEF Fetching, Counted, Placed, Early, Answered, Pulling
<1>5. UNCHANGED <<clock, sent, messages, pushed, cache>>
  BY DEF Register, server
<1>6. bsp' \in BspState /\ bsp'.params_ = bsp.params_
  BY <1>1 DEF Register, TypeOK, BspState, Local
<1> QED BY <1>2, <1>3, <1>4, <1>5, <1>6, LocalStep

LEMMA JoinPullFetches ==
  ASSUME FetchInv, NEW w \in Workers, JoinPull(w)
  PROVE  FetchInv'
<1> DEFINE r == [ws[w] EXCEPT !.pc = "joined"]
<1>1. ws[w] \in Local /\ Fetching(ws[w], sent[w], pushed, min_clock) /\ TypeOK
  BY WorkerFacts
<1>2. ws[w].pc = "join"
  BY DEF JoinPull, At
<1>3. /\ r \in Local /\ Becomes(w, r) /\ r.pc = "joined"
      /\ r.pull_count_ = ws[w].pull_count_ /\ r.push_count_ = ws[w].push_count_
      /\ r.keys = ws[w].keys /\ r.cache_ts_ = ws[w].cache_ts_ /\ r.wait = ws[w].wait
  BY <1>1 DEF Local, JoinPull, Becomes, TypeOK
<1> HIDE DEF r
<1>4. Fetching(r, sent[w], pushed, min_clock)
  BY <1>1, <1>2, <1>3 DEF Fetching, Counted, Placed, Early, Answered, Pulling
<1>5. UNCHANGED <<clock, sent, messages, pushed, cache>>
  BY DEF JoinPull, server
<1>6. bsp' \in BspState /\ bsp'.params_ = bsp.params_
  <2> DEFINE last == bsp.pull_num_ + 1 = num_local_threads_
             new == [c \in Chunks |-> IF c \in bsp.keys THEN Visible(w, c) ELSE None]
  <2>1. \A c \in Chunks : Visible(w, c) \in Values
    <3>1. \A c \in Chunks : Visible(w, c) \subseteq {a.id : a \in messages[c]}
      BY DEF Visible
    <3>2. \A c \in Chunks : messages[c] \subseteq [id : Pushes, from : Workers, at : Nat]
      BY <1>1 DEF TypeOK
    <3>3. \A c \in Chunks : Visible(w, c) \subseteq Pushes
      BY <3>1, <3>2
    <3> QED BY <3>3, ValueFacts
  <2>2. new \in Contents
    BY <2>1, ValueFacts DEF Contents
  <2>3. bsp' = [bsp EXCEPT !.pull_num_ = @ + 1, !.vals = IF last THEN new ELSE @]
    BY DEF JoinPull
  <2> HIDE DEF last, new
  <2>4. bsp \in BspState
    BY <1>1 DEF TypeOK
  <2>5. PICK n, v : n = bsp.pull_num_ + 1 /\ v = IF last THEN new ELSE bsp.vals
    OBVIOUS
  <2>6. n \in Nat /\ v \in Contents
    BY <2>2, <2>4, <2>5 DEF BspState
  <2>7. bsp' = [bsp EXCEPT !.pull_num_ = n, !.vals = v]
    BY <2>3, <2>4, <2>5 DEF BspState
  <2> QED BY <2>4, <2>6, <2>7 DEF BspState
<1> QED BY <1>2, <1>3, <1>4, <1>5, <1>6, LocalStep

LEMMA LeavePullFetches ==
  ASSUME FetchInv, NEW w \in Workers, LeavePull(w)
  PROVE  FetchInv'
<1> DEFINE t == [ws[w] EXCEPT !.cached = bsp.vals]
<1>1. ws[w] \in Local /\ Placed(ws[w]) /\ TypeOK /\ bsp \in BspState
  BY WorkerFacts DEF TypeOK
<1>2. ws[w].pc = "joined" /\ is({"PSBsp"})
  BY <1>1 DEF LeavePull, At, Placed
<1>3. bsp.vals \in Contents
  BY <1>1 DEF BspState
<1>4. t \in Local /\ SameRun(ws[w], t)
  BY <1>1, <1>3 DEF Local, SameRun
<1>5. Becomes(w, Returned(t))
  BY <1>1 DEF LeavePull, Becomes, TypeOK
<1> HIDE DEF t
<1>6. PICK r : r = Returned(t)
  OBVIOUS
<1>7. r \in Local /\ r.pc = "push" /\ SameRun(ws[w], r)
  BY <1>4, <1>6, ReturnedFacts DEF SameRun
<1>8. ~Buffered /\ ~is({"PSMapChunk"})
  BY <1>2 DEF Buffered, is
<1>9. Fetching(r, sent[w], pushed, min_clock)
  <2>1. ws[w].wait = {}
    BY <1>1, <1>2 DEF Placed
  <2> QED BY <1>2, <1>7, <1>8, <2>1, ReturnFetches
<1>10. UNCHANGED <<clock, sent, messages, pushed, cache>> /\ Becomes(w, r)
  BY <1>5, <1>6 DEF LeavePull, server
<1>11. bsp' \in BspState /\ bsp'.params_ = bsp.params_
  <2>1. \/ bsp' = [bsp EXCEPT !.pull_num_ = 0, !.pull_num2_ = 0, !.keys = {}]
        \/ bsp' = [bsp EXCEPT !.pull_num2_ = bsp.pull_num2_ + 1]
    BY <1>1 DEF LeavePull, BspState
  <2>2. CASE bsp' = [bsp EXCEPT !.pull_num_ = 0, !.pull_num2_ = 0, !.keys = {}]
    <3>1. PICK e, z : e = {} /\ z = 0 /\ bsp' = [bsp EXCEPT !.pull_num_ = z, !.pull_num2_ = z, !.keys = e]
      BY <2>2
    <3>2. e \in SUBSET Chunks /\ z \in Nat
      BY <3>1
    <3> QED BY <1>1, <3>1, <3>2 DEF BspState
  <2>3. CASE bsp' = [bsp EXCEPT !.pull_num2_ = bsp.pull_num2_ + 1]
    <3>1. PICK n : n = bsp.pull_num2_ + 1
      OBVIOUS
    <3>2. n \in Nat /\ bsp' = [bsp EXCEPT !.pull_num2_ = n]
      BY <1>1, <2>3, <3>1 DEF BspState
    <3> QED BY <1>1, <3>2 DEF BspState
  <2> QED BY <2>1, <2>2, <2>3
<1>12. r.push_count_ = ws[w].push_count_
  BY <1>7 DEF SameRun
<1> QED BY <1>2, <1>7, <1>9, <1>10, <1>11, <1>12, LocalStep

LEMMA LeavePushFetches ==
  ASSUME FetchInv, NEW w \in Workers, LeavePush(w)
  PROVE  FetchInv'
<1> DEFINE r == [ws[w] EXCEPT !.pc = "send"]
<1>1. ws[w] \in Local /\ Fetching(ws[w], sent[w], pushed, min_clock) /\ TypeOK
  BY WorkerFacts
<1>2. ws[w].pc = "pushing"
  BY DEF LeavePush, At
<1>3. /\ r \in Local /\ Becomes(w, r) /\ r.pc = "send"
      /\ r.pull_count_ = ws[w].pull_count_ /\ r.push_count_ = ws[w].push_count_
      /\ r.keys = ws[w].keys /\ r.cache_ts_ = ws[w].cache_ts_ /\ r.wait = ws[w].wait
  BY <1>1 DEF Local, LeavePush, Becomes, TypeOK
<1> HIDE DEF r
<1>4. Fetching(r, sent[w], pushed, min_clock)
  BY <1>1, <1>2, <1>3 DEF Fetching, Counted, Placed, Early, Answered, Pulling
<1>5. UNCHANGED <<clock, sent, messages, pushed, cache>>
  BY DEF LeavePush, server
<1>6. bsp' \in BspState /\ bsp'.params_ = bsp.params_
  <2>1. bsp \in BspState
    BY <1>1 DEF TypeOK
  <2>2. \/ bsp' = [bsp EXCEPT !.push_num_ = 0, !.push_num2_ = 0]
        \/ bsp' = [bsp EXCEPT !.push_num2_ = bsp.push_num2_ + 1]
    BY <2>1 DEF LeavePush, BspState
  <2>3. CASE bsp' = [bsp EXCEPT !.push_num_ = 0, !.push_num2_ = 0]
    <3>1. PICK z : z = 0 /\ bsp' = [bsp EXCEPT !.push_num_ = z, !.push_num2_ = z]
      BY <2>3
    <3>2. z \in Nat
      BY <3>1
    <3> QED BY <2>1, <3>1, <3>2 DEF BspState
  <2>4. CASE bsp' = [bsp EXCEPT !.push_num2_ = bsp.push_num2_ + 1]
    <3>1. PICK n : n = bsp.push_num2_ + 1
      OBVIOUS
    <3>2. n \in Nat /\ bsp' = [bsp EXCEPT !.push_num2_ = n]
      BY <2>1, <2>4, <3>1 DEF BspState
    <3> QED BY <2>1, <3>2 DEF BspState
  <2> QED BY <2>2, <2>3, <2>4
<1> QED BY <1>2, <1>3, <1>4, <1>5, <1>6, LocalStep

------------------------------------------------------------------------------
(* Pull.                                                                   *)

\* What is asked for, and where.
Lacks(r) == CASE is({"PSMapNone"}) -> MapNoneNeeds(r)
              [] is({"PSChunkNone"}) -> ChunkNoneNeeds(r)
              [] is({"PSMapChunk"}) -> MapChunkNeeds(r)
              [] is({"PSChunkChunk"}) -> ChunkChunkNeeds(r)
              [] OTHER -> r.keys
AskAt == IF is({"PSBsp"}) THEN "register" ELSE IF OverCache THEN "process" ELSE "fetch"
Forgets(r) == IF is({"PSMapChunk"}) /\ TooOld(r) THEN Nothing ELSE r.cached

LEMMA AskFacts ==
  ASSUME NEW r \in Local, NEW need \in SUBSET Chunks, NEW l \in {"fetch", "process", "register"}
  PROVE  LET t == Ask(r, need, l) IN
         /\ t \in Local /\ SameRun(r, t)
         /\ t.cached = r.cached /\ t.chunk_clocks_ = r.chunk_clocks_ /\ t.cache_ts_ = r.cache_ts_
         /\ t.vals \in {r.vals, Nothing} /\ t.answer \in {r.answer, NoAnswer}
         /\ IF need = {} THEN t.pc = "push" ELSE t.pc = l /\ t.need = need /\ t.fetch = need
<1>1. CASE need = {}
  BY <1>1, ReturnedFacts DEF Ask
<1>2. CASE need # {}
  <2>1. PICK t : t = [r EXCEPT !.need = need, !.fetch = need, !.pc = l]
    OBVIOUS
  <2>2. t \in Local
    BY <2>1 DEF Local, Pulling
  <2>3. /\ SameRun(r, t) /\ t.cached = r.cached /\ t.chunk_clocks_ = r.chunk_clocks_
        /\ t.cache_ts_ = r.cache_ts_ /\ t.vals = r.vals /\ t.answer = r.answer
        /\ t.pc = l /\ t.need = need /\ t.fetch = need
    BY <2>1 DEF Local, SameRun
  <2> QED BY <1>2, <2>1, <2>2, <2>3 DEF Ask
<1> QED BY <1>1, <1>2

LEMMA PreparedFacts ==
  ASSUME table \in Tables, NEW r \in Local
  PROVE  LET t == Prepared(r) IN
         /\ t \in Local /\ SameRun(r, t) /\ Lacks(r) \subseteq r.keys
         /\ t.cached = Forgets(r) /\ t.chunk_clocks_ = r.chunk_clocks_ /\ t.cache_ts_ = r.cache_ts_
         /\ t.vals \in {r.vals, Nothing} /\ t.answer \in {r.answer, NoAnswer}
         /\ IF Lacks(r) = {} THEN t.pc = "push"
            ELSE t.pc = AskAt /\ t.need = Lacks(r) /\ t.fetch = Lacks(r)
<1> DEFINE Good(t, need, l) ==
         /\ t \in Local /\ SameRun(r, t)
         /\ t.cached = Forgets(r) /\ t.chunk_clocks_ = r.chunk_clocks_ /\ t.cache_ts_ = r.cache_ts_
         /\ t.vals \in {r.vals, Nothing} /\ t.answer \in {r.answer, NoAnswer}
         /\ IF need = {} THEN t.pc = "push" ELSE t.pc = l /\ t.need = need /\ t.fetch = need
<1>1. r.keys \in SUBSET Chunks
  BY DEF Local
<1>2. ASSUME NEW need \in SUBSET Chunks, NEW l \in {"fetch", "process", "register"}, ~is({"PSMapChunk"})
      PROVE  Good(Ask(r, need, l), need, l)
  <2>1. Forgets(r) = r.cached
    BY <1>2 DEF Forgets
  <2> QED BY <2>1, AskFacts
<1>3. CASE is({"PSWorker"})
  <2>1. Prepared(r) = Ask(r, r.keys, "fetch") /\ Lacks(r) = r.keys /\ AskAt = "fetch"
    BY <1>3 DEF Prepared, PSWorkerPull, Lacks, AskAt, is, OverCache
  <2>2. ~is({"PSMapChunk"})
    BY <1>3 DEF is
  <2>3. Good(Ask(r, r.keys, "fetch"), r.keys, "fetch")
    BY <1>1, <1>2, <2>2
  <2> QED BY <2>1, <2>3
<1>4. CASE is({"PSBsp"})
  <2>1. Prepared(r) = Ask(r, r.keys, "register") /\ Lacks(r) = r.keys /\ AskAt = "register"
    BY <1>4 DEF Prepared, BspPull, Lacks, AskAt, is, OverCache
  <2>2. ~is({"PSMapChunk"})
    BY <1>4 DEF is
  <2>3. Good(Ask(r, r.keys, "register"), r.keys, "register")
    BY <1>1, <1>2, <2>2
  <2> QED BY <2>1, <2>3
<1>5. CASE is({"PSMapNone"})
  <2>1. Prepared(r) = Ask(r, Lacks(r), "fetch") /\ AskAt = "fetch" /\ Lacks(r) = MapNoneNeeds(r)
    BY <1>5 DEF Prepared, MapNonePull, Lacks, AskAt, is, OverCache
  <2>2. ~is({"PSMapChunk"}) /\ Lacks(r) \subseteq r.keys
    BY <1>5, <2>1 DEF is, MapNoneNeeds, Missing
  <2>3. Lacks(r) \in SUBSET Chunks
    BY <1>1, <2>2
  <2> HIDE DEF Good
  <2>4. Good(Ask(r, Lacks(r), "fetch"), Lacks(r), "fetch")
    BY <1>2, <2>2, <2>3
  <2> QED BY <2>1, <2>2, <2>4 DEF Good
<1>6. CASE is({"PSChunkNone"})
  <2>1. Prepared(r) = Ask(r, Lacks(r), "fetch") /\ AskAt = "fetch" /\ Lacks(r) = ChunkNoneNeeds(r)
    BY <1>6 DEF Prepared, ChunkNonePull, Lacks, AskAt, is, OverCache
  <2>2. ~is({"PSMapChunk"}) /\ Lacks(r) \subseteq r.keys
    BY <1>6, <2>1 DEF is, ChunkNoneNeeds
  <2>3. Lacks(r) \in SUBSET Chunks
    BY <1>1, <2>2
  <2> HIDE DEF Good
  <2>4. Good(Ask(r, Lacks(r), "fetch"), Lacks(r), "fetch")
    BY <1>2, <2>2, <2>3
  <2> QED BY <2>1, <2>2, <2>4 DEF Good
<1>7. CASE is({"PSNoneChunk"})
  <2>1. Prepared(r) = Ask(r, r.keys, "process") /\ Lacks(r) = r.keys /\ AskAt = "process"
    BY <1>7 DEF Prepared, NoneChunkPull, Lacks, AskAt, is, OverCache
  <2>2. ~is({"PSMapChunk"})
    BY <1>7 DEF is
  <2>3. Good(Ask(r, r.keys, "process"), r.keys, "process")
    BY <1>1, <1>2, <2>2
  <2> QED BY <2>1, <2>3
<1>8. CASE is({"PSChunkChunk"})
  <2>1. Prepared(r) = Ask(r, Lacks(r), "process") /\ AskAt = "process" /\ Lacks(r) = ChunkChunkNeeds(r)
    BY <1>8 DEF Prepared, ChunkChunkPull, Lacks, AskAt, is, OverCache
  <2>2. ~is({"PSMapChunk"}) /\ Lacks(r) \subseteq r.keys
    BY <1>8, <2>1 DEF is, ChunkChunkNeeds
  <2>3. Lacks(r) \in SUBSET Chunks
    BY <1>1, <2>2
  <2> HIDE DEF Good
  <2>4. Good(Ask(r, Lacks(r), "process"), Lacks(r), "process")
    BY <1>2, <2>2, <2>3
  <2> QED BY <2>1, <2>2, <2>4 DEF Good
<1>9. CASE is({"PSMapChunk"})
  <2>1. PICK z : z = [r EXCEPT !.cached = Forgets(r)]
    OBVIOUS
  <2>2. Forgets(r) \in Contents
    BY ValueFacts DEF Forgets, Local, Nothing, Contents
  <2>3. /\ z \in Local /\ SameRun(r, z) /\ z.cached = Forgets(r) /\ z.chunk_clocks_ = r.chunk_clocks_
        /\ z.cache_ts_ = r.cache_ts_ /\ z.vals = r.vals /\ z.answer = r.answer
    BY <2>1, <2>2 DEF Local, SameRun
  <2>4. [r EXCEPT !.cached = IF TooOld(r) THEN Nothing ELSE @] = z
    BY <1>9, <2>1 DEF Forgets, Local
  <2>5. Prepared(r) = Ask(z, Lacks(r), "process") /\ AskAt = "process" /\ Lacks(r) = MapChunkNeeds(r)
    BY <1>9, <2>4 DEF Prepared, MapChunkPull, Lacks, AskAt, is, OverCache
  <2>6. Lacks(r) \subseteq r.keys
    BY <2>5 DEF MapChunkNeeds, Missing
  <2>7. Lacks(r) \in SUBSET Chunks
    BY <1>1, <2>6
  <2>8. PICK t : t = Ask(z, Lacks(r), "process")
    OBVIOUS
  <2>9. /\ t \in Local /\ SameRun(z, t)
        /\ t.cached = z.cached /\ t.chunk_clocks_ = z.chunk_clocks_ /\ t.cache_ts_ = z.cache_ts_
        /\ t.vals \in {z.vals, Nothing} /\ t.answer \in {z.answer, NoAnswer}
        /\ IF Lacks(r) = {} THEN t.pc = "push"
           ELSE t.pc = "process" /\ t.need = Lacks(r) /\ t.fetch = Lacks(r)
    BY <2>3, <2>7, <2>8, AskFacts
  <2>10. SameRun(r, t)
    BY <2>3, <2>9 DEF SameRun
  <2> QED BY <2>3, <2>5, <2>6, <2>8, <2>9, <2>10
<1>10. table.worker_type \in Types
  BY TableFacts
<1> QED BY <1>3, <1>4, <1>5, <1>6, <1>7, <1>8, <1>9, <1>10 DEF is, Types

\* The record with which a pull for keys begins.
Asks(w, keys) == [ws[w] EXCEPT !.keys = keys, !.pull_count_ = ws[w].pull_count_ + 1]

LEMMA PullFacts ==
  ASSUME FetchInv, NEW w \in Workers, Pull(w)
  PROVE  \E keys \in table.request :
           LET r == Asks(w, keys)
               t == Prepared(r) IN
           /\ Becomes(w, t) /\ t \in Local /\ r \in Local /\ SameRun(r, t) /\ ws[w].pc = "idle"
           /\ keys \subseteq Chunks /\ keys # {} /\ r.keys = keys
           /\ r.pull_count_ = ws[w].pull_count_ + 1 /\ r.push_count_ = ws[w].push_count_
           /\ r.updated = ws[w].updated /\ r.wait = {}
           /\ r.cached = ws[w].cached /\ r.chunk_clocks_ = ws[w].chunk_clocks_
           /\ r.cache_ts_ = ws[w].cache_ts_ /\ r.vals = ws[w].vals /\ r.answer = ws[w].answer
<1>1. ws[w] \in Local /\ table \in Tables /\ TypeOK /\ Placed(ws[w])
  BY WorkerFacts
<1>2. ws[w].pc = "idle"
  BY DEF Pull, At
<1>3. PICK keys \in table.request :
        ws' = [ws EXCEPT ![w] = Prepared([ws[w] EXCEPT !.keys = keys, !.pull_count_ = @ + 1])]
  BY DEF Pull
<1>4. keys \subseteq Chunks /\ keys # {}
  BY <1>1, TableFacts
<1>5. PICK r : r = Asks(w, keys)
  OBVIOUS
<1>6. [ws[w] EXCEPT !.keys = keys, !.pull_count_ = @ + 1] = r
  BY <1>5 DEF Asks
<1>7. ws' = [ws EXCEPT ![w] = Prepared(r)]
  BY <1>3, <1>6
<1>8. PICK n : n = ws[w].pull_count_ + 1
  OBVIOUS
<1>9. n \in Nat /\ r = [ws[w] EXCEPT !.keys = keys, !.pull_count_ = n]
  BY <1>1, <1>5, <1>8 DEF Asks, Local
<1>10. /\ r \in Local /\ r.keys = keys /\ r.pull_count_ = n /\ r.push_count_ = ws[w].push_count_
       /\ r.updated = ws[w].updated /\ r.wait = ws[w].wait
       /\ r.cached = ws[w].cached /\ r.chunk_clocks_ = ws[w].chunk_clocks_
       /\ r.cache_ts_ = ws[w].cache_ts_ /\ r.vals = ws[w].vals /\ r.answer = ws[w].answer
  BY <1>1, <1>4, <1>9 DEF Local
<1>11. ws[w].wait = {}
  BY <1>1, <1>2 DEF Placed
<1>12. Prepared(r) \in Local /\ SameRun(r, Prepared(r))
  BY <1>1, <1>10, PreparedFacts
<1>13. Becomes(w, Prepared(r))
  BY <1>7 DEF Becomes, Pull
<1> QED BY <1>2, <1>4, <1>5, <1>8, <1>10, <1>11, <1>12, <1>13

\* The worker that pulls, at clock k of the server.
LEMMA PullWorker ==
  ASSUME FetchInv, NEW w \in Workers, NEW keys \in table.request, ws[w].pc = "idle",
         NEW r \in Local, r = Asks(w, keys), NEW t \in Local, t = Prepared(r), SameRun(r, t),
         keys \subseteq Chunks, keys # {}, r.keys = keys, r.wait = {},
         r.pull_count_ = ws[w].pull_count_ + 1, r.push_count_ = ws[w].push_count_,
         r.cache_ts_ = ws[w].cache_ts_,
         NEW k \in Nat, k = IF Buffered THEN sent[w] + 1 ELSE sent[w]
  PROVE  Fetching(t, k, pushed, min_clock)
<1>1. /\ ws[w] \in Local /\ table \in Tables /\ TypeOK /\ Counted(ws[w], sent[w])
      /\ Fetching(ws[w], sent[w], pushed, min_clock) /\ sent[w] \in Nat
  BY WorkerFacts
<1>2. /\ Lacks(r) \subseteq r.keys /\ t.cache_ts_ = r.cache_ts_
      /\ IF Lacks(r) = {} THEN t.pc = "push"
         ELSE t.pc = AskAt /\ t.need = Lacks(r) /\ t.fetch = Lacks(r)
  BY <1>1, PreparedFacts
<1>3. t.pc \in {"push", "register", "process", "fetch"}
  BY <1>2 DEF AskAt
<1>4. Counted(t, k)
  BY <1>1, <1>3 DEF Counted, SameRun, Local
<1>5. /\ Buffered => t.pc = "process"
      /\ t.pc = "register" => is({"PSBsp"})
      /\ t.pc = "process" => OverCache /\ ~is({"PSBsp"})
      /\ t.pc = "fetch" => ~OverCache /\ ~is({"PSBsp"}) /\ ~Managed
  <2>1. is({"PSNoneChunk"}) => Lacks(r) = r.keys
    BY DEF Lacks, is
  <2> QED BY <1>2, <2>1 DEF AskAt, OverCache, is, Buffered, Managed
<1>6. Placed(t)
  BY <1>2, <1>3, <1>5 DEF Placed, Pulling, SameRun
<1>7. Early(t, min_clock) /\ Answered(t, k, pushed, min_clock)
  BY <1>3, <1>5 DEF Early, Answered
<1>8. is({"PSMapChunk"}) => t.cache_ts_ <= min_clock
  BY <1>1, <1>2 DEF Fetching
<1> QED BY <1>4, <1>6, <1>7, <1>8 DEF Fetching

\* A push leaves its worker: the server has not seen it yet.
LEMMA SentFacts ==
  ASSUME TypeOK, NEW w \in Workers, NEW x \in [Chunks -> SUBSET Pushes], Send(w, x)
  PROVE  /\ clock' = clock /\ min_clock' = min_clock
         /\ sent' \in [Workers -> Nat] /\ sent'[w] = sent[w] + 1
         /\ \A u \in Workers : u # w => sent'[u] = sent[u]
         /\ \A u \in Workers : sent[u] <= sent'[u]
         /\ messages' \in [Chunks -> SUBSET [id : Pushes, from : Workers, at : Nat]]
         /\ \A c \in Chunks :
              /\ {a.id : a \in messages'[c]} = {a.id : a \in messages[c]} \union x[c]
              /\ messages[c] \subseteq messages'[c]
              /\ \A a \in messages'[c] : a \in messages[c] \/ (a.id \in x[c] /\ a.from = w /\ a.at = sent[w])
              /\ \A q \in x[c] : \E a \in messages'[c] : a.id = q /\ a.from = w /\ a.at = sent[w]
<1>1. /\ clock' = clock /\ sent' = [sent EXCEPT ![w] = @ + 1]
      /\ \A c \in Chunks : messages'[c] = messages[c] \union
                   {[id |-> q, from |-> w, at |-> sent[w]] : q \in x[c]}
      /\ messages' = [c \in Chunks |-> messages'[c]]
  BY DEF Send
<1>2. sent \in [Workers -> Nat] /\ sent[w] \in Nat
      /\ \A c \in Chunks : messages[c] \subseteq [id : Pushes, from : Workers, at : Nat]
  BY DEF TypeOK
<1>3. /\ sent' \in [Workers -> Nat] /\ sent'[w] = sent[w] + 1
      /\ \A u \in Workers : u # w => sent'[u] = sent[u]
      /\ \A u \in Workers : sent[u] <= sent'[u]
  BY <1>1, <1>2
<1>4. min_clock' = min_clock
  BY <1>1 DEF min_clock
<1>5. ASSUME NEW c \in Chunks, NEW a \in messages'[c]
      PROVE  a \in messages[c] \/ /\ a.id \in x[c] /\ a.from = w /\ a.at = sent[w]
                                  /\ a \in [id : Pushes, from : Workers, at : Nat]
  BY <1>1, <1>2, <1>5
<1>6. \A c \in Chunks : messages'[c] \in SUBSET [id : Pushes, from : Workers, at : Nat]
  BY <1>2, <1>5
<1>7. messages' \in [Chunks -> SUBSET [id : Pushes, from : Workers, at : Nat]]
  BY <1>1, <1>6
<1>8. ASSUME NEW c \in Chunks, NEW q \in x[c]
      PROVE  \E a \in messages'[c] : a.id = q /\ a.from = w /\ a.at = sent[w]
  <2>1. PICK a : a = [id |-> q, from |-> w, at |-> sent[w]]
    OBVIOUS
  <2>2. a \in messages'[c] /\ a.id = q /\ a.from = w /\ a.at = sent[w]
    BY <1>1, <2>1
  <2> QED BY <2>2
<1>9. ASSUME NEW c \in Chunks
      PROVE  {a.id : a \in messages'[c]} = {a.id : a \in messages[c]} \union x[c]
  <2>1. {a.id : a \in messages'[c]} \subseteq {a.id : a \in messages[c]} \union x[c]
    BY <1>5
  <2>2. {a.id : a \in messages[c]} \subseteq {a.id : a \in messages'[c]}
    BY <1>1
  <2>3. x[c] \subseteq {a.id : a \in messages'[c]}
    BY <1>8
  <2> QED BY <2>1, <2>2, <2>3
<1>10. \A c \in Chunks : messages[c] \subseteq messages'[c]
  BY <1>1
<1> QED BY <1>1, <1>3, <1>4, <1>5, <1>7, <1>8, <1>9, <1>10

\* Flushing the push buffer: who flushes is at most s ahead of the slowest.
LEMMA FlushSent ==
  ASSUME FetchInv, NEW w \in Workers, ws[w].pc = "idle", Buffered, Flush(w),
         table' = table, bsp' = bsp, pushed' = pushed
  PROVE  /\ Sent' /\ clock' = clock /\ min_clock' = min_clock /\ sent' \in [Workers -> Nat]
         /\ messages' \in [Chunks -> SUBSET [id : Pushes, from : Workers, at : Nat]]
         /\ sent'[w] = sent[w] + 1 /\ \A u \in Workers : u # w => sent'[u] = sent[u]
         /\ cache'.params_ = cache.params_ /\ cache'.chunk_clocks_ = cache.chunk_clocks_
         /\ DOMAIN cache' = DOMAIN cache /\ cache'.buffer \in [Chunks -> SUBSET Pushes]
         /\ Later(pushed, min_clock, pushed', min_clock')
<1>1. /\ ws[w] \in Local /\ table \in Tables /\ TypeOK /\ Counted(ws[w], sent[w])
      /\ Fetching(ws[w], sent[w], pushed, min_clock) /\ sent[w] \in Nat /\ min_clock \in Nat
      /\ s \in Nat /\ clock \in [Workers -> Nat] /\ sent \in [Workers -> Nat]
  BY WorkerFacts DEF TypeOK
<1>2. sent[w] - s <= min_clock
  BY <1>1 DEF Fetching, Early, Counted
<1>3. PICK x : x = cache.buffer
  OBVIOUS
<1>4. x \in [Chunks -> SUBSET Pushes] /\ Send(w, x) /\ cache' = [cache EXCEPT !.buffer = [c \in Chunks |-> {}]]
  BY <1>1, <1>3 DEF Flush, TypeOK
<1>5. /\ clock' = clock /\ min_clock' = min_clock
      /\ sent' \in [Workers -> Nat] /\ sent'[w] = sent[w] + 1
      /\ \A u \in Workers : u # w => sent'[u] = sent[u]
      /\ \A u \in Workers : sent[u] <= sent'[u]
      /\ messages' \in [Chunks -> SUBSET [id : Pushes, from : Workers, at : Nat]]
      /\ \A c \in Chunks :
           /\ {a.id : a \in messages'[c]} = {a.id : a \in messages[c]} \union x[c]
           /\ \A a \in messages'[c] : a \in messages[c] \/ (a.id \in x[c] /\ a.from = w /\ a.at = sent[w])
  BY <1>1, <1>4, SentFacts
<1>6. /\ cache'.params_ = cache.params_ /\ cache'.chunk_clocks_ = cache.chunk_clocks_
      /\ DOMAIN cache' = DOMAIN cache /\ cache'.buffer = [c \in Chunks |-> {}]
  BY <1>1, <1>4 DEF TypeOK, NewCache
<1>7. /\ s' = s /\ Buffered' /\ ~is({"PSBsp"}) /\ ~is({"PSBsp"})' /\ Lead' = Lead /\ Lead = 1 + s
      /\ \A u \in Workers : min_clock <= clock[u]
  BY <1>1, Clocks, TableFacts DEF s, Buffered, is, Lead
<1>8. \A u \in Workers : clock[u] <= sent[u] /\ clock'[u] <= sent'[u]
  BY <1>1, <1>5 DEF FetchInv, Sent
<1>9. Sent'
  <2> SUFFICES ASSUME NEW c \in Chunks
               PROVE  /\ pushed'[c] = {a.id : a \in messages'[c]} \union cache'.buffer[c] \union bsp'.params_[c]
                      /\ \A a \in messages'[c] : /\ a.at < sent'[a.from] /\ a.at - s <= min_clock'
                                                 /\ a.at <= a.id[2] + Lead
                      /\ cache'.buffer[c] = {} /\ bsp'.params_[c] = {}
    BY <1>7, <1>8 DEF Sent
  <2>1. /\ pushed[c] = {a.id : a \in messages[c]} \union cache.buffer[c] \union bsp.params_[c]
        /\ \A a \in messages[c] : /\ a.at < sent[a.from] /\ a.at - s <= min_clock
                                  /\ a.at <= a.id[2] + Lead
        /\ \A q \in cache.buffer[c] : q[2] + 1 >= sent[q[1]]
        /\ bsp.params_[c] = {}
    BY <1>7 DEF FetchInv, Sent
  <2>2. cache'.buffer[c] = {}
    BY <1>6
  <2>3. ASSUME NEW a \in messages'[c]
        PROVE  a.at < sent'[a.from] /\ a.at - s <= min_clock' /\ a.at <= a.id[2] + Lead
    <3>1. a.at \in Nat /\ a.from \in Workers /\ a.id \in Pushes
      BY <1>5
    <3>2. CASE a \in messages[c]
      <4>1. sent[a.from] <= sent'[a.from] /\ sent[a.from] \in Nat /\ sent'[a.from] \in Nat
        BY <1>1, <1>5, <3>1
      <4> QED BY <1>5, <2>1, <3>1, <3>2, <4>1
    <3>3. CASE a.id \in cache.buffer[c] /\ a.from = w /\ a.at = sent[w]
      <4>1. a.id[1] \in Workers /\ a.id[2] \in Nat
        BY <3>1 DEF Pushes
      <4>2. a.id[2] + 1 >= sent[a.id[1]] /\ sent[a.id[1]] >= clock[a.id[1]] /\ clock[a.id[1]] >= min_clock
            /\ sent[a.id[1]] \in Nat /\ clock[a.id[1]] \in Nat
        BY <1>1, <1>7, <1>8, <2>1, <3>3, <4>1
      <4> QED BY <1>1, <1>2, <1>5, <1>7, <3>3, <4>1, <4>2
    <3> QED BY <1>3, <1>5, <3>2, <3>3
  <2>4. pushed'[c] = {a.id : a \in messages'[c]} \union cache'.buffer[c] \union bsp'.params_[c]
    BY <1>3, <1>5, <2>1, <2>2
  <2> QED BY <2>1, <2>2, <2>3, <2>4
<1>10. Later(pushed, min_clock, pushed', min_clock')
  BY <1>1, <1>5 DEF Later, TypeOK
<1>11. cache'.buffer \in [Chunks -> SUBSET Pushes]
  BY <1>6
<1> QED BY <1>5, <1>6, <1>9, <1>10, <1>11

LEMMA PullFetches ==
  ASSUME FetchInv, NEW w \in Workers, Pull(w)
  PROVE  FetchInv'
<1>1. /\ ws[w] \in Local /\ table \in Tables /\ TypeOK /\ sent[w] \in Nat /\ min_clock \in Nat
      /\ clock \in [Workers -> Nat] /\ bsp \in BspState
  BY WorkerFacts DEF TypeOK
<1>2. PICK keys \in table.request :
           LET r == Asks(w, keys)
               t == Prepared(r) IN
           /\ Becomes(w, t) /\ t \in Local /\ r \in Local /\ SameRun(r, t) /\ ws[w].pc = "idle"
           /\ keys \subseteq Chunks /\ keys # {} /\ r.keys = keys
           /\ r.pull_count_ = ws[w].pull_count_ + 1 /\ r.push_count_ = ws[w].push_count_
           /\ r.updated = ws[w].updated /\ r.wait = {}
           /\ r.cached = ws[w].cached /\ r.chunk_clocks_ = ws[w].chunk_clocks_
           /\ r.cache_ts_ = ws[w].cache_ts_ /\ r.vals = ws[w].vals /\ r.answer = ws[w].answer
  BY PullFacts
<1>3. PICK r : r = Asks(w, keys)
  OBVIOUS
<1>4. PICK t : t = Prepared(r)
  OBVIOUS
<1>5. /\ Becomes(w, t) /\ t \in Local /\ r \in Local /\ SameRun(r, t) /\ ws[w].pc = "idle"
      /\ keys \subseteq Chunks /\ keys # {} /\ r.keys = keys /\ r.wait = {}
      /\ r.pull_count_ = ws[w].pull_count_ + 1 /\ r.push_count_ = ws[w].push_count_
      /\ r.cache_ts_ = ws[w].cache_ts_
  BY <1>2, <1>3, <1>4
<1>6. bsp' = bsp /\ pushed' = pushed /\ table' = table
  BY DEF Pull
<1>7. t.push_count_ = ws[w].push_count_
  BY <1>5 DEF SameRun
<1>8. PICK k : k = IF Buffered THEN sent[w] + 1 ELSE sent[w]
  OBVIOUS
<1>9. k \in Nat
  BY <1>1, <1>8
<1>10. Fetching(t, k, pushed, min_clock)
  BY <1>3, <1>4, <1>5, <1>8, <1>9, PullWorker
<1>11. CASE ~Buffered
  <2>1. UNCHANGED <<clock, sent, messages, pushed, cache>>
    BY <1>6, <1>11 DEF Pull, server
  <2>2. bsp' \in BspState /\ bsp'.params_ = bsp.params_
    BY <1>1, <1>6
  <2>3. Fetching(t, sent[w], pushed, min_clock)
    BY <1>8, <1>10, <1>11
  <2> QED BY <1>5, <1>7, <2>1, <2>2, <2>3, LocalStep
<1>12. CASE Buffered
  <2>1. Flush(w)
    BY <1>12 DEF Pull
  <2>2. /\ Sent' /\ clock' = clock /\ min_clock' = min_clock /\ sent' \in [Workers -> Nat]
        /\ messages' \in [Chunks -> SUBSET [id : Pushes, from : Workers, at : Nat]]
        /\ sent'[w] = sent[w] + 1 /\ \A u \in Workers : u # w => sent'[u] = sent[u]
        /\ cache'.params_ = cache.params_ /\ cache'.chunk_clocks_ = cache.chunk_clocks_
        /\ DOMAIN cache' = DOMAIN cache /\ cache'.buffer \in [Chunks -> SUBSET Pushes]
        /\ Later(pushed, min_clock, pushed', min_clock')
    BY <1>5, <1>6, <1>12, <2>1, FlushSent
  <2>3. clock' \in [Workers -> Nat] /\ \A u \in Workers : clock[u] <= clock'[u]
    BY <1>1, <2>2
  <2>4. min_clock' \in Nat
    BY <1>1, <2>2
  <2>5. CacheHolds'
    BY <1>6, <2>2, <2>3, CacheKept
  <2>6. /\ ws' \in [Workers -> Local] /\ table' \in Tables
        /\ ws'[w] = t /\ \A u \in Workers : u # w => ws'[u] = ws[u]
    BY <1>1, <1>5, BecomesType
  <2>7. TypeOK'
    BY <1>1, <1>6, <2>2, <2>6 DEF TypeOK
  <2>8. Fetching(t, sent'[w], pushed', min_clock')
    <3>1. Fetching(t, k, pushed', min_clock')
      BY <1>1, <1>5, <1>9, <1>10, <2>2, <2>4, FetchingKept
    <3> QED BY <1>8, <1>12, <2>2, <3>1
  <2>9. \A u \in Workers : Fetching(ws[u], sent[u], pushed, min_clock)'
    BY <1>5, <2>2, <2>3, <2>8, EachFetches
  <2>10. Numbered'
    <3>1. \A c \in Chunks : pushed[c] \subseteq Pushes
      BY <1>1 DEF TypeOK
    <3>2. \A q \in Pushes : q[1] \in Workers
      BY DEF Pushes
    <3>3. \A u \in Workers : /\ ws'[u].push_count_ = ws[u].push_count_
                             /\ ws[u].pc \in {"pushing", "send"} => ws'[u].pc \in {"pushing", "send"}
      BY <1>5, <1>7, <2>6
    <3> QED BY <1>6, <3>1, <3>2, <3>3 DEF FetchInv, Numbered
  <2> QED BY <2>2, <2>5, <2>7, <2>9, <2>10 DEF FetchInv
<1> QED BY <1>11, <1>12

------------------------------------------------------------------------------
(* Push.                                                                   *)

\* A worker makes its push at its clock, which min_clock_ has not passed.
LEMMA MadeLater ==
  ASSUME FetchInv, NEW w \in Workers, ws[w].pc = "push", Made(w),
         clock' \in [Workers -> Nat], \A u \in Workers : clock[u] <= clock'[u]
  PROVE  /\ pushed' \in [Chunks -> SUBSET Pushes] /\ Update(w) \in [Chunks -> SUBSET Pushes]
         /\ Later(pushed, min_clock, pushed', min_clock')
         /\ \A c \in Chunks :
              /\ pushed'[c] = pushed[c] \union Update(w)[c]
              /\ Update(w)[c] = IF c \in ws[w].keys THEN {<<w, ws[w].push_count_>>} ELSE {}
         /\ ws[w].push_count_ + (IF Buffered THEN 1 ELSE 0) = sent[w]
<1> DEFINE n == ws[w].push_count_
<1>1. /\ TypeOK /\ ws[w] \in Local /\ sent[w] \in Nat /\ min_clock \in Nat /\ min_clock <= sent[w]
      /\ Counted(ws[w], sent[w]) /\ table \in Tables
  BY WorkerFacts
<1>2. <<w, n>> \in Pushes /\ n \in Nat
  BY <1>1, OwnPush DEF Local
<1>3. n + (IF Buffered THEN 1 ELSE 0) = sent[w] /\ n + Lead >= sent[w]
  BY <1>1, <1>2, TableFacts DEF Counted, Local
<1>4. \A c \in Chunks : Update(w)[c] = IF c \in ws[w].keys THEN {<<w, n>>} ELSE {}
  BY DEF Update
<1>5. Update(w) \in [Chunks -> SUBSET Pushes]
  BY <1>2 DEF Update
<1>6. \A c \in Chunks : pushed'[c] = pushed[c] \union Update(w)[c]
  BY DEF Made
<1>7. \A c \in Chunks : pushed[c] \subseteq Pushes
  BY <1>1 DEF TypeOK
<1>8. \A c \in Chunks : pushed'[c] \in SUBSET Pushes
  BY <1>5, <1>6, <1>7
<1>9. pushed' \in [Chunks -> SUBSET Pushes]
  BY <1>8 DEF Made
<1>10. min_clock <= min_clock'
  BY <1>1, ClocksRise DEF TypeOK
<1>11. \A c \in Chunks : \A q \in pushed'[c] : q \in pushed[c] \/ q[2] + Lead >= min_clock
  <2> TAKE c \in Chunks
  <2> TAKE q \in pushed'[c]
  <2>1. q \in pushed[c] \/ q = <<w, n>>
    BY <1>4, <1>6
  <2>2. q = <<w, n>> => q[2] + Lead >= min_clock
    BY <1>1, <1>2, <1>3, TableFacts
  <2> QED BY <2>1, <2>2
<1>12. Later(pushed, min_clock, pushed', min_clock')
  BY <1>8, <1>10, <1>11 DEF Later
<1> QED BY <1>3, <1>4, <1>5, <1>6, <1>9, <1>12

\* A step that makes a push.
LEMMA PushStep ==
  ASSUME FetchInv, NEW w \in Workers, NEW r \in Local, Becomes(w, r), ws[w].pc = "push", Made(w),
         clock' = clock, sent' \in [Workers -> Nat],
         \A u \in Workers : u # w => sent'[u] = sent[u],
         messages' \in [Chunks -> SUBSET [id : Pushes, from : Workers, at : Nat]],
         DOMAIN cache' = DOMAIN cache, cache'.buffer \in [Chunks -> SUBSET Pushes],
         cache'.params_ = cache.params_, cache'.chunk_clocks_ = cache.chunk_clocks_,
         bsp' \in BspState, Sent',
         \/ r.push_count_ = ws[w].push_count_ + 1
         \/ r.push_count_ = ws[w].push_count_ /\ r.pc = "pushing",
         Fetching(r, sent'[w], pushed, min_clock)
  PROVE  FetchInv'
<1>0. clock \in [Workers -> Nat] /\ clock' \in [Workers -> Nat] /\ \A u \in Workers : clock[u] <= clock'[u]
  BY DEF FetchInv, TypeOK
<1>1. TypeOK /\ Numbered /\ table \in Tables /\ ws[w] \in Local /\ min_clock \in Nat
  BY WorkerFacts DEF FetchInv
<1>2. /\ ws' \in [Workers -> Local] /\ table' \in Tables /\ table' = table
      /\ ws'[w] = r /\ \A u \in Workers : u # w => ws'[u] = ws[u]
  BY <1>1, BecomesType DEF Becomes
<1>3. /\ pushed' \in [Chunks -> SUBSET Pushes] /\ Later(pushed, min_clock, pushed', min_clock')
      /\ \A c \in Chunks :
           /\ pushed'[c] = pushed[c] \union Update(w)[c]
           /\ Update(w)[c] = IF c \in ws[w].keys THEN {<<w, ws[w].push_count_>>} ELSE {}
  BY <1>0, MadeLater
<1>4. TypeOK'
  BY <1>0, <1>1, <1>2, <1>3 DEF TypeOK
<1>5. min_clock' \in Nat
  BY <1>0, ClocksRise
<1>6. CacheHolds'
  BY <1>0, <1>2, <1>3, CacheKept
<1>7. sent'[w] \in Nat
  OBVIOUS
<1>8. Fetching(r, sent'[w], pushed', min_clock')
  BY <1>1, <1>3, <1>5, <1>7, FetchingKept
<1>9. \A u \in Workers : Fetching(ws[u], sent[u], pushed, min_clock)'
  BY <1>0, <1>3, <1>8, EachFetches
<1>10. Numbered'
  <2> SUFFICES ASSUME NEW c \in Chunks, NEW q \in pushed'[c]
               PROVE  \/ q[2] < ws'[q[1]].push_count_
                      \/ q[2] = ws'[q[1]].push_count_ /\ ws'[q[1]].pc \in {"pushing", "send"}
    BY DEF Numbered
  <2>1. ws[w].push_count_ \in Nat /\ r.push_count_ \in Nat
    BY <1>1 DEF Local
  <2>2. CASE q \in pushed[c]
    <3>1. q[1] \in Workers /\ q[2] \in Nat
      BY <1>1, <2>2 DEF TypeOK, Pushes
    <3>2. \/ q[2] < ws[q[1]].push_count_
          \/ q[2] = ws[q[1]].push_count_ /\ ws[q[1]].pc \in {"pushing", "send"}
      BY <1>1, <2>2 DEF Numbered
    <3>3. CASE q[1] = w
      BY <1>2, <2>1, <3>1, <3>2, <3>3
    <3>4. CASE q[1] # w
      BY <1>2, <3>1, <3>2, <3>4
    <3> QED BY <3>3, <3>4
  <2>3. CASE q = <<w, ws[w].push_count_>>
    BY <1>2, <2>1, <2>3
  <2> QED BY <1>3, <2>2, <2>3
<1> QED BY <1>4, <1>6, <1>9, <1>10 DEF FetchInv

\* A worker that has pushed, at clock k of the server.
LEMMA IdleWorker ==
  ASSUME FetchInv, NEW w \in Workers, NEW r \in Local, NEW k \in Nat, r.pc = "idle",
         ws[w].pc \in {"push", "send"},
         r.push_count_ = ws[w].push_count_ + 1, r.pull_count_ = ws[w].pull_count_,
         r.wait = ws[w].wait, r.cache_ts_ = ws[w].cache_ts_,
         k = IF Buffered THEN sent[w] ELSE sent[w] + 1
  PROVE  Fetching(r, k, pushed, min_clock)
<1>1. /\ ws[w] \in Local /\ Placed(ws[w]) /\ Counted(ws[w], sent[w])
      /\ Fetching(ws[w], sent[w], pushed, min_clock)
  BY WorkerFacts
<1>2. Counted(r, k)
  BY <1>1 DEF Counted, Local
<1>3. Placed(r)
  BY <1>1 DEF Placed, Pulling
<1>4. ws[w].pc = "send" => ~Buffered
  BY <1>1 DEF Placed, Buffered, is
<1>5. Early(r, min_clock) /\ Answered(r, k, pushed, min_clock)
  BY <1>1, <1>4 DEF Fetching, Early, Answered
<1> QED BY <1>1, <1>2, <1>3, <1>5 DEF Fetching

\* The record after Push, with the thread cache x.
AfterPush(w, x) ==
  [ws[w] EXCEPT !.cached = x, !.pc = "idle", !.updated = FALSE,
                !.push_count_ = ws[w].push_count_ + 1, !.keys = {}]

\* What Push leaves of the thread cache.
Remains(w) == IF is({"PSWorker", "PSNoneChunk"}) THEN Nothing
              ELSE Sum(ws[w], <<w, ws[w].push_count_>>)

LEMMA AfterPushFacts ==
  ASSUME FetchInv, NEW w \in Workers, NEW x \in Contents
  PROVE  LET r == AfterPush(w, x) IN
         /\ r \in Local /\ r.pc = "idle" /\ r.push_count_ = ws[w].push_count_ + 1 /\ r.cached = x
         /\ r.pull_count_ = ws[w].pull_count_ /\ r.cache_ts_ = ws[w].cache_ts_ /\ r.wait = ws[w].wait
         /\ r.chunk_clocks_ = ws[w].chunk_clocks_ /\ r.vals = ws[w].vals /\ r.answer = ws[w].answer
<1>1. ws[w] \in Local
  BY WorkerFacts
<1>2. PICK n, e : n = ws[w].push_count_ + 1 /\ e = {}
  OBVIOUS
<1>3. n \in Nat /\ e \in SUBSET Chunks
  BY <1>1, <1>2 DEF Local
<1>4. PICK r : r = AfterPush(w, x)
  OBVIOUS
<1>5. r = [ws[w] EXCEPT !.cached = x, !.pc = "idle", !.updated = FALSE, !.push_count_ = n, !.keys = e]
  BY <1>2, <1>4 DEF AfterPush
<1>6. r \in Local
  BY <1>1, <1>3, <1>5 DEF Local
<1>7. /\ r.pc = "idle" /\ r.push_count_ = n /\ r.cached = x
      /\ r.pull_count_ = ws[w].pull_count_ /\ r.cache_ts_ = ws[w].cache_ts_ /\ r.wait = ws[w].wait
      /\ r.chunk_clocks_ = ws[w].chunk_clocks_ /\ r.vals = ws[w].vals /\ r.answer = ws[w].answer
  BY <1>1, <1>5 DEF Local
<1> QED BY <1>2, <1>4, <1>6, <1>7

LEMMA PushFacts ==
  ASSUME FetchInv, NEW w \in Workers, Push(w)
  PROVE  /\ ws[w].pc = "push" /\ ~Buffered /\ ~is({"PSBsp"})
         /\ Remains(w) \in Contents /\ Becomes(w, AfterPush(w, Remains(w)))
         /\ Update(w) \in [Chunks -> SUBSET Pushes]
<1> DEFINE old == ws[w]
           q == <<w, old.push_count_>>
<1>1. old \in Local /\ table \in Tables /\ q \in Pushes
  BY WorkerFacts, OwnPush
<1>2. old.pc = "push" /\ ~Buffered /\ ~is({"PSBsp"})
  BY DEF Push, Ready, At
<1>3. Aggregate(old, q) = [old EXCEPT !.cached = Remains(w)]
  BY <1>1, <1>2, AggregateFacts DEF Remains
<1>4. Nothing \in Contents
  BY ValueFacts DEF Nothing, Contents
<1>5. Remains(w) \in Contents
  BY <1>1, <1>4, SumFacts DEF Remains
<1>6. PICK x : x = Remains(w)
  OBVIOUS
<1>7. [Aggregate(old, q) EXCEPT !.pc = "idle", !.updated = FALSE, !.push_count_ = @ + 1, !.keys = {}]
        = AfterPush(w, x)
  BY <1>1, <1>3, <1>6 DEF AfterPush, Local
<1>8. Becomes(w, AfterPush(w, x))
  BY <1>7 DEF Push, Becomes
<1>9. Update(w) \in [Chunks -> SUBSET Pushes]
  BY <1>1 DEF Update
<1> QED BY <1>2, <1>5, <1>6, <1>8, <1>9

LEMMA PushFetches ==
  ASSUME FetchInv, NEW w \in Workers, Push(w)
  PROVE  FetchInv'
<1>1. /\ ws[w].pc = "push" /\ ~Buffered /\ ~is({"PSBsp"})
      /\ Remains(w) \in Contents /\ Becomes(w, AfterPush(w, Remains(w)))
      /\ Update(w) \in [Chunks -> SUBSET Pushes]
  BY PushFacts
<1>2. PICK r : r = AfterPush(w, Remains(w))
  OBVIOUS
<1>3. /\ r \in Local /\ r.pc = "idle" /\ r.push_count_ = ws[w].push_count_ + 1
      /\ r.pull_count_ = ws[w].pull_count_ /\ r.cache_ts_ = ws[w].cache_ts_ /\ r.wait = ws[w].wait
  BY <1>1, <1>2, AfterPushFacts
<1>4. TypeOK /\ sent[w] \in Nat /\ s \in Nat /\ table \in Tables /\ ws[w] \in Local
  BY WorkerFacts
<1>5. Send(w, Update(w)) /\ Made(w) /\ cache' = cache /\ bsp' = bsp /\ table' = table
  BY DEF Push
<1>6. PICK x : x = Update(w)
  OBVIOUS
<1>7. /\ clock' = clock /\ min_clock' = min_clock
      /\ sent' \in [Workers -> Nat] /\ sent'[w] = sent[w] + 1
      /\ \A u \in Workers : u # w => sent'[u] = sent[u]
      /\ \A u \in Workers : sent[u] <= sent'[u]
      /\ messages' \in [Chunks -> SUBSET [id : Pushes, from : Workers, at : Nat]]
      /\ \A c \in Chunks :
           /\ {a.id : a \in messages'[c]} = {a.id : a \in messages[c]} \union x[c]
           /\ \A a \in messages'[c] : a \in messages[c] \/ (a.id \in x[c] /\ a.from = w /\ a.at = sent[w])
  BY <1>1, <1>4, <1>5, <1>6, SentFacts
<1>8. /\ ws[w].push_count_ + (IF Buffered THEN 1 ELSE 0) = sent[w]
      /\ \A c \in Chunks :
           /\ pushed'[c] = pushed[c] \union x[c]
           /\ x[c] = IF c \in ws[w].keys THEN {<<w, ws[w].push_count_>>} ELSE {}
  <2>1. clock' \in [Workers -> Nat] /\ \A u \in Workers : clock[u] <= clock'[u]
    BY <1>4, <1>7 DEF TypeOK
  <2> QED BY <1>1, <1>5, <1>6, <2>1, MadeLater
<1>9. ws[w].push_count_ = sent[w]
  BY <1>1, <1>4, <1>8 DEF Local
<1>10. Sent'
  <2>1. s' = s /\ Buffered' = Buffered /\ (is({"PSBsp"}))' = is({"PSBsp"})
    BY <1>5 DEF s, Buffered, is
  <2>0. \A u \in Workers : clock'[u] <= sent'[u]
    BY <1>4, <1>7 DEF TypeOK, FetchInv, Sent
  <2> SUFFICES ASSUME NEW c \in Chunks
               PROVE  /\ pushed'[c] = {a.id : a \in messages'[c]} \union cache'.buffer[c] \union bsp'.params_[c]
                      /\ \A a \in messages'[c] : a.at < sent'[a.from] /\ a.at = a.id[2] /\ a.from = a.id[1]
                      /\ cache'.buffer[c] = {} /\ bsp'.params_[c] = {}
    BY <1>1, <2>0, <2>1 DEF Sent
  <2>2. /\ pushed[c] = {a.id : a \in messages[c]} \union cache.buffer[c] \union bsp.params_[c]
        /\ \A a \in messages[c] : a.at < sent[a.from] /\ a.at = a.id[2] /\ a.from = a.id[1]
        /\ cache.buffer[c] = {} /\ bsp.params_[c] = {}
    BY <1>1 DEF FetchInv, Sent
  <2>3. pushed'[c] = {a.id : a \in messages'[c]} \union cache'.buffer[c] \union bsp'.params_[c]
    BY <1>5, <1>7, <1>8, <2>2
  <2>4. ASSUME NEW a \in messages'[c]
        PROVE  a.at < sent'[a.from] /\ a.at = a.id[2] /\ a.from = a.id[1]
    <3>1. a.at \in Nat /\ a.from \in Workers
      BY <1>7
    <3>2. CASE a \in messages[c]
      <4>1. sent[a.from] <= sent'[a.from] /\ sent[a.from] \in Nat /\ sent'[a.from] \in Nat
        BY <1>4, <1>7, <3>1 DEF TypeOK
      <4> QED BY <2>2, <3>1, <3>2, <4>1
    <3>3. CASE a.id \in x[c] /\ a.from = w /\ a.at = sent[w]
      <4>1. a.id = <<w, ws[w].push_count_>>
        BY <1>8, <3>3
      <4> QED BY <1>4, <1>7, <1>9, <3>3, <4>1
    <3> QED BY <1>7, <3>2, <3>3
  <2> QED BY <1>5, <2>2, <2>3, <2>4
<1>11. PICK k : k = sent[w] + 1
  OBVIOUS
<1>12. Fetching(r, sent'[w], pushed, min_clock)
  <2>1. k \in Nat
    BY <1>4, <1>11
  <2>2. Fetching(r, k, pushed, min_clock)
    BY <1>1, <1>3, <1>11, <2>1, IdleWorker
  <2> QED BY <1>7, <1>11, <2>2
<1>13. /\ cache'.buffer \in [Chunks -> SUBSET Pushes] /\ bsp' \in BspState /\ DOMAIN cache' = DOMAIN cache
       /\ cache'.params_ = cache.params_ /\ cache'.chunk_clocks_ = cache.chunk_clocks_
  BY <1>4, <1>5 DEF TypeOK
<1>14. Becomes(w, r)
  BY <1>1, <1>2
<1> QED BY <1>1, <1>3, <1>5, <1>7, <1>10, <1>12, <1>13, <1>14, PushStep

LEMMA BufferFacts ==
  ASSUME FetchInv, NEW w \in Workers, PushToBuffer(w)
  PROVE  LET r == [ws[w] EXCEPT !.pc = "idle", !.push_count_ = ws[w].push_count_ + 1, !.keys = {},
                                !.cached = Nothing] IN
         /\ ws[w].pc = "push" /\ Buffered /\ Becomes(w, r) /\ r \in Local
         /\ r.pc = "idle" /\ r.push_count_ = ws[w].push_count_ + 1 /\ r.cached = Nothing
         /\ r.pull_count_ = ws[w].pull_count_ /\ r.cache_ts_ = ws[w].cache_ts_ /\ r.wait = ws[w].wait
         /\ r.chunk_clocks_ = ws[w].chunk_clocks_ /\ r.vals = ws[w].vals /\ r.answer = ws[w].answer
<1>1. ws[w] \in Local /\ TypeOK
  BY WorkerFacts
<1>2. ws[w].pc = "push" /\ Buffered
  BY DEF PushToBuffer, Ready, At
<1>3. PICK n, e, x : n = ws[w].push_count_ + 1 /\ e = {} /\ x = Nothing
  OBVIOUS
<1>4. n \in Nat /\ e \in SUBSET Chunks /\ x \in Contents
  BY <1>1, <1>3, ValueFacts DEF Local, Nothing, Contents
<1>5. PICK r : r = [ws[w] EXCEPT !.pc = "idle", !.push_count_ = n, !.keys = e, !.cached = x]
  OBVIOUS
<1>6. r \in Local
  BY <1>1, <1>4, <1>5 DEF Local
<1>7. /\ r.pc = "idle" /\ r.push_count_ = n /\ r.cached = x
      /\ r.pull_count_ = ws[w].pull_count_ /\ r.cache_ts_ = ws[w].cache_ts_ /\ r.wait = ws[w].wait
      /\ r.chunk_clocks_ = ws[w].chunk_clocks_ /\ r.vals = ws[w].vals /\ r.answer = ws[w].answer
  BY <1>1, <1>5 DEF Local
<1>8. Becomes(w, r)
  BY <1>1, <1>3, <1>5 DEF PushToBuffer, Becomes, TypeOK, Local
<1> QED BY <1>2, <1>3, <1>5, <1>6, <1>7, <1>8

LEMMA BufferFetches ==
  ASSUME FetchInv, NEW w \in Workers, PushToBuffer(w)
  PROVE  FetchInv'
<1>1. PICK r : r = [ws[w] EXCEPT !.pc = "idle", !.push_count_ = ws[w].push_count_ + 1, !.keys = {},
                                 !.cached = Nothing]
  OBVIOUS
<1>2. /\ ws[w].pc = "push" /\ Buffered /\ Becomes(w, r) /\ r \in Local
      /\ r.pc = "idle" /\ r.push_count_ = ws[w].push_count_ + 1
      /\ r.pull_count_ = ws[w].pull_count_ /\ r.cache_ts_ = ws[w].cache_ts_ /\ r.wait = ws[w].wait
  BY <1>1, BufferFacts
<1>3. TypeOK /\ sent[w] \in Nat /\ s \in Nat /\ table \in Tables /\ ws[w] \in Local
      /\ clock \in [Workers -> Nat]
  BY WorkerFacts DEF TypeOK
<1>4. /\ cache' = [cache EXCEPT !.buffer = [c \in Chunks |-> @[c] \union Update(w)[c]]]
      /\ Made(w) /\ clock' = clock /\ sent' = sent /\ messages' = messages /\ bsp' = bsp /\ table' = table
  BY DEF PushToBuffer, server
<1>5. clock' \in [Workers -> Nat] /\ \A u \in Workers : clock[u] <= clock'[u]
  BY <1>3, <1>4
<1>6. /\ ws[w].push_count_ + (IF Buffered THEN 1 ELSE 0) = sent[w] /\ Update(w) \in [Chunks -> SUBSET Pushes]
      /\ \A c \in Chunks :
           /\ pushed'[c] = pushed[c] \union Update(w)[c]
           /\ Update(w)[c] = IF c \in ws[w].keys THEN {<<w, ws[w].push_count_>>} ELSE {}
  BY <1>2, <1>4, <1>5, MadeLater
<1>7. PICK b : b = [c \in Chunks |-> cache.buffer[c] \union Update(w)[c]]
  OBVIOUS
<1>8. cache' = [cache EXCEPT !.buffer = b]
  BY <1>3, <1>4, <1>7 DEF TypeOK, NewCache
<1>9. /\ cache'.params_ = cache.params_ /\ cache'.chunk_clocks_ = cache.chunk_clocks_
      /\ DOMAIN cache' = DOMAIN cache /\ cache'.buffer = b
  BY <1>3, <1>8 DEF TypeOK, NewCache
<1>10. \A c \in Chunks : cache.buffer[c] \subseteq Pushes
  BY <1>3 DEF TypeOK
<1>11. cache'.buffer \in [Chunks -> SUBSET Pushes]
  BY <1>6, <1>7, <1>9, <1>10
<1>12. min_clock' = min_clock
  BY <1>4 DEF min_clock
<1>13. Sent'
  <2>1. s' = s /\ Buffered' /\ ~is({"PSBsp"}) /\ ~is({"PSBsp"})' /\ Lead' = Lead
    BY <1>2, <1>4 DEF s, Buffered, is, Lead
  <2>0. \A u \in Workers : clock'[u] <= sent'[u]
    BY <1>4 DEF FetchInv, Sent
  <2> SUFFICES ASSUME NEW c \in Chunks
               PROVE  /\ pushed'[c] = {a.id : a \in messages'[c]} \union cache'.buffer[c] \union bsp'.params_[c]
                      /\ \A a \in messages'[c] : /\ a.at < sent'[a.from] /\ a.at - s <= min_clock'
                                                 /\ a.at <= a.id[2] + Lead
                      /\ \A q \in cache'.buffer[c] : q[2] + 1 >= sent'[q[1]]
                      /\ bsp'.params_[c] = {}
    BY <2>0, <2>1 DEF Sent
  <2>2. /\ pushed[c] = {a.id : a \in messages[c]} \union cache.buffer[c] \union bsp.params_[c]
        /\ \A a \in messages[c] : /\ a.at < sent[a.from] /\ a.at - s <= min_clock
                                  /\ a.at <= a.id[2] + Lead
        /\ \A q \in cache.buffer[c] : q[2] + 1 >= sent[q[1]]
        /\ bsp.params_[c] = {}
    BY <1>2, <2>1 DEF FetchInv, Sent
  <2>3. cache'.buffer[c] = cache.buffer[c] \union Update(w)[c]
    BY <1>7, <1>9
  <2>4. pushed'[c] = {a.id : a \in messages'[c]} \union cache'.buffer[c] \union bsp'.params_[c]
    BY <1>4, <1>6, <2>2, <2>3
  <2>5. ASSUME NEW q \in cache'.buffer[c]
        PROVE  q[2] + 1 >= sent'[q[1]]
    <3>1. CASE q \in cache.buffer[c]
      BY <1>4, <2>2, <3>1
    <3>2. CASE q = <<w, ws[w].push_count_>>
      BY <1>2, <1>3, <1>4, <1>6, <3>2 DEF Local
    <3> QED BY <1>6, <2>3, <3>1, <3>2
  <2> QED BY <1>4, <1>12, <2>2, <2>4, <2>5
<1>14. Fetching(r, sent'[w], pushed, min_clock)
  <2>1. Fetching(r, sent[w], pushed, min_clock)
    BY <1>2, <1>3, IdleWorker
  <2> QED BY <1>4, <2>1
<1>15. bsp' \in BspState /\ messages' \in [Chunks -> SUBSET [id : Pushes, from : Workers, at : Nat]]
  BY <1>3, <1>4 DEF TypeOK
<1>16. sent' \in [Workers -> Nat] /\ \A u \in Workers : u # w => sent'[u] = sent[u]
  BY <1>3, <1>4 DEF TypeOK
<1> QED BY <1>2, <1>4, <1>9, <1>11, <1>13, <1>14, <1>15, <1>16, PushStep

LEMMA JoinPushFetches ==
  ASSUME FetchInv, NEW w \in Workers, JoinPush(w)
  PROVE  FetchInv'
<1> DEFINE r == [ws[w] EXCEPT !.pc = "pushing"]
<1>1. TypeOK /\ sent[w] \in Nat /\ s \in Nat /\ table \in Tables /\ ws[w] \in Local
      /\ clock \in [Workers -> Nat] /\ bsp \in BspState
      /\ Fetching(ws[w], sent[w], pushed, min_clock)
  BY WorkerFacts DEF TypeOK
<1>2. ws[w].pc = "push" /\ is({"PSBsp"}) /\ ~Buffered
  BY DEF JoinPush, Ready, At, Buffered, is
<1>3. /\ r \in Local /\ Becomes(w, r) /\ r.pc = "pushing"
      /\ r.pull_count_ = ws[w].pull_count_ /\ r.push_count_ = ws[w].push_count_
      /\ r.keys = ws[w].keys /\ r.cache_ts_ = ws[w].cache_ts_ /\ r.wait = ws[w].wait
  BY <1>1 DEF Local, JoinPush, Becomes, TypeOK
<1> HIDE DEF r
<1>4. Fetching(r, sent[w], pushed, min_clock)
  BY <1>1, <1>2, <1>3 DEF Fetching, Counted, Placed, Early, Answered, Pulling
<1>5. /\ bsp' = [bsp EXCEPT !.params_ = [c \in Chunks |-> @[c] \union Update(w)[c]], !.push_num_ = @ + 1]
      /\ Made(w) /\ clock' = clock /\ sent' = sent /\ messages' = messages /\ cache' = cache /\ table' = table
  BY DEF JoinPush, server
<1>6. clock' \in [Workers -> Nat] /\ \A u \in Workers : clock[u] <= clock'[u]
  BY <1>1, <1>5
<1>7. /\ Update(w) \in [Chunks -> SUBSET Pushes]
      /\ \A c \in Chunks : pushed'[c] = pushed[c] \union Update(w)[c]
  BY <1>2, <1>5, <1>6, MadeLater
<1>8. PICK x, n : x = [c \in Chunks |-> bsp.params_[c] \union Update(w)[c]] /\ n = bsp.push_num_ + 1
  OBVIOUS
<1>9. bsp' = [bsp EXCEPT !.params_ = x, !.push_num_ = n]
  BY <1>1, <1>5, <1>8 DEF BspState
<1>10. \A c \in Chunks : bsp.params_[c] \subseteq Pushes
  BY <1>1 DEF BspState
<1>11. x \in [Chunks -> SUBSET Pushes] /\ n \in Nat
  BY <1>1, <1>7, <1>8, <1>10 DEF BspState
<1>12. bsp' \in BspState /\ bsp'.params_ = x
  BY <1>1, <1>9, <1>11 DEF BspState
<1>13. Sent'
  <2>1. s' = s /\ ~Buffered' /\ is({"PSBsp"})'
    BY <1>2, <1>5 DEF s, Buffered, is
  <2>0. \A u \in Workers : clock'[u] <= sent'[u]
    BY <1>5 DEF FetchInv, Sent
  <2> SUFFICES ASSUME NEW c \in Chunks
               PROVE  /\ pushed'[c] = {a.id : a \in messages'[c]} \union cache'.buffer[c] \union bsp'.params_[c]
                      /\ \A a \in messages'[c] : a.at < sent'[a.from]
                      /\ cache'.buffer[c] = {}
    BY <2>0, <2>1 DEF Sent
  <2>2. /\ pushed[c] = {a.id : a \in messages[c]} \union cache.buffer[c] \union bsp.params_[c]
        /\ \A a \in messages[c] : a.at < sent[a.from]
        /\ cache.buffer[c] = {}
    BY <1>2 DEF FetchInv, Sent
  <2>3. bsp'.params_[c] = bsp.params_[c] \union Update(w)[c]
    BY <1>8, <1>12
  <2>4. pushed'[c] = {a.id : a \in messages'[c]} \union cache'.buffer[c] \union bsp'.params_[c]
    BY <1>5, <1>7, <2>2, <2>3
  <2> QED BY <1>5, <2>2, <2>4
<1>14. /\ cache'.buffer \in [Chunks -> SUBSET Pushes] /\ DOMAIN cache' = DOMAIN cache
       /\ cache'.params_ = cache.params_ /\ cache'.chunk_clocks_ = cache.chunk_clocks_
       /\ messages' \in [Chunks -> SUBSET [id : Pushes, from : Workers, at : Nat]]
       /\ sent' \in [Workers -> Nat] /\ \A u \in Workers : u # w => sent'[u] = sent[u]
  BY <1>1, <1>5 DEF TypeOK
<1>15. Fetching(r, sent'[w], pushed, min_clock)
  BY <1>4, <1>5
<1> QED BY <1>2, <1>3, <1>5, <1>12, <1>13, <1>14, <1>15, PushStep

LEMMA SendFacts ==
  ASSUME FetchInv, NEW w \in Workers, SendPush(w)
  PROVE  /\ ws[w].pc = "send" /\ is({"PSBsp"}) /\ ~Buffered
         /\ Becomes(w, AfterPush(w, Nothing)) /\ Nothing \in Contents
         /\ \E x \in [Chunks -> SUBSET Pushes] :
              /\ x = (IF w = 0 THEN bsp.params_ ELSE [c \in Chunks |-> {}]) /\ Send(w, x)
              /\ bsp' \in BspState /\ bsp'.keys = bsp.keys /\ bsp'.vals = bsp.vals
              /\ bsp'.pull_num_ = bsp.pull_num_ /\ bsp'.pull_num2_ = bsp.pull_num2_
              /\ bsp'.push_num_ = bsp.push_num_ /\ bsp'.push_num2_ = bsp.push_num2_
              /\ \A c \in Chunks : bsp.params_[c] = x[c] \union bsp'.params_[c]
              /\ \A c \in Chunks : bsp'.params_[c] = IF w = 0 THEN {} ELSE bsp.params_[c]
<1>1. ws[w] \in Local /\ TypeOK /\ Placed(ws[w]) /\ bsp \in BspState
  BY WorkerFacts DEF TypeOK
<1>2. ws[w].pc = "send" /\ is({"PSBsp"}) /\ ~Buffered
  BY <1>1 DEF SendPush, At, Placed, Buffered, is
<1>3. Becomes(w, AfterPush(w, Nothing))
  BY SMTT(40), <1>1 DEF SendPush, Becomes, AfterPush, TypeOK, Local
<1>4. Nothing \in Contents
  BY ValueFacts DEF Nothing, Contents
<1>5. PICK e : e = [c \in Chunks |-> {}]
  OBVIOUS
<1>6. e \in [Chunks -> SUBSET Pushes] /\ \A c \in Chunks : e[c] = {}
  BY <1>5
<1>7. PICK x : x = IF w = 0 THEN bsp.params_ ELSE e
  OBVIOUS
<1>8. x \in [Chunks -> SUBSET Pushes]
  BY <1>1, <1>6, <1>7 DEF BspState
<1>9. Send(w, x) /\ bsp' = IF w = 0 THEN [bsp EXCEPT !.params_ = e] ELSE bsp
  BY <1>5, <1>7 DEF SendPush
<1>10. /\ bsp' \in BspState /\ bsp'.keys = bsp.keys /\ bsp'.vals = bsp.vals
       /\ bsp'.pull_num_ = bsp.pull_num_ /\ bsp'.pull_num2_ = bsp.pull_num2_
       /\ bsp'.push_num_ = bsp.push_num_ /\ bsp'.push_num2_ = bsp.push_num2_
       /\ bsp'.params_ = IF w = 0 THEN e ELSE bsp.params_
  BY <1>1, <1>6, <1>9 DEF BspState
<1>11. /\ \A c \in Chunks : bsp.params_[c] = x[c] \union bsp'.params_[c]
       /\ \A c \in Chunks : bsp'.params_[c] = IF w = 0 THEN {} ELSE bsp.params_[c]
  BY <1>6, <1>7, <1>10
<1> QED BY <1>2, <1>3, <1>4, <1>5, <1>7, <1>8, <1>9, <1>10, <1>11

LEMMA SendFetches ==
  ASSUME FetchInv, NEW w \in Workers, SendPush(w)
  PROVE  FetchInv'
<1>1. /\ ws[w].pc = "send" /\ is({"PSBsp"}) /\ ~Buffered
      /\ Becomes(w, AfterPush(w, Nothing)) /\ Nothing \in Contents
  BY SendFacts
<1>2. PICK x \in [Chunks -> SUBSET Pushes] :
              /\ Send(w, x) /\ bsp' \in BspState
              /\ \A c \in Chunks : bsp.params_[c] = x[c] \union bsp'.params_[c]
  BY SendFacts
<1>3. PICK r : r = AfterPush(w, Nothing)
  OBVIOUS
<1>4. /\ r \in Local /\ r.pc = "idle" /\ r.push_count_ = ws[w].push_count_ + 1
      /\ r.pull_count_ = ws[w].pull_count_ /\ r.cache_ts_ = ws[w].cache_ts_ /\ r.wait = ws[w].wait
  BY <1>1, <1>3, AfterPushFacts
<1>5. /\ TypeOK /\ sent[w] \in Nat /\ table \in Tables /\ ws[w] \in Local /\ min_clock \in Nat
      /\ Numbered /\ clock \in [Workers -> Nat]
  BY WorkerFacts DEF FetchInv, TypeOK
<1>6. cache' = cache /\ pushed' = pushed /\ table' = table
  BY DEF SendPush
<1>7. /\ clock' = clock /\ min_clock' = min_clock
      /\ sent' \in [Workers -> Nat] /\ sent'[w] = sent[w] + 1
      /\ \A u \in Workers : u # w => sent'[u] = sent[u]
      /\ \A u \in Workers : sent[u] <= sent'[u]
      /\ messages' \in [Chunks -> SUBSET [id : Pushes, from : Workers, at : Nat]]
      /\ \A c \in Chunks :
           /\ {a.id : a \in messages'[c]} = {a.id : a \in messages[c]} \union x[c]
           /\ \A a \in messages'[c] : a \in messages[c] \/ (a.id \in x[c] /\ a.from = w /\ a.at = sent[w])
  BY <1>2, <1>5, SentFacts
<1>0. clock' \in [Workers -> Nat] /\ \A u \in Workers : clock[u] <= clock'[u]
  BY <1>5, <1>7
<1>8. Later(pushed, min_clock, pushed', min_clock')
  BY <1>5, <1>6, <1>7 DEF Later, TypeOK
<1>9. Sent'
  <2>1. s' = s /\ ~Buffered' /\ is({"PSBsp"})'
    BY <1>1, <1>6 DEF s, Buffered, is
  <2>0. \A u \in Workers : clock'[u] <= sent'[u]
    BY <1>5, <1>7 DEF TypeOK, FetchInv, Sent
  <2> SUFFICES ASSUME NEW c \in Chunks
               PROVE  /\ pushed'[c] = {a.id : a \in messages'[c]} \union cache'.buffer[c] \union bsp'.params_[c]
                      /\ \A a \in messages'[c] : a.at < sent'[a.from]
                      /\ cache'.buffer[c] = {}
    BY <2>0, <2>1 DEF Sent
  <2>2. /\ pushed[c] = {a.id : a \in messages[c]} \union cache.buffer[c] \union bsp.params_[c]
        /\ \A a \in messages[c] : a.at < sent[a.from]
        /\ cache.buffer[c] = {}
    BY <1>1 DEF FetchInv, Sent
  <2>3. pushed'[c] = {a.id : a \in messages'[c]} \union cache'.buffer[c] \union bsp'.params_[c]
    BY <1>2, <1>6, <1>7, <2>2
  <2>4. ASSUME NEW a \in messages'[c]
        PROVE  a.at < sent'[a.from]
    <3>1. a.at \in Nat /\ a.from \in Workers
      BY <1>7
    <3>2. CASE a \in messages[c]
      <4>1. sent[a.from] <= sent'[a.from] /\ sent[a.from] \in Nat /\ sent'[a.from] \in Nat
        BY <1>5, <1>7, <3>1 DEF TypeOK
      <4> QED BY <2>2, <3>1, <3>2, <4>1
    <3>3. CASE a.from = w /\ a.at = sent[w]
      BY <1>5, <1>7, <3>3
    <3> QED BY <1>7, <3>2, <3>3
  <2> QED BY <1>6, <2>2, <2>3, <2>4
<1>10. PICK k : k = sent[w] + 1
  OBVIOUS
<1>11. Fetching(r, sent'[w], pushed', min_clock')
  <2>1. k \in Nat
    BY <1>5, <1>10
  <2>2. Fetching(r, k, pushed, min_clock)
    BY <1>1, <1>4, <1>10, <2>1, IdleWorker
  <2>3. Fetching(r, k, pushed', min_clock')
    BY <1>4, <1>5, <1>7, <1>8, <2>1, <2>2, FetchingKept
  <2> QED BY <1>7, <1>10, <2>3
<1>12. /\ ws' \in [Workers -> Local] /\ table' \in Tables
       /\ ws'[w] = r /\ \A u \in Workers : u # w => ws'[u] = ws[u]
  BY <1>1, <1>3, <1>4, <1>5, BecomesType
<1>13. TypeOK'
  BY <1>2, <1>5, <1>6, <1>7, <1>12 DEF TypeOK
<1>14. CacheHolds'
  BY <1>0, <1>6, <1>8, CacheKept
<1>15. \A u \in Workers : Fetching(ws[u], sent[u], pushed, min_clock)'
  BY <1>0, <1>1, <1>3, <1>4, <1>7, <1>8, <1>11, EachFetches
<1>16. Numbered'
  <2> SUFFICES ASSUME NEW c \in Chunks, NEW q \in pushed[c]
               PROVE  \/ q[2] < ws'[q[1]].push_count_
                      \/ q[2] = ws'[q[1]].push_count_ /\ ws'[q[1]].pc \in {"pushing", "send"}
    BY <1>6 DEF Numbered
  <2>1. ws[w].push_count_ \in Nat
    BY <1>5 DEF Local
  <2>2. q[1] \in Workers /\ q[2] \in Nat
    BY <1>5 DEF TypeOK, Pushes
  <2>3. \/ q[2] < ws[q[1]].push_count_
        \/ q[2] = ws[q[1]].push_count_ /\ ws[q[1]].pc \in {"pushing", "send"}
    BY <1>5 DEF Numbered
  <2>4. CASE q[1] = w
    BY <1>4, <1>12, <2>1, <2>2, <2>3, <2>4
  <2>5. CASE q[1] # w
    BY <1>12, <2>2, <2>3, <2>5
  <2> QED BY <2>4, <2>5
<1> QED BY <1>9, <1>13, <1>14, <1>15, <1>16 DEF FetchInv

------------------------------------------------------------------------------
(* The clocks of the process cache.                                        *)

LEMMA InitFetches ==
  ASSUME Init
  PROVE  FetchInv
<1>1. /\ table \in Tables /\ clock = [w \in Workers |-> 0] /\ sent = [w \in Workers |-> 0]
      /\ messages = [c \in Chunks |-> {}] /\ ws = [w \in Workers |-> NewWorker] /\ cache = NewCache /\ bsp = NewBsp
      /\ pushed = [c \in Chunks |-> {}]
  BY DEF Init
<1>2. Nothing \in Contents /\ NoAnswer \in [clock : Nat, vals : Contents]
  <2>1. Nothing \in Contents
    BY ValueFacts DEF Nothing, Contents
  <2> QED BY <2>1 DEF NoAnswer
<1>3. /\ clock \in [Workers -> Nat] /\ sent \in [Workers -> Nat]
      /\ \A w \in Workers : clock[w] = 0 /\ sent[w] = 0
  BY <1>1
<1>4. min_clock \in Nat
  BY <1>3, Clocks
<1>5. s \in Nat /\ Lead \in Nat
  BY <1>1, TableFacts
<1>6. NewWorker \in Local
  <2>1. PICK a, v, e, z, k, b : /\ a = NoAnswer /\ v = Nothing /\ e = {} /\ z = 0
                             /\ k = [c \in Chunks |-> -1] /\ b = FALSE
    OBVIOUS
  <2>2. /\ a \in [clock : Nat, vals : Contents] /\ v \in Contents /\ e \in SUBSET Chunks /\ z \in Nat
        /\ k \in [Chunks -> Int]
    BY <1>2, <2>1
  <2>3. b \in BOOLEAN
    BY Zenon, <2>1
  <2>4. NewWorker = [pc |-> "idle", updated |-> b, pull_count_ |-> z, push_count_ |-> z,
                     keys |-> e, need |-> e, fetch |-> e, wait |-> e, todo |-> e, answer |-> a,
                     vals |-> v, label |-> z, cached |-> v, chunk_clocks_ |-> k, cache_ts_ |-> z]
    BY <2>1 DEF NewWorker
  <2> QED BY <2>2, <2>3, <2>4 DEF Local
<1>7. \A w \in Workers : ws[w] = NewWorker
  BY <1>1
<1>8. cache.params_ \in Contents /\ cache.chunk_clocks_ \in [Chunks -> Int]
      /\ cache.buffer \in [Chunks -> SUBSET Pushes] /\ DOMAIN cache = DOMAIN NewCache
  <2>1. /\ cache.params_ = Nothing /\ cache.chunk_clocks_ = [c \in Chunks |-> -1]
        /\ cache.buffer = [c \in Chunks |-> {}] /\ DOMAIN cache = DOMAIN NewCache
    BY <1>1 DEF NewCache
  <2> QED BY <1>2, <2>1
<1>9. bsp \in BspState
  <2>1. PICK v, e, z, x : v = Nothing /\ e = {} /\ z = 0 /\ x = [c \in Chunks |-> {}]
    OBVIOUS
  <2>2. v \in Contents /\ e \in SUBSET Chunks /\ z \in Nat /\ x \in [Chunks -> SUBSET Pushes]
    BY <1>2, <2>1
  <2>3. bsp = [params_ |-> x, keys |-> e, vals |-> v, push_num_ |-> z, push_num2_ |-> z,
               pull_num_ |-> z, pull_num2_ |-> z]
    BY <1>1, <2>1 DEF NewBsp
  <2> QED BY <2>2, <2>3 DEF BspState
<1>10. ws \in [Workers -> Local]
  BY <1>1, <1>6
<1>11. /\ messages \in [Chunks -> SUBSET [id : Pushes, from : Workers, at : Nat]]
       /\ pushed \in [Chunks -> SUBSET Pushes]
  BY <1>1
<1>12. TypeOK
  BY <1>1, <1>3, <1>8, <1>9, <1>10, <1>11 DEF TypeOK
<1>13. \A c \in Chunks : /\ pushed[c] = {} /\ messages[c] = {} /\ cache.buffer[c] = {}
                         /\ bsp.params_[c] = {} /\ cache.chunk_clocks_[c] = -1
  BY <1>1 DEF NewCache, NewBsp
<1>14. Numbered /\ Sent
  BY <1>3, <1>13 DEF Numbered, Sent
<1>15. CacheHolds
  BY <1>4, <1>13 DEF CacheHolds, Has
<1>16. \A w \in Workers : Fetching(ws[w], sent[w], pushed, min_clock)
  <2> TAKE w \in Workers
  <2>1. /\ ws[w].pc = "idle" /\ ws[w].pull_count_ = 0 /\ ws[w].push_count_ = 0 /\ ws[w].wait = {}
        /\ ws[w].cache_ts_ = 0
    BY <1>7 DEF NewWorker
  <2>2. Counted(ws[w], sent[w]) /\ Placed(ws[w])
    BY <1>3, <2>1 DEF Counted, Placed, Pulling
  <2>3. Early(ws[w], min_clock) /\ Answered(ws[w], sent[w], pushed, min_clock)
    BY <1>4, <1>5, <2>1 DEF Early, Answered
  <2> QED BY <1>4, <2>1, <2>2, <2>3 DEF Fetching
<1> QED BY <1>12, <1>14, <1>15, <1>16 DEF FetchInv

\* A push is received: the server's clocks go up, nothing else changes.
LEMMA ArrivesLater ==
  ASSUME FetchInv, NEW w \in Workers, Arrive(w)
  PROVE  /\ clock' \in [Workers -> Nat] /\ \A u \in Workers : clock[u] <= clock'[u]
         /\ \A u \in Workers : clock'[u] <= sent[u]
         /\ min_clock \in Nat /\ min_clock' \in Nat /\ min_clock <= min_clock'
         /\ UNCHANGED <<table, sent, messages, ws, cache, bsp, pushed>>
         /\ Later(pushed, min_clock, pushed', min_clock')
<1>1. TypeOK /\ clock \in [Workers -> Nat] /\ sent \in [Workers -> Nat]
      /\ \A u \in Workers : clock[u] <= sent[u]
  BY DEF FetchInv, TypeOK, Sent
<1>2. /\ clock[w] < sent[w] /\ clock' = [clock EXCEPT ![w] = @ + 1]
      /\ UNCHANGED <<table, sent, messages, ws, cache, bsp, pushed>>
  BY DEF Arrive
<1>3. /\ clock' \in [Workers -> Nat] /\ \A u \in Workers : clock[u] <= clock'[u]
      /\ \A u \in Workers : clock'[u] <= sent[u]
  BY <1>1, <1>2
<1>4. min_clock \in Nat /\ min_clock' \in Nat /\ min_clock <= min_clock'
  BY <1>1, <1>3, Clocks, ClocksRise
<1>5. Later(pushed, min_clock, pushed', min_clock')
  BY <1>1, <1>2, <1>4 DEF Later, TypeOK
<1> QED BY <1>2, <1>3, <1>4, <1>5

LEMMA ArriveFetches ==
  ASSUME FetchInv, NEW w \in Workers, Arrive(w)
  PROVE  FetchInv'
<1>1. /\ clock' \in [Workers -> Nat] /\ \A u \in Workers : clock[u] <= clock'[u]
      /\ \A u \in Workers : clock'[u] <= sent[u]
      /\ min_clock \in Nat /\ min_clock' \in Nat /\ min_clock <= min_clock'
      /\ UNCHANGED <<table, sent, messages, ws, cache, bsp, pushed>>
      /\ Later(pushed, min_clock, pushed', min_clock')
  BY ArrivesLater
<1>2. TypeOK /\ Numbered /\ Sent /\ s \in Nat /\ ws[w] \in Local
      /\ \A c \in Chunks : messages[c] \subseteq [id : Pushes, from : Workers, at : Nat]
  BY WorkerFacts DEF FetchInv, TypeOK
<1>3. TypeOK' /\ Numbered'
  BY <1>1, <1>2 DEF TypeOK, Numbered
<1>4. s' = s /\ Buffered' = Buffered /\ Lead' = Lead /\ is({"PSBsp"})' = is({"PSBsp"})
  BY <1>1 DEF s, Buffered, is, Lead
<1>5. \A c \in Chunks : \A a \in messages[c] : a.at - s <= min_clock => a.at - s <= min_clock'
  BY <1>1, <1>2
<1>6. Sent'
  BY <1>1, <1>2, <1>4, <1>5 DEF Sent
<1>7. CacheHolds'
  BY <1>1, CacheKept
<1>8. Becomes(w, ws[w])
  BY <1>1, <1>2 DEF Becomes, TypeOK
<1>9. Fetching(ws[w], sent'[w], pushed', min_clock')
  <2>1. Fetching(ws[w], sent[w], pushed, min_clock) /\ sent[w] \in Nat /\ table \in Tables
    BY WorkerFacts
  <2>2. Fetching(ws[w], sent[w], pushed', min_clock')
    BY <1>1, <1>2, <2>1, FetchingKept
  <2> QED BY <1>1, <2>2
<1>10. \A u \in Workers : Fetching(ws[u], sent[u], pushed, min_clock)'
  BY <1>1, <1>2, <1>8, <1>9, EachFetches
<1> QED BY <1>3, <1>6, <1>7, <1>10 DEF FetchInv

LEMMA StutterFetches ==
  ASSUME FetchInv, UNCHANGED vars
  PROVE  FetchInv'
<1>1. /\ table' = table /\ clock' = clock /\ sent' = sent /\ messages' = messages /\ ws' = ws /\ cache' = cache
      /\ bsp' = bsp /\ pushed' = pushed
  BY DEF vars
<1>2. min_clock' = min_clock /\ s' = s /\ Lead' = Lead /\ Buffered' = Buffered
      /\ is({"PSBsp"})' = is({"PSBsp"})
  BY <1>1 DEF min_clock, s, Lead, Buffered, is
<1>3. TypeOK' /\ Numbered' /\ Sent' /\ CacheHolds'
  BY <1>1, <1>2 DEF FetchInv, TypeOK, Numbered, Sent, CacheHolds, Has
<1>4. \A w \in Workers : Fetching(ws[w], sent[w], pushed, min_clock)'
  BY <1>1, <1>2, FetchingPrime DEF FetchInv
<1> QED BY <1>3, <1>4 DEF FetchInv

LEMMA NextFetches ==
  ASSUME FetchInv, [Next]_vars
  PROVE  FetchInv'
<1>1. ASSUME NEW w \in Workers, Step(w)
      PROVE  FetchInv'
  BY <1>1, PullFetches, ProcessFetches, ManageFetches, FetchFetches, InstallFetches, ReleaseFetches,
     CopyFetches, UpdateFetches, PushFetches, BufferFetches, RegisterFetches, JoinPullFetches,
     LeavePullFetches, JoinPushFetches, LeavePushFetches, SendFetches DEF Step
<1>2. CASE UNCHANGED vars
  BY <1>2, StutterFetches
<1>3. ASSUME NEW w \in Workers, Arrive(w)
      PROVE  FetchInv'
  BY <1>3, ArriveFetches
<1> QED BY <1>1, <1>2, <1>3 DEF Next, Finished

\* Every variable keeps its type: in particular the caches hold sets of pushes
\* and nothing else, whatever the threads of the process do.
THEOREM TypeCorrect == Spec => []TypeOK
<1>1. Init => FetchInv
  BY InitFetches
<1>2. FetchInv /\ [Next]_vars => FetchInv'
  BY NextFetches
<1>3. FetchInv => TypeOK
  BY DEF FetchInv
<1> QED BY <1>1, <1>2, <1>3, PTL DEF Spec

LEMMA ClocksHonest ==
  ASSUME FetchInv
  PROVE  CacheClocks
<1>1. LabelsHonest
  BY DEF FetchInv, CacheHolds, LabelsHonest, Has
<1>2. FetchedNewEnough
  <2> SUFFICES ASSUME NEW w \in Workers, At(w, "release")
               PROVE  ws[w].answer.clock >= Required(ws[w])
    BY DEF FetchedNewEnough
  <2>1. /\ ws[w] \in Local /\ Placed(ws[w]) /\ Counted(ws[w], sent[w]) /\ sent[w] \in Nat
        /\ table \in Tables /\ Fetching(ws[w], sent[w], pushed, min_clock) /\ s \in Nat
    BY WorkerFacts
  <2>2. ws[w].pc = "release" /\ Managed /\ ws[w].answer.clock \in Nat
    BY <2>1 DEF At, Placed, Local
  <2>3. ws[w].answer.clock >= sent[w] - s
    BY <2>1, <2>2 DEF Fetching, Answered
  <2>4. Required(ws[w]) = IF sent[w] >= s THEN sent[w] - s ELSE 0
    BY <2>1, <2>2, RequiredClock
  <2> QED BY <2>1, <2>2, <2>3, <2>4
<1> QED BY <1>1, <1>2 DEF CacheClocks

\* ChunkBasedPSModel: however the threads of a process interleave their
\* fetches and whenever the pushes they have sent arrive, a chunk of the process
\* cache has every push below the clock it is labelled with (less 1 + staleness
\* with the push buffer, which is sent by whichever thread pulls next and not
\* waited for), and what fetch_mgr_fetch_chunk has fetched is as new as it
\* asserts.
THEOREM ClocksReliable == Spec => []CacheClocks
<1>1. Init => FetchInv
  BY InitFetches
<1>2. FetchInv /\ [Next]_vars => FetchInv'
  BY NextFetches
<1>3. FetchInv => CacheClocks
  BY ClocksHonest
<1> QED BY <1>1, <1>2, <1>3, PTL DEF Spec

------------------------------------------------------------------------------
(* What a pull returns.                                                    *)

Reading(w, r, k, P, m, L) ==
  Asked(r) /\ Copied(r, k, P, m, L) /\ Holds(r, k, P, m) /\ HoldsOwn(w, r, P)

LEMMA ReadingKept ==
  ASSUME table \in Tables, NEW w, NEW r \in Local, NEW k \in Nat, NEW P, NEW m \in Nat, NEW Q, NEW n \in Nat,
         NEW L \in [Chunks -> Int], NEW M \in [Chunks -> Int],
         Later(P, m, Q, n), \A c \in Chunks : L[c] <= M[c],
         \A c \in Chunks : \A q \in Q[c] : q \in P[c] \/ q[1] # w,
         Reading(w, r, k, P, m, L)
  PROVE  Reading(w, r, k, Q, n, M)
<1>1. ASSUME NEW c \in Chunks, NEW v, NEW l \in Int, Has(P[c], m, v, l)
      PROVE  Has(Q[c], n, v, l)
  <2>1. /\ Q[c] \in SUBSET Pushes /\ m <= n
        /\ \A q \in Q[c] : q \in P[c] \/ q[2] + Lead >= m
    BY DEF Later
  <2> QED BY <1>1, <2>1, HasKept
<1>2. /\ r.cache_ts_ \in Int /\ r.label \in Int /\ r.need \subseteq Chunks /\ r.keys \subseteq Chunks
      /\ r.chunk_clocks_ \in [Chunks -> Int] /\ r.pull_count_ \in Nat /\ s \in Nat /\ Behind \in Nat
  BY TableFacts DEF Local
<1>3. Copied(r, k, Q, n, M)
  <2>1. \A c \in r.need : Enough(r, k, L[c]) => Enough(r, k, M[c])
    BY <1>2 DEF Enough
  <2>2. \A c \in r.need : Has(P[c], m, r.vals[c], r.label) => Has(Q[c], n, r.vals[c], r.label)
    BY <1>1, <1>2
  <2> QED BY <2>1, <2>2 DEF Reading, Copied
<1>4. is({"PSMapNone"}) => MapNoneHolds(r, Q, n)
  <2>1. r.cache_ts_ - 1 - s \in Int
    BY <1>2
  <2> QED BY <1>1, <2>1 DEF Reading, Holds, MapNoneHolds
<1>5. is({"PSMapChunk"}) => MapChunkHolds(r, Q, n)
  <2>1. r.cache_ts_ - 1 \in Int
    BY <1>2
  <2>2. \A c \in Chunks : Has(P[c], m, r.cached[c], r.cache_ts_ - 1) => Has(Q[c], n, r.cached[c], r.cache_ts_ - 1)
    BY <1>1, <2>1
  <2>3. is({"PSMapChunk"}) => MapChunkHolds(r, P, m)
    BY DEF Reading, Holds
  <2> QED BY <2>2, <2>3 DEF MapChunkHolds
<1>6. is({"PSChunkNone", "PSChunkChunk"}) => ChunksHold(r, Q, n)
  <2>1. \A c \in Chunks : r.chunk_clocks_[c] \in Int
    BY <1>2
  <2>2. is({"PSChunkNone", "PSChunkChunk"}) => ChunksHold(r, P, m)
    BY DEF Reading, Holds
  <2> QED BY <1>1, <2>1, <2>2 DEF ChunksHold
<1>7. Holds(r, k, Q, n)
  <2>1. k - Behind \in Int
    BY <1>2
  <2>2. \A c \in r.keys : Has(P[c], m, r.cached[c], k - Behind) => Has(Q[c], n, r.cached[c], k - Behind)
    BY <1>1, <1>2, <2>1
  <2> QED BY <1>4, <1>5, <1>6, <2>2 DEF Reading, Holds
<1>8. HoldsOwn(w, r, Q)
  BY DEF Reading, HoldsOwn
<1> QED BY <1>3, <1>7, <1>8 DEF Reading

LEMMA ReadingPrime ==
  ASSUME table' = table, NEW w \in Workers,
         Reading(w, ws'[w], sent'[w], pushed', min_clock', cache'.chunk_clocks_)
  PROVE  Reading(w, ws[w], sent[w], pushed, min_clock, cache.chunk_clocks_)'
<1>1. /\ s' = s /\ Lead' = Lead /\ OverCache' = OverCache /\ Behind' = Behind
      /\ (is({"PSMapChunk"}))' = is({"PSMapChunk"}) /\ (is({"PSBsp"}))' = is({"PSBsp"})
      /\ (is({"PSMapNone"}))' = is({"PSMapNone"}) /\ (is({"PSChunkNone"}))' = is({"PSChunkNone"})
      /\ (is({"PSChunkChunk"}))' = is({"PSChunkChunk"})
      /\ (is({"PSWorker", "PSNoneChunk"}))' = is({"PSWorker", "PSNoneChunk"})
      /\ (is({"PSChunkNone", "PSChunkChunk"}))' = is({"PSChunkNone", "PSChunkChunk"})
      /\ (is({"PSWorker", "PSMapNone", "PSChunkNone"}))' = is({"PSWorker", "PSMapNone", "PSChunkNone"})
  BY DEF Buffered, s, Lead, OverCache, is, Behind
<1>2. Asked(ws[w])'
  BY <1>1 DEF Reading, Asked, MapNoneNeeds, MapChunkNeeds, ChunkNoneNeeds, ChunkChunkNeeds, TooOld,
              Missing, min_clock_of
<1>3. Copied(ws[w], sent[w], pushed, min_clock, cache.chunk_clocks_)'
  BY <1>1 DEF Reading, Copied, Enough, Has, Pending
<1>4. is({"PSMapNone"})' => MapNoneHolds(ws[w], pushed, min_clock)'
  BY <1>1 DEF Reading, Holds, MapNoneHolds, Has
<1>5. is({"PSMapChunk"})' => MapChunkHolds(ws[w], pushed, min_clock)'
  BY <1>1 DEF Reading, Holds, MapChunkHolds, Has
<1>6. is({"PSChunkNone", "PSChunkChunk"})' => ChunksHold(ws[w], pushed, min_clock)'
  BY <1>1 DEF Reading, Holds, ChunksHold, Has
<1>7. Holds(ws[w], sent[w], pushed, min_clock)'
  BY <1>1, <1>4, <1>5, <1>6 DEF Reading, Holds, Has
<1>8. HoldsOwn(w, ws[w], pushed)'
  BY <1>1 DEF Reading, HoldsOwn
<1> QED BY <1>2, <1>3, <1>7, <1>8 DEF Reading

LEMMA ReadFacts ==
  ASSUME ReadInv, OneTimestamp, NEW w \in Workers
  PROVE  Reading(w, ws[w], sent[w], pushed, min_clock, cache.chunk_clocks_)
BY DEF ReadInv, Reading

\* A step of worker w that ends with record r: the others may rely on what
\* they relied on.
LEMMA EachReads ==
  ASSUME FetchInv, FetchInv', ReadInv, NEW w \in Workers, NEW r \in Local, Becomes(w, r),
         \A u \in Workers : u # w => sent'[u] = sent[u],
         Later(pushed, min_clock, pushed', min_clock'),
         \A c \in Chunks : cache.chunk_clocks_[c] <= cache'.chunk_clocks_[c],
         \A c \in Chunks : \A q \in pushed'[c] : q \in pushed[c] \/ q[1] = w,
         OneTimestamp => Reading(w, r, sent'[w], pushed', min_clock', cache'.chunk_clocks_)
  PROVE  ReadInv'
<1>1. /\ table \in Tables /\ table' = table /\ clock \in [Workers -> Nat] /\ clock' \in [Workers -> Nat]
      /\ \A u \in Workers : ws[u] \in Local
      /\ cache.chunk_clocks_ \in [Chunks -> Int] /\ cache'.chunk_clocks_ \in [Chunks -> Int] /\ TypeOK
  BY DEF FetchInv, TypeOK, Becomes
<1>2. ws'[w] = r /\ \A u \in Workers : u # w => ws'[u] = ws[u]
  BY <1>1, BecomesType
<1>3. min_clock \in Nat /\ min_clock' \in Nat
  <2>1. PICK m : m = Min({clock'[u] : u \in Workers})
    OBVIOUS
  <2>2. m \in Nat
    BY <1>1, <2>1, MinOfClocks
  <2> QED BY <1>1, <2>1, <2>2, Clocks DEF min_clock
<1>4. OneTimestamp' = OneTimestamp
  BY <1>1 DEF OneTimestamp, is, s
<1> SUFFICES ASSUME OneTimestamp, NEW u \in Workers
             PROVE  Reading(u, ws'[u], sent'[u], pushed', min_clock', cache'.chunk_clocks_)
  BY <1>1, <1>4, ReadingPrime DEF ReadInv, Reading
<1>5. CASE u = w
  BY <1>2, <1>5
<1>6. CASE u # w
  <2>1. ws'[u] = ws[u] /\ sent'[u] = sent[u] /\ sent[u] \in Nat /\ ws[u] \in Local
    BY <1>1, <1>2, <1>6 DEF TypeOK
  <2>2. \A c \in Chunks : \A q \in pushed'[c] : q \in pushed[c] \/ q[1] # u
    BY <1>6
  <2>3. Reading(u, ws[u], sent[u], pushed, min_clock, cache.chunk_clocks_)
    BY ReadFacts
  <2>4. Reading(u, ws[u], sent[u], pushed', min_clock', cache'.chunk_clocks_)
    BY <1>1, <1>3, <2>1, <2>2, <2>3, ReadingKept
  <2> QED BY <2>1, <2>4
<1> QED BY <1>5, <1>6

\* A step that changes nothing but the record of its worker.
LEMMA LocalReads ==
  ASSUME FetchInv, FetchInv', ReadInv, NEW w \in Workers, NEW r \in Local, Becomes(w, r),
         UNCHANGED <<clock, sent, pushed>>, cache'.chunk_clocks_ = cache.chunk_clocks_,
         OneTimestamp => Reading(w, r, sent[w], pushed, min_clock, cache.chunk_clocks_)
  PROVE  ReadInv'
<1>1. TypeOK /\ min_clock \in Nat
  BY WorkerFacts
<1>2. clock' = clock /\ pushed' = pushed /\ min_clock' = min_clock
  BY DEF min_clock
<1>3. Later(pushed, min_clock, pushed', min_clock')
  BY <1>1, <1>2 DEF Later, TypeOK
<1>4. /\ \A c \in Chunks : cache.chunk_clocks_[c] <= cache'.chunk_clocks_[c]
      /\ \A c \in Chunks : \A q \in pushed'[c] : q \in pushed[c] \/ q[1] = w
  BY <1>1, <1>2 DEF TypeOK
<1>5. OneTimestamp => Reading(w, r, sent'[w], pushed', min_clock', cache'.chunk_clocks_)
  BY <1>2
<1> QED BY <1>2, <1>3, <1>4, <1>5, EachReads

\* PSBsp: nothing is cached from one iteration to the next.
LEMMA BspReads ==
  ASSUME FetchInv', table' = table, is({"PSBsp"})
  PROVE  ReadInv'
<1>1. is({"PSBsp"})' /\ (~is({"PSMapNone"}))' /\ (~is({"PSMapChunk"}))' /\ (~is({"PSChunkNone"}))'
      /\ (~is({"PSChunkChunk"}))' /\ (~is({"PSWorker", "PSNoneChunk"}))' /\ ~OverCache'
      /\ (~is({"PSChunkNone", "PSChunkChunk"}))' /\ (~is({"PSWorker", "PSMapNone", "PSChunkNone"}))'
  BY DEF is, OverCache
<1>2. \A w \in Workers : ws'[w].pc # "copy"
  BY <1>1 DEF FetchInv, Fetching, Placed, Pulling
<1> QED BY <1>1, <1>2 DEF ReadInv, Asked, Copied, Holds, HoldsOwn

\* While a worker waits for what it has asked for, its thread cache stays.
SameCache(r, t) ==
  /\ t.pull_count_ = r.pull_count_ /\ t.push_count_ = r.push_count_ /\ t.keys = r.keys
  /\ t.cached = r.cached /\ t.chunk_clocks_ = r.chunk_clocks_ /\ t.cache_ts_ = r.cache_ts_

LEMMA StillAsked ==
  ASSUME NEW r \in Local, NEW t \in Local, SameCache(r, t), t.need = r.need,
         r.pc \in Pulling, Asked(r)
  PROVE  Asked(t)
<1>1. TooOld(t) = TooOld(r) /\ Missing(t) = Missing(r) /\ min_clock_of(t) = min_clock_of(r)
  BY DEF TooOld, Missing, min_clock_of, SameCache
<1>2. /\ MapNoneNeeds(t) = MapNoneNeeds(r) /\ MapChunkNeeds(t) = MapChunkNeeds(r)
      /\ ChunkNoneNeeds(t) = ChunkNoneNeeds(r) /\ ChunkChunkNeeds(t) = ChunkChunkNeeds(r)
  BY <1>1 DEF MapNoneNeeds, MapChunkNeeds, ChunkNoneNeeds, ChunkChunkNeeds, SameCache
<1> QED BY <1>1, <1>2 DEF Asked, SameCache

LEMMA StillHolds ==
  ASSUME NEW w, NEW r \in Local, NEW t \in Local, NEW k, NEW P, NEW m, SameCache(r, t), t.need = r.need,
         r.pc \in Pulling \ {"copy"}, t.pc \in Pulling, t.pc = "copy" => t.todo = t.need,
         Holds(r, k, P, m), HoldsOwn(w, r, P)
  PROVE  Holds(t, k, P, m) /\ HoldsOwn(w, t, P)
<1>1. is({"PSMapNone"}) => MapNoneHolds(t, P, m)
  BY DEF Holds, MapNoneHolds, SameCache
<1>2. is({"PSMapChunk"}) => MapChunkHolds(t, P, m)
  <2>1. is({"PSMapChunk"}) => MapChunkHolds(r, P, m)
    BY DEF Holds
  <2> QED BY <2>1 DEF MapChunkHolds, SameCache
<1>3. is({"PSChunkNone", "PSChunkChunk"}) => ChunksHold(t, P, m)
  <2>1. ~(r.pc = "copy") /\ \A c \in Chunks : ~(t.pc = "copy" /\ c \in t.need \ t.todo)
    OBVIOUS
  <2> QED BY <2>1 DEF Holds, ChunksHold, SameCache
<1>4. t.pc # "push"
  BY DEF Pulling
<1>5. HoldsOwn(w, t, P)
  BY DEF HoldsOwn, SameCache
<1> QED BY <1>1, <1>2, <1>3, <1>4, <1>5 DEF Holds

\* A chunk as new as Required is new enough.
LEMMA RequiredEnough ==
  ASSUME table \in Tables, NEW r \in Local, NEW k \in Nat, Counted(r, k), r.pc # "idle",
         NEW l \in Int, ~(l < Required(r))
  PROVE  Enough(r, k, l)
<1>1. /\ Required(r) \in Nat /\ Required(r) >= k - s
      /\ ~is({"PSChunkChunk"}) => Required(r) >= r.pull_count_ - s
  BY RequiredClock
<1>2. s \in Nat /\ r.pull_count_ \in Nat
  BY TableFacts DEF Local
<1>3. is({"PSMapChunk"}) => ~is({"PSChunkChunk"})
  BY DEF is
<1> QED BY <1>1, <1>2, <1>3 DEF Enough

LEMMA SameEnough ==
  ASSUME NEW r, NEW t, SameCache(r, t), NEW k, NEW l
  PROVE  Enough(t, k, l) <=> Enough(r, k, l)
BY DEF Enough, SameCache

\* A pulling worker goes on to t, still waiting for what is not new enough.
LEMMA WaitingReads ==
  ASSUME FetchInv, FetchInv', ReadInv, NEW w \in Workers, NEW t \in Local, Becomes(w, t),
         UNCHANGED <<clock, sent, pushed>>, cache'.chunk_clocks_ = cache.chunk_clocks_,
         SameCache(ws[w], t), t.need = ws[w].need,
         ws[w].pc \in Pulling \ {"copy"}, t.pc \in Pulling, t.pc = "copy" => t.todo = t.need,
         \A c \in t.need \ Pending(t) :
            \/ c \notin Pending(ws[w])
            \/ ~(cache.chunk_clocks_[c] < Required(ws[w]))
  PROVE  ReadInv'
<1>1. /\ ws[w] \in Local /\ table \in Tables /\ sent[w] \in Nat /\ Counted(ws[w], sent[w])
      /\ \A c \in Chunks : cache.chunk_clocks_[c] \in Int
  BY WorkerFacts
<1>2. ws[w].pc # "idle" /\ ws[w].need \subseteq Chunks
  BY <1>1 DEF Pulling, Local
<1> SUFFICES ASSUME OneTimestamp
             PROVE  Reading(w, t, sent[w], pushed, min_clock, cache.chunk_clocks_)
  BY LocalReads
<1>3. Reading(w, ws[w], sent[w], pushed, min_clock, cache.chunk_clocks_)
  BY ReadFacts
<1>4. Asked(t) /\ Holds(t, sent[w], pushed, min_clock) /\ HoldsOwn(w, t, pushed)
  BY <1>1, <1>3, StillAsked, StillHolds DEF Reading
<1>5. Copied(t, sent[w], pushed, min_clock, cache.chunk_clocks_)
  <2> SUFFICES ASSUME OverCache, NEW c \in t.need \ Pending(t)
               PROVE  Enough(t, sent[w], cache.chunk_clocks_[c])
    BY DEF Copied
  <2>1. cache.chunk_clocks_[c] \in Int
    BY <1>1, <1>2
  <2>2. CASE c \notin Pending(ws[w])
    <3>1. Enough(ws[w], sent[w], cache.chunk_clocks_[c])
      BY <1>3, <2>2 DEF Reading, Copied
    <3> QED BY <3>1, SameEnough
  <2>3. CASE ~(cache.chunk_clocks_[c] < Required(ws[w]))
    <3>1. Enough(ws[w], sent[w], cache.chunk_clocks_[c])
      BY <1>1, <1>2, <2>1, <2>3, RequiredEnough
    <3> QED BY <3>1, SameEnough
  <2> QED BY <2>2, <2>3
<1> QED BY <1>4, <1>5 DEF Reading

LEMMA ProcessReads ==
  ASSUME FetchInv, FetchInv', ReadInv, NEW w \in Workers, Process(w)
  PROVE  ReadInv'
<1> DEFINE old == ws[w]
           stale == {c \in old.need : cache.chunk_clocks_[c] < Required(old)}
           r == [old EXCEPT !.fetch = stale, !.wait = {}, !.todo = old.need,
                   !.pc = IF stale = {} THEN "copy" ELSE IF Managed THEN "manage" ELSE "fetch"]
<1>1. old \in Local /\ TypeOK
  BY WorkerFacts
<1>2. old.pc = "process"
  BY DEF Process, At
<1>3. Becomes(w, r)
  BY <1>1 DEF Process, Becomes, TypeOK, Local
<1>4. UNCHANGED <<clock, sent, pushed>> /\ cache' = cache
  BY DEF Process, server
<1>5. /\ SameCache(old, r) /\ r.need = old.need /\ r.todo = old.need /\ r.fetch = stale /\ r.wait = {}
      /\ r.pc = IF stale = {} THEN "copy" ELSE IF Managed THEN "manage" ELSE "fetch"
  BY <1>1 DEF Local, SameCache
<1>6. r \in Local
  <2>1. r = ws'[w]
    BY <1>1, <1>3 DEF Becomes, TypeOK
  <2> HIDE DEF r
  <2> QED BY <2>1 DEF FetchInv, TypeOK
<1>7. Pending(r) = stale
  BY <1>5 DEF Pending
<1> HIDE DEF r
<1>8. \A c \in r.need \ Pending(r) : ~(cache.chunk_clocks_[c] < Required(old))
  BY <1>5, <1>7
<1>9. old.pc \in Pulling \ {"copy"} /\ r.pc \in Pulling /\ (r.pc = "copy" => r.todo = r.need)
  BY <1>2, <1>5 DEF Pulling
<1> QED BY <1>3, <1>4, <1>5, <1>6, <1>8, <1>9, WaitingReads

LEMMA ManageReads ==
  ASSUME FetchInv, FetchInv', ReadInv, NEW w \in Workers, Manage(w)
  PROVE  ReadInv'
<1> DEFINE old == ws[w]
           m == Required(old)
           stale == {c \in old.fetch : cache.chunk_clocks_[c] < m}
           real == {c \in stale : Mine(c, m)}
           wait == stale \ real
           r == [old EXCEPT !.fetch = IF real # {} THEN real ELSE wait, !.wait = wait,
                   !.pc = IF real # {} THEN "fetch" ELSE IF wait # {} THEN "manage" ELSE "copy"]
<1>1. old \in Local /\ TypeOK /\ Placed(old)
  BY WorkerFacts
<1>2. old.pc = "manage" /\ old.todo = old.need
  BY <1>1 DEF Manage, At, Placed
<1>3. Becomes(w, r)
  BY <1>1 DEF Manage, Becomes, TypeOK, Local
<1>4. UNCHANGED <<clock, sent, pushed>> /\ cache'.chunk_clocks_ = cache.chunk_clocks_
  BY <1>1 DEF Manage, server, TypeOK, NewCache
<1>5. real \union wait = stale
  OBVIOUS
<1> HIDE DEF real, wait
<1>6. /\ SameCache(old, r) /\ r.need = old.need /\ r.todo = old.todo /\ r.wait = wait
      /\ r.fetch = (IF real # {} THEN real ELSE wait)
      /\ r.pc = IF real # {} THEN "fetch" ELSE IF wait # {} THEN "manage" ELSE "copy"
  BY <1>1 DEF Local, SameCache
<1>7. r \in Local
  <2>1. r = ws'[w]
    BY <1>1, <1>3 DEF Becomes, TypeOK
  <2> HIDE DEF r
  <2> QED BY <2>1 DEF FetchInv, TypeOK
<1> HIDE DEF r
<1>8. Pending(r) = stale /\ Pending(old) = old.fetch
  BY <1>2, <1>5, <1>6 DEF Pending
<1>9. \A c \in r.need \ Pending(r) : c \notin Pending(old) \/ ~(cache.chunk_clocks_[c] < Required(old))
  BY <1>6, <1>8
<1>10. old.pc \in Pulling \ {"copy"} /\ r.pc \in Pulling /\ (r.pc = "copy" => r.todo = r.need)
  BY <1>2, <1>6 DEF Pulling
<1> QED BY <1>3, <1>4, <1>6, <1>7, <1>9, <1>10, WaitingReads

LEMMA ReleaseReads ==
  ASSUME FetchInv, FetchInv', ReadInv, NEW w \in Workers, Release(w)
  PROVE  ReadInv'
<1> DEFINE old == ws[w]
           r == [old EXCEPT !.fetch = old.wait, !.wait = {}, !.todo = old.need,
                   !.pc = IF old.wait = {} THEN "copy" ELSE "manage"]
<1>1. old \in Local /\ TypeOK
  BY WorkerFacts
<1>2. old.pc = "release"
  BY DEF Release, At
<1>3. Becomes(w, r)
  BY <1>1 DEF Release, Becomes, TypeOK, Local
<1>4. UNCHANGED <<clock, sent, pushed>> /\ cache'.chunk_clocks_ = cache.chunk_clocks_
  BY <1>1 DEF Release, server, TypeOK, NewCache
<1>5. /\ SameCache(old, r) /\ r.need = old.need /\ r.todo = old.need /\ r.fetch = old.wait
      /\ r.pc = IF old.wait = {} THEN "copy" ELSE "manage"
  BY <1>1 DEF Local, SameCache
<1>6. r \in Local
  <2>1. r = ws'[w]
    BY <1>1, <1>3 DEF Becomes, TypeOK
  <2> HIDE DEF r
  <2> QED BY <2>1 DEF FetchInv, TypeOK
<1> HIDE DEF r
<1>7. Pending(r) = old.wait /\ Pending(old) = old.wait
  BY <1>2, <1>5 DEF Pending
<1>8. old.pc \in Pulling \ {"copy"} /\ r.pc \in Pulling /\ (r.pc = "copy" => r.todo = r.need)
  BY <1>2, <1>5 DEF Pulling
<1> QED BY <1>3, <1>4, <1>5, <1>6, <1>7, <1>8, WaitingReads

\* What InstallProcess leaves in the process cache is as new as the answer.
LEMMA InstallReads ==
  ASSUME FetchInv, FetchInv', ReadInv, NEW w \in Workers, InstallProcess(w)
  PROVE  ReadInv'
<1> DEFINE old == ws[w]
<1>1. /\ old \in Local /\ Placed(old) /\ sent[w] \in Nat /\ table \in Tables /\ TypeOK
      /\ Fetching(old, sent[w], pushed, min_clock) /\ min_clock \in Nat /\ s \in Nat
      /\ \A c \in Chunks : cache.chunk_clocks_[c] \in Int
  BY WorkerFacts
<1>2. old.pc = "install"
  BY DEF InstallProcess, At
<1>3. PICK c \in old.todo, l \in {"install", "release", "copy"} :
           LET todo == IF l = "copy" THEN old.need ELSE old.todo \ {c} IN
           /\ l = IF old.todo \ {c} # {} THEN "install" ELSE IF Managed THEN "release" ELSE "copy"
           /\ Becomes(w, [old EXCEPT !.pc = l, !.todo = todo])
           /\ [old EXCEPT !.pc = l, !.todo = todo] \in Local
           /\ \A d \in Chunks :
                LET new == d = c /\ cache.chunk_clocks_[c] < old.answer.clock IN
                /\ cache'.chunk_clocks_[d] = IF new THEN old.answer.clock
                                             ELSE cache.chunk_clocks_[d]
           /\ UNCHANGED <<table, clock, sent, messages, bsp, pushed>>
  BY ZenonT(60), InstallFacts
<1>4. PICK todo : todo = IF l = "copy" THEN old.need ELSE old.todo \ {c}
  OBVIOUS
<1>5. PICK r : r = [old EXCEPT !.pc = l, !.todo = todo]
  OBVIOUS
<1>6. r \in Local /\ Becomes(w, r) /\ clock' = clock /\ sent' = sent /\ pushed' = pushed
  BY <1>3, <1>4, <1>5
<1>7. /\ SameCache(old, r) /\ r.need = old.need /\ r.todo = todo /\ r.fetch = old.fetch
      /\ r.wait = old.wait /\ r.pc = l
  BY <1>1, <1>5 DEF Local, SameCache
<1>8. old.answer.clock \in Nat /\ c \in Chunks
  BY <1>1 DEF Local
<1>9. /\ \A d \in Chunks : cache.chunk_clocks_[d] <= cache'.chunk_clocks_[d]
      /\ cache'.chunk_clocks_[c] >= old.answer.clock /\ cache'.chunk_clocks_[c] \in Int
  BY <1>1, <1>3, <1>8
<1>10. min_clock' = min_clock
  BY <1>6 DEF min_clock
<1>11. Later(pushed, min_clock, pushed', min_clock')
  BY <1>1, <1>6, <1>10 DEF Later, TypeOK
<1>12. OneTimestamp => Reading(w, r, sent[w], pushed, min_clock, cache'.chunk_clocks_)
  <2> SUFFICES ASSUME OneTimestamp
               PROVE  Reading(w, r, sent[w], pushed, min_clock, cache'.chunk_clocks_)
    OBVIOUS
  <2>1. Reading(w, old, sent[w], pushed, min_clock, cache.chunk_clocks_)
    BY ReadFacts
  <2>2. /\ old.pc \in Pulling \ {"copy"} /\ r.pc \in Pulling
    BY <1>2, <1>7 DEF Pulling
  <2>3. r.pc = "copy" => r.todo = r.need
    BY <1>4, <1>7
  <2>4. Asked(r) /\ Holds(r, sent[w], pushed, min_clock) /\ HoldsOwn(w, r, pushed)
    BY <1>1, <1>6, <1>7, <2>1, <2>2, <2>3, StillAsked, StillHolds DEF Reading
  <2>5. ~Managed => old.wait = {}
    BY <1>1, <1>2 DEF Placed
  <2>6. \A d \in r.need \ Pending(r) : d \notin Pending(old) \/ d = c
    <3>1. Pending(old) = old.todo \union old.wait
      BY <1>2 DEF Pending
    <3>2. CASE l = "install"
      <4>1. Pending(r) = (old.todo \ {c}) \union old.wait
        BY <1>4, <1>7, <3>2 DEF Pending
      <4> QED BY <3>1, <4>1
    <3>3. CASE l = "release"
      <4>1. Pending(r) = old.wait /\ old.todo \ {c} = {}
        BY <1>3, <1>7, <3>3 DEF Pending
      <4> QED BY <3>1, <4>1
    <3>4. CASE l = "copy"
      <4>1. old.todo \ {c} = {} /\ ~Managed
        BY <1>3, <3>4
      <4> QED BY <2>5, <3>1, <4>1
    <3> QED BY <3>2, <3>3, <3>4
  <2>7. Copied(r, sent[w], pushed, min_clock, cache'.chunk_clocks_)
    <3> SUFFICES ASSUME OverCache, NEW d \in r.need \ Pending(r)
                 PROVE  Enough(r, sent[w], cache'.chunk_clocks_[d])
      BY <2>3 DEF Copied
    <3>1. d \in Chunks
      BY <1>1, <1>7 DEF Local
    <3>2. CASE d \notin Pending(old)
      <4>1. Enough(old, sent[w], cache.chunk_clocks_[d])
        BY <1>7, <2>1, <2>2, <3>2 DEF Reading, Copied
      <4>2. cache.chunk_clocks_[d] \in Int /\ cache'.chunk_clocks_[d] \in Int
            /\ cache.chunk_clocks_[d] <= cache'.chunk_clocks_[d]
        BY <1>1, <1>9, <3>1 DEF FetchInv, TypeOK
      <4>3. Enough(old, sent[w], cache'.chunk_clocks_[d])
        BY <1>1, <4>1, <4>2 DEF Enough, Local
      <4> QED BY <1>7, <4>3, SameEnough
    <3>3. CASE d = c
      <4>1. /\ old.answer.clock >= sent[w] - s
            /\ is({"PSMapChunk"}) => old.answer.clock >= old.cache_ts_
        BY <1>1, <1>2 DEF Fetching, Answered
      <4>2. Enough(old, sent[w], cache'.chunk_clocks_[d])
        BY <1>1, <1>8, <1>9, <3>3, <4>1 DEF Enough, Local
      <4> QED BY <1>7, <4>2, SameEnough
    <3> QED BY <2>6, <3>2, <3>3
  <2> QED BY <2>4, <2>7 DEF Reading
<1>13. OneTimestamp => Reading(w, r, sent'[w], pushed', min_clock', cache'.chunk_clocks_)
  BY <1>6, <1>10, <1>12
<1>14. /\ \A u \in Workers : u # w => sent'[u] = sent[u]
       /\ \A d \in Chunks : \A q \in pushed'[d] : q \in pushed[d] \/ q[1] = w
  BY <1>6
<1> QED BY <1>6, <1>9, <1>11, <1>13, <1>14, EachReads

\* What a pull does not ask for, the thread cache has, and fresh enough.
LEMMA Unasked ==
  ASSUME table \in Tables, NEW r \in Local, NEW k \in Nat, Counted(r, k), r.pc # "idle",
         NEW P, NEW m \in Nat, NEW c \in r.keys, P[c] \in SUBSET Pushes, c \notin Lacks(r), ~is({"PSBsp"}),
         is({"PSMapNone"}) => MapNoneHolds(r, P, m),
         is({"PSMapChunk"}) => MapChunkHolds(r, P, m),
         is({"PSChunkNone", "PSChunkChunk"}) => Has(P[c], m, r.cached[c], r.chunk_clocks_[c]),
         is({"PSChunkChunk"}) /\ r.chunk_clocks_[c] >= 0 => r.cached[c] # None
  PROVE  r.cached[c] # None /\ Has(P[c], m, r.cached[c], k - Behind)
<1>1. /\ s \in Nat /\ table.worker_type \in Types /\ r.pull_count_ \in Nat /\ r.push_count_ \in Nat
      /\ r.cache_ts_ \in Int /\ r.chunk_clocks_[c] \in Int /\ c \in Chunks
  BY TableFacts DEF Local
<1>2. is({"PSMapNone"}) \/ is({"PSChunkNone"}) \/ is({"PSMapChunk"}) \/ is({"PSChunkChunk"})
  BY <1>1 DEF Lacks, is, Types
<1>3. ~Buffered
  BY <1>2 DEF Buffered, is
<1>4. r.pull_count_ = k + 1 /\ r.push_count_ = k
  BY <1>1, <1>3 DEF Counted
<1>5. CASE is({"PSMapNone"})
  <2>1. ~TooOld(r) /\ r.cached[c] # None /\ Behind = 2 * s
    BY <1>5 DEF Lacks, MapNoneNeeds, Missing, Behind, is
  <2>2. Has(P[c], m, r.cached[c], r.cache_ts_ - 1 - s)
    BY <1>1, <1>5, <2>1 DEF MapNoneHolds
  <2>3. r.pull_count_ - r.cache_ts_ <= s
    BY <1>1, <2>1 DEF TooOld
  <2>4. PICK l, j : l = r.cache_ts_ - 1 - s /\ j = k - Behind
    OBVIOUS
  <2>5. l \in Int /\ j \in Int /\ j <= l
    BY <1>1, <1>4, <2>1, <2>3, <2>4
  <2> QED BY <2>1, <2>2, <2>4, <2>5, HasLess
<1>6. CASE is({"PSMapChunk"})
  <2>1. ~TooOld(r) /\ r.cached[c] # None /\ Behind = s
    BY <1>6 DEF Lacks, MapChunkNeeds, Missing, Behind, is
  <2>2. r.cached # Nothing
    BY <1>1, <2>1 DEF Nothing
  <2>3. Has(P[c], m, r.cached[c], r.cache_ts_ - 1)
    BY <1>1, <1>6, <2>1, <2>2 DEF MapChunkHolds
  <2>4. r.pull_count_ - r.cache_ts_ <= s
    BY <1>1, <2>1 DEF TooOld
  <2>5. PICK l, j : l = r.cache_ts_ - 1 /\ j = k - Behind
    OBVIOUS
  <2>6. l \in Int /\ j \in Int /\ j <= l
    BY <1>1, <1>4, <2>1, <2>4, <2>5
  <2> QED BY <2>1, <2>3, <2>5, <2>6, HasLess
<1>7. CASE is({"PSChunkNone"})
  <2>1. r.cached[c] # None /\ ~(r.chunk_clocks_[c] < r.push_count_ - s) /\ Behind = s
    BY <1>7 DEF Lacks, ChunkNoneNeeds, Behind, is
  <2>2. Has(P[c], m, r.cached[c], r.chunk_clocks_[c])
    BY <1>7 DEF is
  <2>3. PICK j : j = k - Behind
    OBVIOUS
  <2>4. j \in Int /\ j <= r.chunk_clocks_[c]
    BY <1>1, <1>4, <2>1, <2>3
  <2> QED BY <1>1, <2>1, <2>2, <2>3, <2>4, HasLess
<1>8. CASE is({"PSChunkChunk"})
  <2>1. ~(r.chunk_clocks_[c] < min_clock_of(r)) /\ Behind = s
    BY <1>8 DEF Lacks, ChunkChunkNeeds, Behind, is
  <2>2. min_clock_of(r) = Required(r)
    BY <1>8 DEF Required
  <2>3. Required(r) \in Nat /\ Required(r) >= k - s
    BY RequiredClock
  <2>4. Has(P[c], m, r.cached[c], r.chunk_clocks_[c])
    BY <1>8 DEF is
  <2>5. PICK j : j = k - Behind
    OBVIOUS
  <2>6. j \in Int /\ j <= r.chunk_clocks_[c] /\ r.chunk_clocks_[c] >= 0
    BY <1>1, <2>1, <2>2, <2>3, <2>5
  <2> QED BY <1>1, <1>8, <2>4, <2>5, <2>6, HasLess
<1> QED BY <1>2, <1>5, <1>6, <1>7, <1>8

\* The worker that pulls, at clock k of the server.
LEMMA PullReading ==
  ASSUME FetchInv, ReadInv, OneTimestamp, NEW w \in Workers, NEW keys \in table.request, ws[w].pc = "idle",
         NEW r \in Local, r = Asks(w, keys), NEW t \in Local, t = Prepared(r), SameRun(r, t),
         keys \subseteq Chunks, keys # {}, r.keys = keys,
         r.pull_count_ = ws[w].pull_count_ + 1, r.push_count_ = ws[w].push_count_,
         r.cached = ws[w].cached, r.chunk_clocks_ = ws[w].chunk_clocks_,
         r.cache_ts_ = ws[w].cache_ts_,
         NEW k \in Nat, Counted(t, k), Placed(t)
  PROVE  Reading(w, t, k, pushed, min_clock, cache.chunk_clocks_)
<1>1. /\ ws[w] \in Local /\ table \in Tables /\ TypeOK /\ min_clock \in Nat /\ s \in Nat
  BY WorkerFacts
<1>2. /\ Lacks(r) \subseteq r.keys /\ t.cached = Forgets(r) /\ t.chunk_clocks_ = r.chunk_clocks_
      /\ t.cache_ts_ = r.cache_ts_
      /\ IF Lacks(r) = {} THEN t.pc = "push"
         ELSE t.pc = AskAt /\ t.need = Lacks(r) /\ t.fetch = Lacks(r)
  BY <1>1, PreparedFacts
<1>3. t.pull_count_ = r.pull_count_ /\ t.push_count_ = r.push_count_ /\ t.keys = r.keys
  BY DEF SameRun
<1>4. Reading(w, ws[w], sent[w], pushed, min_clock, cache.chunk_clocks_)
  BY ReadFacts
<1>5. TooOld(t) = TooOld(r) /\ (is({"PSMapChunk"}) /\ TooOld(r) => t.cached = Nothing)
      /\ (~(is({"PSMapChunk"}) /\ TooOld(r)) => t.cached = r.cached)
  BY <1>2, <1>3 DEF TooOld, Forgets
<1>6. Lacks(t) = Lacks(r)
  <2>1. min_clock_of(t) = min_clock_of(r)
    BY <1>3 DEF min_clock_of
  <2>2. is({"PSMapChunk"}) => MapChunkNeeds(t) = MapChunkNeeds(r)
    BY <1>3, <1>5 DEF MapChunkNeeds, Missing
  <2>3. ~is({"PSMapChunk"}) => /\ MapNoneNeeds(t) = MapNoneNeeds(r) /\ ChunkNoneNeeds(t) = ChunkNoneNeeds(r)
                               /\ ChunkChunkNeeds(t) = ChunkChunkNeeds(r)
    BY <1>2, <1>3, <1>5, <2>1 DEF MapNoneNeeds, Missing, ChunkNoneNeeds, ChunkChunkNeeds
  <2>4. CASE is({"PSMapChunk"})
    BY <1>3, <2>2, <2>4 DEF Lacks, is
  <2>5. CASE ~is({"PSMapChunk"})
    BY <1>3, <2>3, <2>5 DEF Lacks
  <2> QED BY <2>4, <2>5
<1>7. t.pc \in Pulling => t.need = Lacks(t)
  BY <1>2, <1>6 DEF Pulling
<1>8. Asked(t)
  <2>1. is({"PSMapNone"}) => Lacks(t) = MapNoneNeeds(t)
    BY DEF Lacks, is
  <2>2. is({"PSMapChunk"}) => Lacks(t) = MapChunkNeeds(t)
    BY DEF Lacks, is
  <2>3. is({"PSChunkNone"}) => Lacks(t) = ChunkNoneNeeds(t)
    BY DEF Lacks, is
  <2>4. is({"PSChunkChunk"}) => Lacks(t) = ChunkChunkNeeds(t)
    BY DEF Lacks, is
  <2>5. is({"PSWorker", "PSNoneChunk"}) => Lacks(t) = t.keys
    BY DEF Lacks, is
  <2> QED BY <1>5, <1>7, <2>1, <2>2, <2>3, <2>4, <2>5 DEF Asked
<1>9. Copied(t, k, pushed, min_clock, cache.chunk_clocks_)
  BY <1>2 DEF Copied, Pending, AskAt, Pulling
<1>10. is({"PSMapNone"}) => MapNoneHolds(t, pushed, min_clock)
  <2> SUFFICES ASSUME is({"PSMapNone"})
               PROVE  MapNoneHolds(t, pushed, min_clock)
    OBVIOUS
  <2>1. MapNoneHolds(ws[w], pushed, min_clock)
    BY <1>4 DEF Reading, Holds
  <2>2. t.cached = ws[w].cached /\ t.cache_ts_ = ws[w].cache_ts_ /\ t.pull_count_ = ws[w].pull_count_ + 1
    BY <1>2, <1>3, <1>5 DEF is
  <2> QED BY <1>1, <2>1, <2>2 DEF MapNoneHolds, Local
<1>11. is({"PSMapChunk"}) => MapChunkHolds(t, pushed, min_clock)
  <2> SUFFICES ASSUME is({"PSMapChunk"}), t.cached # Nothing
               PROVE  MapChunkHolds(t, pushed, min_clock)
    BY DEF MapChunkHolds
  <2>1. MapChunkHolds(ws[w], pushed, min_clock)
    BY <1>4 DEF Reading, Holds
  <2>2. t.cached = ws[w].cached /\ t.cache_ts_ = ws[w].cache_ts_ /\ t.pull_count_ = ws[w].pull_count_ + 1
    BY <1>2, <1>3, <1>5
  <2>3. ws[w].cache_ts_ + 1 <= ws[w].pull_count_
    BY <2>1, <2>2 DEF MapChunkHolds, Pulling
  <2>4. t.cache_ts_ + (IF t.pc \in Pulling THEN 2 ELSE 1) <= t.pull_count_
    BY <1>1, <2>2, <2>3 DEF Local
  <2> QED BY <2>1, <2>2, <2>4 DEF MapChunkHolds
<1>12. is({"PSChunkNone", "PSChunkChunk"}) => ChunksHold(t, pushed, min_clock)
  <2> SUFFICES ASSUME is({"PSChunkNone", "PSChunkChunk"})
               PROVE  ChunksHold(t, pushed, min_clock)
    OBVIOUS
  <2>1. ChunksHold(ws[w], pushed, min_clock)
    BY <1>4 DEF Reading, Holds
  <2>2. t.cached = ws[w].cached /\ t.chunk_clocks_ = ws[w].chunk_clocks_
    BY <1>2, <1>3, <1>5 DEF is
  <2>3. t.pc # "copy"
    BY <1>2 DEF AskAt
  <2> QED BY <2>1, <2>2, <2>3 DEF ChunksHold
<1>13. t.pc = "push" /\ ~is({"PSBsp"}) =>
         \A c \in t.keys : t.cached[c] # None /\ Has(pushed[c], min_clock, t.cached[c], k - Behind)
  <2> SUFFICES ASSUME t.pc = "push", ~is({"PSBsp"}), NEW c \in t.keys
               PROVE  t.cached[c] # None /\ Has(pushed[c], min_clock, t.cached[c], k - Behind)
    OBVIOUS
  <2>1. Lacks(t) = {}
    BY <1>2, <1>6 DEF AskAt
  <2>2. c \in Chunks /\ pushed[c] \in SUBSET Pushes
    BY <1>1, <1>3 DEF TypeOK
  <2>3. is({"PSChunkNone", "PSChunkChunk"}) =>
          /\ Has(pushed[c], min_clock, t.cached[c], t.chunk_clocks_[c])
          /\ is({"PSChunkChunk"}) /\ t.chunk_clocks_[c] >= 0 => t.cached[c] # None
    BY <1>12, <2>2 DEF ChunksHold
  <2>4. is({"PSChunkChunk"}) => is({"PSChunkNone", "PSChunkChunk"})
    BY DEF is
  <2> QED BY ZenonT(60), <1>1, <1>10, <1>11, <2>1, <2>2, <2>3, <2>4, Unasked
<1>14. Holds(t, k, pushed, min_clock)
  BY <1>10, <1>11, <1>12, <1>13 DEF Holds
<1>15. HoldsOwn(w, t, pushed)
  <2> SUFFICES ASSUME is({"PSWorker", "PSMapNone", "PSChunkNone"})
               PROVE  HoldsOwn(w, t, pushed)
    BY DEF HoldsOwn
  <2>1. t.cached = ws[w].cached
    BY <1>5 DEF is
  <2> QED BY <1>4, <2>1 DEF Reading, HoldsOwn
<1> QED BY <1>8, <1>9, <1>14, <1>15 DEF Reading

LEMMA PullReads ==
  ASSUME FetchInv, FetchInv', ReadInv, NEW w \in Workers, Pull(w)
  PROVE  ReadInv'
<1>1. /\ TypeOK /\ table \in Tables /\ sent[w] \in Nat /\ min_clock \in Nat
      /\ clock \in [Workers -> Nat] /\ cache.chunk_clocks_ \in [Chunks -> Int]
  BY WorkerFacts DEF TypeOK
<1>2. PICK keys \in table.request :
           LET r == Asks(w, keys)
               t == Prepared(r) IN
           /\ Becomes(w, t) /\ t \in Local /\ r \in Local /\ SameRun(r, t) /\ ws[w].pc = "idle"
           /\ keys \subseteq Chunks /\ keys # {} /\ r.keys = keys
           /\ r.pull_count_ = ws[w].pull_count_ + 1 /\ r.push_count_ = ws[w].push_count_
           /\ r.cached = ws[w].cached /\ r.chunk_clocks_ = ws[w].chunk_clocks_
           /\ r.cache_ts_ = ws[w].cache_ts_
  BY PullFacts
<1>3. PICK r, t : r = Asks(w, keys) /\ t = Prepared(r)
  OBVIOUS
<1>4. /\ Becomes(w, t) /\ t \in Local /\ r \in Local /\ SameRun(r, t) /\ ws[w].pc = "idle"
      /\ keys \subseteq Chunks /\ keys # {} /\ r.keys = keys
      /\ r.pull_count_ = ws[w].pull_count_ + 1 /\ r.push_count_ = ws[w].push_count_
      /\ r.cached = ws[w].cached /\ r.chunk_clocks_ = ws[w].chunk_clocks_
      /\ r.cache_ts_ = ws[w].cache_ts_
  BY <1>2, <1>3
<1>5. pushed' = pushed /\ table' = table
  BY DEF Pull
<1>6. /\ clock' = clock /\ sent' \in [Workers -> Nat]
      /\ \A u \in Workers : u # w => sent'[u] = sent[u]
      /\ cache'.chunk_clocks_ = cache.chunk_clocks_
  BY <1>1 DEF Pull, Flush, Send, server, TypeOK, NewCache
<1>7. min_clock' \in Nat /\ min_clock <= min_clock'
  BY <1>1, <1>6 DEF min_clock
<1>8. Later(pushed, min_clock, pushed', min_clock')
  BY <1>1, <1>5, <1>7 DEF Later, TypeOK
<1>9. ws'[w] = t
  BY <1>1, <1>4, BecomesType
<1>10. PICK k : k = sent'[w]
  OBVIOUS
<1>11. k \in Nat
  BY <1>6, <1>10
<1>12. Counted(t, k) /\ Placed(t)
  <2>2. Counted(t, k)
    BY <1>5, <1>9, <1>10 DEF FetchInv, Fetching, Counted, Buffered, is
  <2>3. Placed(t)
    BY <1>5, <1>9, <1>10 DEF FetchInv, Fetching, Placed, OverCache, Managed, Buffered, is
  <2> QED BY <2>2, <2>3
<1>13. OneTimestamp => Reading(w, t, k, pushed, min_clock, cache.chunk_clocks_)
  BY <1>3, <1>4, <1>11, <1>12, PullReading
<1>14. /\ \A c \in Chunks : cache.chunk_clocks_[c] <= cache'.chunk_clocks_[c]
       /\ \A c \in Chunks : \A q \in pushed'[c] : q \in pushed[c]
       /\ cache'.chunk_clocks_ \in [Chunks -> Int]
  BY <1>1, <1>5, <1>6
<1>15. OneTimestamp => Reading(w, t, sent'[w], pushed', min_clock', cache'.chunk_clocks_)
  BY <1>1, <1>4, <1>7, <1>8, <1>10, <1>11, <1>13, <1>14, ReadingKept
<1> QED BY <1>4, <1>6, <1>8, <1>14, <1>15, EachReads

LEMMA UnaskedKeys ==
  ASSUME FetchInv, ReadInv, OneTimestamp, NEW w \in Workers, ws[w].pc \in Pulling,
         NEW c \in ws[w].keys, c \notin ws[w].need
  PROVE  /\ ws[w].cached[c] # None /\ c \in Chunks
         /\ Has(pushed[c], min_clock, ws[w].cached[c], sent[w] - Behind)
         /\ ~is({"PSWorker", "PSNoneChunk"})
<1>1. /\ ws[w] \in Local /\ table \in Tables /\ TypeOK /\ min_clock \in Nat /\ sent[w] \in Nat
      /\ Counted(ws[w], sent[w]) /\ Placed(ws[w])
  BY WorkerFacts
<1>2. ~is({"PSBsp"}) /\ ws[w].pc # "idle" /\ ws[w].pc # "push" /\ c \in Chunks
  BY <1>1 DEF Placed, Pulling, Local
<1>3. Asked(ws[w]) /\ Holds(ws[w], sent[w], pushed, min_clock)
  BY ReadFacts DEF Reading
<1>4. ~is({"PSWorker", "PSNoneChunk"})
  BY <1>3 DEF Asked
<1>5. c \notin Lacks(ws[w])
  BY <1>1, <1>2, <1>3, TableFacts DEF Asked, Lacks, is, Types
<1>6. pushed[c] \in SUBSET Pushes
  BY <1>1, <1>2 DEF TypeOK
<1>7. /\ is({"PSMapNone"}) => MapNoneHolds(ws[w], pushed, min_clock)
      /\ is({"PSMapChunk"}) => MapChunkHolds(ws[w], pushed, min_clock)
      /\ is({"PSChunkNone", "PSChunkChunk"}) => ChunksHold(ws[w], pushed, min_clock)
  BY <1>3 DEF Holds
<1>8. /\ is({"PSChunkNone", "PSChunkChunk"}) => Has(pushed[c], min_clock, ws[w].cached[c], ws[w].chunk_clocks_[c])
      /\ is({"PSChunkChunk"}) /\ ws[w].chunk_clocks_[c] >= 0 => ws[w].cached[c] # None
  <2>1. is({"PSChunkChunk"}) => is({"PSChunkNone", "PSChunkChunk"})
    BY DEF is
  <2> QED BY <1>2, <1>7, <2>1 DEF ChunksHold
<1>9. ws[w].cached[c] # None /\ Has(pushed[c], min_clock, ws[w].cached[c], sent[w] - Behind)
  BY <1>1, <1>2, <1>5, <1>6, <1>7, <1>8, Unasked
<1> QED BY <1>2, <1>4, <1>9

\* A worker reads its own pushes: the server does not hold them back when it
\* answers.
LEMMA OwnVisible ==
  ASSUME FetchInv, NEW w \in Workers, At(w, "fetch"), Answers(w), NEW c \in Chunks,
         ~OverCache, NEW q \in pushed[c], q[1] = w
  PROVE  q \in Visible(w, c)
<1>1. /\ ws[w] \in Local /\ table \in Tables /\ TypeOK /\ min_clock \in Nat /\ sent[w] \in Nat /\ s \in Nat
      /\ Counted(ws[w], sent[w]) /\ Placed(ws[w]) /\ Sent /\ Numbered
  BY WorkerFacts DEF FetchInv
<1>2. ~is({"PSBsp"}) /\ ~Buffered /\ ws[w].pc = "fetch"
  BY <1>1 DEF Placed, Pulling, At, OverCache, Buffered, is
<1>3. q[2] \in Nat /\ q[2] < ws[w].push_count_ /\ ws[w].push_count_ = sent[w]
  BY <1>1, <1>2 DEF TypeOK, Pushes, Numbered, Counted
<1>4. pushed[c] = {a.id : a \in messages[c]}
      /\ \A a \in messages[c] : a.at = a.id[2] /\ a.from = a.id[1]
  BY <1>1, <1>2 DEF Sent
<1>5. PICK a \in messages[c] : a.id = q
  BY <1>4
<1>6. a.at = q[2] /\ a.from = w /\ clock[w] = sent[w] /\ sent[w] - s <= min_clock
  BY <1>4, <1>5 DEF Answers
<1>7. Applied(a)
  BY <1>1, <1>3, <1>6 DEF Applied
<1> QED BY <1>2, <1>5, <1>7 DEF Visible

\* The server's answer returned to the worker.
LEMMA FetchReading ==
  ASSUME FetchInv, ReadInv, OneTimestamp, NEW w \in Workers, At(w, "fetch"), Answers(w), ~OverCache,
         NEW r \in Local, r = Arrived(w), NEW t \in Local, t = Returned(Keep(r))
  PROVE  Reading(w, t, sent[w], pushed, min_clock, cache.chunk_clocks_)
<1> DEFINE old == ws[w]
<1>1. /\ old \in Local /\ table \in Tables /\ TypeOK /\ min_clock \in Nat /\ sent[w] \in Nat /\ s \in Nat
      /\ Counted(old, sent[w]) /\ Placed(old)
  BY WorkerFacts
<1>2. old.pc = "fetch" /\ old.pc \in Pulling /\ sent[w] - s <= min_clock
  BY DEF At, Pulling, Answers
<1>3. /\ old.fetch = old.need /\ old.need \subseteq Chunks /\ old.need \subseteq old.keys
      /\ ~is({"PSBsp"}) /\ old.keys \subseteq Chunks
  BY <1>1, <1>2 DEF Placed, Local
<1>4. is({"PSWorker", "PSMapNone", "PSChunkNone"})
  BY <1>1, <1>3, TableFacts DEF is, OverCache, Types
<1>5. ~Buffered /\ old.pull_count_ = sent[w] + 1 /\ old.pull_count_ \in Nat
  BY <1>1, <1>2, <1>4 DEF Counted, Buffered, is, Local
<1>6. /\ SameRun(old, r) /\ r.need = old.need /\ r.cached = old.cached
      /\ r.chunk_clocks_ = old.chunk_clocks_ /\ r.cache_ts_ = old.cache_ts_ /\ r.answer.clock = min_clock
      /\ \A c \in old.need : /\ r.answer.vals[c] = Visible(w, c) /\ Visible(w, c) # None
                             /\ Has(pushed[c], min_clock, Visible(w, c), min_clock)
  BY <1>3, ArrivedFacts
<1>7. PICK x : x = Keep(r)
  OBVIOUS
<1>8. /\ x \in Local /\ SameRun(r, x)
      /\ \A c \in r.need : x.cached[c] = r.answer.vals[c]
      /\ \A c \in Chunks \ r.need :
           x.cached[c] = IF is({"PSMapNone"}) /\ r.need = r.keys THEN None ELSE r.cached[c]
      /\ is({"PSMapNone"}) => x.cache_ts_ = IF r.need = r.keys THEN r.pull_count_ ELSE r.cache_ts_
      /\ is({"PSChunkNone"}) => \A c \in Chunks :
           x.chunk_clocks_[c] = IF c \in r.need THEN r.answer.clock ELSE r.chunk_clocks_[c]
  BY <1>4, <1>7, KeepFacts DEF is
<1>9. /\ t.pc = "push" /\ SameRun(x, t) /\ t.cached = x.cached /\ t.chunk_clocks_ = x.chunk_clocks_
      /\ t.cache_ts_ = x.cache_ts_
  BY <1>7, <1>8, ReturnedFacts
<1>10. t.pull_count_ = old.pull_count_ /\ t.keys = old.keys /\ r.keys = old.keys /\ r.pull_count_ = old.pull_count_
  BY <1>6, <1>8, <1>9 DEF SameRun
<1>11. /\ \A c \in old.need : /\ t.cached[c] = Visible(w, c) /\ t.cached[c] # None
                              /\ Has(pushed[c], min_clock, t.cached[c], min_clock)
       /\ \A c \in Chunks \ old.need :
            t.cached[c] = IF is({"PSMapNone"}) /\ old.need = old.keys THEN None ELSE old.cached[c]
  BY <1>6, <1>8, <1>9, <1>10
<1>12. Reading(w, old, sent[w], pushed, min_clock, cache.chunk_clocks_)
  BY ReadFacts
<1>13. ASSUME NEW c \in old.need, NEW j \in Int, j <= min_clock
       PROVE  Has(pushed[c], min_clock, t.cached[c], j)
  <2>1. pushed[c] \in SUBSET Pushes
    BY <1>1, <1>3 DEF TypeOK
  <2> QED BY <1>1, <1>11, <1>13, <2>1, HasLess
<1>14. is({"PSMapNone"}) => MapNoneHolds(t, pushed, min_clock)
  <2> SUFFICES ASSUME is({"PSMapNone"})
               PROVE  MapNoneHolds(t, pushed, min_clock)
    OBVIOUS
  <2>1. MapNoneHolds(old, pushed, min_clock)
    BY <1>12 DEF Reading, Holds
  <2>2. old.cache_ts_ \in Int /\ old.cache_ts_ <= old.pull_count_
    BY <1>1, <2>1 DEF MapNoneHolds, Local
  <2>3. t.cache_ts_ = IF old.need = old.keys THEN old.pull_count_ ELSE old.cache_ts_
    BY <1>6, <1>8, <1>9, <1>10
  <2>4. t.cache_ts_ <= t.pull_count_ /\ t.cache_ts_ - 1 - s \in Int /\ t.cache_ts_ - 1 - s <= min_clock
    BY <1>1, <1>2, <1>5, <1>10, <2>2, <2>3
  <2>5. ASSUME NEW c \in Chunks, t.cached[c] # None
        PROVE  Has(pushed[c], min_clock, t.cached[c], t.cache_ts_ - 1 - s)
    <3>1. CASE c \in old.need
      BY <1>13, <2>4, <3>1
    <3>2. CASE c \notin old.need
      <4>1. t.cached[c] = old.cached[c] /\ old.need # old.keys
        BY <1>11, <2>5, <3>2
      <4>2. t.cache_ts_ = old.cache_ts_
        BY <2>3, <4>1
      <4> QED BY <2>1, <2>5, <4>1, <4>2 DEF MapNoneHolds
    <3> QED BY <3>1, <3>2
  <2> QED BY <2>4, <2>5 DEF MapNoneHolds
<1>15. is({"PSChunkNone", "PSChunkChunk"}) => ChunksHold(t, pushed, min_clock)
  <2> SUFFICES ASSUME is({"PSChunkNone", "PSChunkChunk"}), NEW c \in Chunks
               PROVE  Has(pushed[c], min_clock, t.cached[c], t.chunk_clocks_[c])
    BY <1>4, <1>9 DEF ChunksHold, is
  <2>1. is({"PSChunkNone"}) /\ ~is({"PSMapNone"})
    BY <1>4 DEF is
  <2>2. ChunksHold(old, pushed, min_clock)
    BY <1>12 DEF Reading, Holds
  <2>3. t.chunk_clocks_[c] = IF c \in old.need THEN min_clock ELSE old.chunk_clocks_[c]
    BY <1>6, <1>8, <1>9, <2>1
  <2>4. CASE c \in old.need
    BY <1>11, <2>3, <2>4
  <2>5. CASE c \notin old.need
    BY <1>2, <1>11, <2>1, <2>2, <2>3, <2>5 DEF ChunksHold
  <2> QED BY <2>4, <2>5
<1>16. ASSUME NEW c \in t.keys
       PROVE  t.cached[c] # None /\ Has(pushed[c], min_clock, t.cached[c], sent[w] - Behind)
  <2>1. CASE c \in old.need
    <3>1. Behind \in Nat /\ s <= Behind
      BY <1>1, TableFacts
    <3>2. sent[w] - Behind \in Int /\ sent[w] - Behind <= min_clock
      BY <1>1, <1>2, <3>1
    <3> QED BY <1>11, <1>13, <2>1, <3>2
  <2>2. CASE c \notin old.need
    <3>1. /\ old.cached[c] # None /\ Has(pushed[c], min_clock, old.cached[c], sent[w] - Behind)
          /\ c \in Chunks
      BY <1>2, <1>10, <1>16, <2>2, UnaskedKeys
    <3>2. t.cached[c] = old.cached[c]
      BY <1>10, <1>11, <1>16, <2>2, <3>1
    <3> QED BY <3>1, <3>2
  <2> QED BY <2>1, <2>2
<1>17. ~is({"PSMapChunk"})
  BY <1>4 DEF is
<1>18. Holds(t, sent[w], pushed, min_clock)
  BY <1>14, <1>15, <1>16, <1>17 DEF Holds
<1>19. Asked(t) /\ Copied(t, sent[w], pushed, min_clock, cache.chunk_clocks_)
  BY <1>9 DEF Asked, Copied, Pulling
<1>20. HoldsOwn(w, t, pushed)
  <2> SUFFICES ASSUME NEW c \in Chunks, t.cached[c] # None, NEW q \in pushed[c], q[1] = w
               PROVE  q \in t.cached[c]
    BY DEF HoldsOwn
  <2>1. CASE c \in old.need
    BY <1>11, <2>1, OwnVisible
  <2>2. CASE c \notin old.need
    <3>1. t.cached[c] = old.cached[c]
      BY <1>11, <2>2
    <3> QED BY <1>4, <1>12, <3>1 DEF Reading, HoldsOwn
  <2> QED BY <2>1, <2>2
<1> QED BY <1>18, <1>19, <1>20 DEF Reading

LEMMA FetchReads ==
  ASSUME FetchInv, FetchInv', ReadInv, NEW w \in Workers, Fetch(w)
  PROVE  ReadInv'
<1>1. ws[w] \in Local /\ Placed(ws[w]) /\ TypeOK /\ table \in Tables
  BY WorkerFacts
<1>2. At(w, "fetch") /\ Answers(w) /\ ws[w].pc = "fetch"
      /\ UNCHANGED <<clock, sent, pushed>> /\ cache' = cache
  BY DEF Fetch, At, server
<1>3. PICK r : r = Arrived(w)
  OBVIOUS
<1>4. /\ r \in Local /\ SameRun(ws[w], r) /\ r.pc = "install" /\ r.need = ws[w].need
      /\ r.fetch = ws[w].fetch /\ r.wait = ws[w].wait /\ r.todo = ws[w].fetch
      /\ r.cached = ws[w].cached /\ r.chunk_clocks_ = ws[w].chunk_clocks_ /\ r.cache_ts_ = ws[w].cache_ts_
  BY <1>2, <1>3, ArrivedFacts
<1>5. Becomes(w, IF is({"PSWorker", "PSMapNone", "PSChunkNone"}) THEN Returned(Keep(r)) ELSE r)
  BY <1>2, <1>3 DEF Fetch, Becomes, Arrived
<1>6. CASE is({"PSWorker", "PSMapNone", "PSChunkNone"})
  <2>1. PICK t : t = Returned(Keep(r))
    OBVIOUS
  <2>2. t \in Local /\ Becomes(w, t) /\ ~OverCache
    BY <1>4, <1>5, <1>6, <2>1, KeepFacts, ReturnedFacts DEF OverCache, is
  <2>3. OneTimestamp => Reading(w, t, sent[w], pushed, min_clock, cache.chunk_clocks_)
    BY <1>2, <1>3, <1>4, <2>1, <2>2, FetchReading
  <2> QED BY <1>2, <2>2, <2>3, LocalReads
<1>7. CASE ~is({"PSWorker", "PSMapNone", "PSChunkNone"})
  <2>1. Becomes(w, r)
    BY <1>5, <1>7
  <2>2. SameCache(ws[w], r)
    BY <1>4 DEF SameCache, SameRun
  <2>3. Pending(r) = Pending(ws[w])
    BY <1>2, <1>4 DEF Pending
  <2>4. ws[w].pc \in Pulling \ {"copy"} /\ r.pc \in Pulling /\ r.pc # "copy"
    BY <1>2, <1>4 DEF Pulling
  <2> QED BY <1>2, <1>4, <2>1, <2>2, <2>3, <2>4, WaitingReads
<1> QED BY <1>6, <1>7

\* One more chunk copied: the label is the oldest clock met so far.
LEMMA CopyReading ==
  ASSUME FetchInv, ReadInv, OneTimestamp, NEW w \in Workers, ws[w].pc = "copy", NEW c \in ws[w].todo,
         NEW r \in Local, SameRun(ws[w], r), r.pc = "copy", r.need = ws[w].need,
         r.cached = ws[w].cached, r.cache_ts_ = ws[w].cache_ts_, r.todo = ws[w].todo \ {c},
         r.label <= cache.chunk_clocks_[c],
         IF ws[w].todo = ws[w].need THEN r.label = cache.chunk_clocks_[c]
         ELSE r.label <= ws[w].label /\ r.label \in {ws[w].label, cache.chunk_clocks_[c]},
         \A d \in Chunks :
            /\ r.vals[d] = IF d = c THEN cache.params_[c] ELSE ws[w].vals[d]
            /\ r.chunk_clocks_[d] = IF d = c /\ is({"PSChunkChunk"}) THEN cache.chunk_clocks_[c]
                                    ELSE ws[w].chunk_clocks_[d]
  PROVE  Reading(w, r, sent[w], pushed, min_clock, cache.chunk_clocks_)
<1> DEFINE old == ws[w]
<1>1. /\ old \in Local /\ table \in Tables /\ TypeOK /\ min_clock \in Nat /\ sent[w] \in Nat /\ s \in Nat
      /\ Placed(old) /\ CacheHolds
      /\ \A d \in Chunks : cache.chunk_clocks_[d] \in Int
  BY WorkerFacts DEF FetchInv
<1>2. Reading(w, old, sent[w], pushed, min_clock, cache.chunk_clocks_)
  BY ReadFacts
<1>3. old.pc \in Pulling /\ OverCache /\ Pending(old) = {} /\ Pending(r) = {} /\ r.pc \in Pulling
  BY <1>1 DEF Pulling, Placed, Pending
<1>4. c \in old.need /\ c \in Chunks /\ old.need \subseteq Chunks /\ old.keys \subseteq Chunks
  BY <1>1 DEF Placed, Local
<1>5. \A d \in old.need : Enough(old, sent[w], cache.chunk_clocks_[d])
  BY <1>2, <1>3 DEF Reading, Copied
<1>6. old.label \in Int /\ r.label \in Int /\ \A d \in Chunks : pushed[d] \in SUBSET Pushes
  BY <1>1 DEF Local, TypeOK
<1>7. /\ cache.params_[c] # None
      /\ Has(pushed[c], min_clock, cache.params_[c], cache.chunk_clocks_[c])
  <2>1. cache.chunk_clocks_[c] >= 0
    BY <1>4, <1>5 DEF Enough
  <2> QED BY <1>1, <1>4, <2>1 DEF CacheHolds
<1>8. old.todo # old.need =>
        /\ Enough(old, sent[w], old.label)
        /\ \A d \in old.need \ old.todo :
             old.vals[d] # None /\ Has(pushed[d], min_clock, old.vals[d], old.label)
  BY <1>2 DEF Reading, Copied
<1>9. \A l \in Int : Enough(r, sent[w], l) <=> Enough(old, sent[w], l)
  BY DEF Enough, SameRun
<1>10. Enough(r, sent[w], r.label)
  BY <1>4, <1>5, <1>6, <1>8, <1>9
<1>11. ASSUME NEW d \in r.need \ r.todo
       PROVE  r.vals[d] # None /\ Has(pushed[d], min_clock, r.vals[d], r.label)
  <2>1. d \in Chunks
    BY <1>4
  <2>2. CASE d = c
    BY <1>1, <1>4, <1>6, <1>7, <2>2, HasLess
  <2>3. CASE d # c
    <3>1. d \in old.need \ old.todo /\ old.todo # old.need /\ r.vals[d] = old.vals[d]
      BY <2>1, <2>3
    <3>2. old.vals[d] # None /\ Has(pushed[d], min_clock, old.vals[d], old.label) /\ r.label <= old.label
      BY <1>8, <3>1
    <3> QED BY <1>1, <1>6, <2>1, <3>1, <3>2, HasLess
  <2> QED BY <2>2, <2>3
<1>12. Copied(r, sent[w], pushed, min_clock, cache.chunk_clocks_)
  <2>1. \A d \in r.need : Enough(r, sent[w], cache.chunk_clocks_[d])
    BY <1>1, <1>4, <1>5, <1>9
  <2> QED BY <1>10, <1>11, <2>1 DEF Copied
<1>13. Asked(r)
  <2>1. TooOld(r) = TooOld(old) /\ Missing(r) = Missing(old) /\ min_clock_of(r) = min_clock_of(old)
    BY DEF TooOld, Missing, min_clock_of, SameRun
  <2>2. MapChunkNeeds(r) = MapChunkNeeds(old)
    BY <2>1 DEF MapChunkNeeds, SameRun
  <2>3. is({"PSChunkChunk"}) => ChunkChunkNeeds(r) \subseteq r.need
    <3> SUFFICES ASSUME is({"PSChunkChunk"}), NEW d \in ChunkChunkNeeds(r), d # c
                 PROVE  d \in old.need
      BY <1>4
    <3>1. d \in old.keys /\ r.chunk_clocks_[d] < min_clock_of(old) /\ d \in Chunks
      BY <1>4, <2>1 DEF ChunkChunkNeeds, SameRun
    <3>2. d \in ChunkChunkNeeds(old)
      BY <3>1 DEF ChunkChunkNeeds
    <3> QED BY <1>2, <1>3, <3>2 DEF Reading, Asked
  <2>4. ~is({"PSMapNone"}) /\ ~is({"PSChunkNone"})
    BY <1>3 DEF OverCache, is
  <2>5. r.keys = old.keys
    BY DEF SameRun
  <2> QED BY <1>2, <1>3, <2>1, <2>2, <2>3, <2>4, <2>5 DEF Reading, Asked
<1>14. is({"PSMapChunk"}) => MapChunkHolds(r, pushed, min_clock)
  <2>1. is({"PSMapChunk"}) => MapChunkHolds(old, pushed, min_clock)
    BY <1>2 DEF Reading, Holds
  <2> QED BY <2>1 DEF MapChunkHolds, SameRun
<1>15. is({"PSChunkNone", "PSChunkChunk"}) => ChunksHold(r, pushed, min_clock)
  <2> SUFFICES ASSUME is({"PSChunkNone", "PSChunkChunk"})
               PROVE  ChunksHold(r, pushed, min_clock)
    OBVIOUS
  <2>1. is({"PSChunkChunk"}) /\ ChunksHold(old, pushed, min_clock)
    BY <1>2, <1>3 DEF OverCache, is, Reading, Holds
  <2>2. ASSUME NEW d \in Chunks, d # c
        PROVE  /\ r.vals[d] = old.vals[d] /\ r.chunk_clocks_[d] = old.chunk_clocks_[d]
               /\ d \in r.need \ r.todo <=> d \in old.need \ old.todo
    BY <2>2
  <2>3. r.vals[c] = cache.params_[c] /\ r.chunk_clocks_[c] = cache.chunk_clocks_[c]
        /\ c \in r.need \ r.todo
    BY <1>4, <2>1
  <2> QED BY <1>7, <2>1, <2>2, <2>3 DEF ChunksHold
<1>16. HoldsOwn(w, r, pushed) /\ ~is({"PSMapNone"})
  BY <1>3 DEF HoldsOwn, OverCache, is
<1>17. Holds(r, sent[w], pushed, min_clock)
  BY <1>14, <1>15, <1>16 DEF Holds
<1> QED BY <1>12, <1>13, <1>16, <1>17 DEF Reading

\* PSMapChunk with all its chunks copied: they get the timestamp of the map, or
\* the map gets that of the oldest of them.
LEMMA MapKept ==
  ASSUME table \in Tables, OneTimestamp, is({"PSMapChunk"}), NEW r \in Local, NEW t \in Local,
         NEW P, \A c \in Chunks : P[c] \in SUBSET Pushes, NEW m \in Nat, NEW k \in Nat, m <= k,
         r.pull_count_ = k + 1, r.pc \in Pulling, r.need # {}, r.need \subseteq r.keys, r.keys \in table.request,
         r.need = MapChunkNeeds(r), TooOld(r) => r.cached = Nothing, MapChunkHolds(r, P, m),
         Enough(r, k, r.label),
         \A c \in r.need : r.vals[c] # None /\ Has(P[c], m, r.vals[c], r.label),
         t.pc = "push", t.pull_count_ = r.pull_count_,
         \A c \in r.need : t.cached[c] = r.vals[c],
         \A c \in Chunks \ r.need : t.cached[c] = r.cached[c],
         t.cache_ts_ = IF r.need = r.keys THEN r.label ELSE r.cache_ts_
  PROVE  MapChunkHolds(t, P, m)
<1>1. /\ r.label \in Int /\ r.cache_ts_ \in Int /\ r.pull_count_ \in Nat /\ s \in Nat
      /\ r.keys \subseteq Chunks /\ r.need \subseteq Chunks
  BY TableFacts DEF Local
<1>2. t.pc \notin Pulling
  BY DEF Pulling
<1>3. ASSUME NEW c \in r.need, NEW j \in Int, j <= r.label
      PROVE  Has(P[c], m, t.cached[c], j)
  BY <1>1, <1>3, HasLess
<1>4. CASE r.need = r.keys
  <2>1. r.cached = Nothing
    <3>1. CASE TooOld(r)
      BY <3>1
    <3>2. CASE ~TooOld(r)
      <4>1. \A c \in r.keys : r.cached[c] = None
        BY <1>4, <3>2 DEF MapChunkNeeds, Missing
      <4>2. ASSUME r.cached # Nothing
            PROVE  FALSE
        <5>1. PICK l \in table.request : \A c \in l : r.cached[c] # None
          BY <4>2 DEF MapChunkHolds
        <5>2. l \intersect r.keys # {}
          BY DEF OneTimestamp
        <5> QED BY <4>1, <5>1, <5>2
      <4> QED BY <4>2
    <3> QED BY <3>1, <3>2
  <2>2. \A c \in Chunks : r.cached[c] = None
    BY <2>1 DEF Nothing
  <2>3. \A c \in Chunks : t.cached[c] # None <=> c \in r.keys
    BY <1>1, <1>4, <2>2
  <2>4. r.label <= m
    BY DEF Has
  <2>5. t.cache_ts_ = r.label /\ t.cache_ts_ + 1 <= t.pull_count_
    BY <1>1, <1>4, <2>4
  <2>6. \A c \in Chunks : t.cached[c] # None => Has(P[c], m, t.cached[c], t.cache_ts_ - 1)
    <3>1. r.label - 1 \in Int /\ r.label - 1 <= r.label
      BY <1>1
    <3> QED BY <1>3, <1>4, <2>3, <2>5, <3>1
  <2>7. \E l \in table.request : \A c \in l : t.cached[c] # None
    BY <1>1, <2>3
  <2>8. (\A l, j \in table.request : l = j) =>
           \A l \in table.request, c \in Chunks : t.cached[c] # None <=> c \in l
    BY <2>3
  <2> QED BY <1>2, <2>5, <2>6, <2>7, <2>8 DEF MapChunkHolds
<1>5. CASE r.need # r.keys
  <2>1. ~TooOld(r) /\ r.need = {c \in r.keys : r.cached[c] = None}
    BY <1>5 DEF MapChunkNeeds, Missing
  <2>2. r.cached # Nothing
    <3>1. PICK c \in r.keys : r.cached[c] # None
      BY <1>5, <2>1
    <3> QED BY <1>1, <3>1 DEF Nothing
  <2>3. /\ r.cache_ts_ + 2 <= r.pull_count_
        /\ \A c \in Chunks : r.cached[c] # None => Has(P[c], m, r.cached[c], r.cache_ts_ - 1)
        /\ (\A l, j \in table.request : l = j) =>
             \A l \in table.request, c \in Chunks : r.cached[c] # None <=> c \in l
    BY <2>2 DEF MapChunkHolds
  <2>4. ~(\A l, j \in table.request : l = j)
    <3>1. PICK c : c \in r.need
      OBVIOUS
    <3>2. c \in Chunks /\ c \in r.keys /\ r.cached[c] = None
      BY <1>1, <2>1, <3>1
    <3> QED BY <2>3, <3>2
  <2>5. s <= 3
    BY <2>4 DEF OneTimestamp
  <2>6. r.cache_ts_ - 1 <= r.label /\ r.cache_ts_ - 1 \in Int
    BY <1>1, <2>3, <2>5 DEF Enough
  <2>7. t.cache_ts_ = r.cache_ts_ /\ t.cache_ts_ + 1 <= t.pull_count_
    BY <1>1, <1>5, <2>3
  <2>8. ASSUME NEW c \in Chunks, t.cached[c] # None
        PROVE  Has(P[c], m, t.cached[c], t.cache_ts_ - 1)
    <3>1. CASE c \in r.need
      BY <1>3, <2>6, <2>7, <3>1
    <3>2. CASE c \notin r.need
      BY <2>3, <2>7, <2>8, <3>2
    <3> QED BY <3>1, <3>2
  <2>9. \A c \in r.keys : t.cached[c] # None
    BY <1>1, <2>1
  <2> QED BY <1>2, <2>4, <2>7, <2>8, <2>9 DEF MapChunkHolds
<1> QED BY <1>4, <1>5

LEMMA CopiedAll ==
  ASSUME FetchInv, ReadInv, OneTimestamp, NEW w \in Workers, ws[w].pc = "copy",
         NEW r \in Local, SameRun(ws[w], r), r.pc = "copy", r.need = ws[w].need,
         r.cached = ws[w].cached, r.cache_ts_ = ws[w].cache_ts_, r.todo = {},
         Reading(w, r, sent[w], pushed, min_clock, cache.chunk_clocks_),
         NEW t \in Local, t = Returned(Keep(r))
  PROVE  Reading(w, t, sent[w], pushed, min_clock, cache.chunk_clocks_)
<1> DEFINE old == ws[w]
<1>1. /\ old \in Local /\ table \in Tables /\ TypeOK /\ min_clock \in Nat /\ sent[w] \in Nat /\ s \in Nat
      /\ Placed(old) /\ Counted(old, sent[w]) /\ min_clock <= sent[w]
  BY WorkerFacts
<1>2. old.pc \in Pulling /\ OverCache /\ r.pc \in Pulling
  BY <1>1 DEF Pulling, Placed
<1>3. /\ r.need # {} /\ r.need \subseteq r.keys /\ r.keys \in table.request /\ r.keys \subseteq Chunks
      /\ r.need \subseteq Chunks /\ r.keys = old.keys /\ r.label \in Int
  BY <1>1, <1>2 DEF Placed, Local, SameRun
<1>4. ~is({"PSMapNone"}) /\ ~is({"PSChunkNone"}) /\ ~is({"PSWorker"}) /\ ~is({"PSBsp"})
      /\ ~is({"PSMapNone", "PSChunkNone", "PSWorker"})
  BY <1>2 DEF OverCache, is
<1>5. PICK x : x = Keep(r)
  OBVIOUS
<1>6. /\ x \in Local /\ SameRun(r, x)
      /\ \A c \in r.need : x.cached[c] = r.vals[c]
      /\ \A c \in Chunks \ r.need : x.cached[c] = r.cached[c]
      /\ is({"PSMapChunk"}) => x.cache_ts_ = IF r.need = r.keys THEN r.label ELSE r.cache_ts_
      /\ \A c \in Chunks : x.chunk_clocks_[c] = r.chunk_clocks_[c]
  BY <1>4, <1>5, KeepFacts
<1>7. /\ t.pc = "push" /\ SameRun(x, t) /\ t.cached = x.cached /\ t.chunk_clocks_ = x.chunk_clocks_
      /\ t.cache_ts_ = x.cache_ts_
  BY <1>5, <1>6, ReturnedFacts
<1>8. t.pull_count_ = r.pull_count_ /\ t.keys = r.keys /\ r.pull_count_ = old.pull_count_
  BY <1>6, <1>7 DEF SameRun
<1>9. /\ Asked(r) /\ Enough(r, sent[w], r.label)
      /\ \A c \in r.need : r.vals[c] # None /\ Has(pushed[c], min_clock, r.vals[c], r.label)
      /\ Holds(r, sent[w], pushed, min_clock)
  BY <1>3 DEF Reading, Copied
<1>10. \A c \in Chunks : pushed[c] \in SUBSET Pushes
  BY <1>1 DEF TypeOK
<1>11. is({"PSMapChunk"}) => MapChunkHolds(t, pushed, min_clock)
  <2> SUFFICES ASSUME is({"PSMapChunk"})
               PROVE  MapChunkHolds(t, pushed, min_clock)
    OBVIOUS
  <2>1. ~Buffered
    BY DEF Buffered, is
  <2>2. r.pull_count_ = sent[w] + 1
    BY <1>1, <1>8, <2>1 DEF Counted, Local
  <2>3. r.need = MapChunkNeeds(r) /\ (TooOld(r) => r.cached = Nothing)
        /\ MapChunkHolds(r, pushed, min_clock)
    BY <1>2, <1>9 DEF Asked, Holds
  <2>4. /\ \A c \in r.need : t.cached[c] = r.vals[c]
        /\ \A c \in Chunks \ r.need : t.cached[c] = r.cached[c]
        /\ t.cache_ts_ = IF r.need = r.keys THEN r.label ELSE r.cache_ts_
    BY <1>6, <1>7
  <2> QED BY <1>1, <1>2, <1>3, <1>7, <1>8, <1>9, <1>10, <2>2, <2>3, <2>4, MapKept
<1>12. is({"PSChunkNone", "PSChunkChunk"}) => ChunksHold(t, pushed, min_clock)
  <2> SUFFICES ASSUME is({"PSChunkNone", "PSChunkChunk"}), NEW c \in Chunks
               PROVE  /\ Has(pushed[c], min_clock, t.cached[c], t.chunk_clocks_[c])
                      /\ t.chunk_clocks_[c] >= 0 => t.cached[c] # None
    BY <1>7 DEF ChunksHold
  <2>1. is({"PSChunkChunk"}) /\ ChunksHold(r, pushed, min_clock)
    BY <1>4, <1>9 DEF is, Holds
  <2>2. t.chunk_clocks_[c] = r.chunk_clocks_[c]
    BY <1>6, <1>7
  <2>3. CASE c \in r.need
    <3>1. t.cached[c] = r.vals[c] /\ r.vals[c] # None
      BY <1>6, <1>7, <1>9, <2>3
    <3>2. Has(pushed[c], min_clock, r.vals[c], r.chunk_clocks_[c])
      BY <2>1, <2>3 DEF ChunksHold
    <3> QED BY <2>2, <3>1, <3>2
  <2>4. CASE c \notin r.need
    <3>1. t.cached[c] = r.cached[c]
      BY <1>6, <1>7, <2>4
    <3> QED BY <2>1, <2>2, <2>4, <3>1 DEF ChunksHold
  <2> QED BY <2>3, <2>4
<1>13. ASSUME NEW c \in t.keys
       PROVE  t.cached[c] # None /\ Has(pushed[c], min_clock, t.cached[c], sent[w] - Behind)
  <2>1. CASE c \in r.need
    <3>1. t.cached[c] = r.vals[c] /\ c \in Chunks
      BY <1>3, <1>6, <1>7, <2>1
    <3>2. PICK j : j = sent[w] - Behind
      OBVIOUS
    <3>3. j \in Int /\ j <= r.label
      BY <1>1, <1>3, <1>9, <3>2, TableFacts DEF Enough
    <3>4. Has(pushed[c], min_clock, r.vals[c], j)
      BY <1>1, <1>3, <1>9, <1>10, <2>1, <3>1, <3>3, HasLess
    <3> QED BY <1>9, <2>1, <3>1, <3>2, <3>4
  <2>2. CASE c \notin r.need
    <3>1. /\ old.cached[c] # None /\ Has(pushed[c], min_clock, old.cached[c], sent[w] - Behind)
          /\ c \in Chunks
      BY <1>2, <1>3, <1>8, <1>13, <2>2, UnaskedKeys
    <3>2. t.cached[c] = old.cached[c]
      BY <1>6, <1>7, <2>2, <3>1
    <3> QED BY <3>1, <3>2
  <2> QED BY <2>1, <2>2
<1>14. Holds(t, sent[w], pushed, min_clock)
  BY <1>4, <1>11, <1>12, <1>13 DEF Holds
<1>15. Asked(t) /\ Copied(t, sent[w], pushed, min_clock, cache.chunk_clocks_)
  BY <1>7 DEF Asked, Copied, Pulling
<1>16. HoldsOwn(w, t, pushed)
  BY <1>4 DEF HoldsOwn, is
<1> QED BY <1>14, <1>15, <1>16 DEF Reading

LEMMA CopyReads ==
  ASSUME FetchInv, FetchInv', ReadInv, NEW w \in Workers, CopyChunk(w)
  PROVE  ReadInv'
<1>1. PICK c \in ws[w].todo :
           LET r == CopiedChunk(w, c) IN
           /\ Becomes(w, IF ws[w].todo \ {c} = {} THEN Returned(Keep(r)) ELSE r)
           /\ r \in Local /\ SameRun(ws[w], r) /\ r.pc = "copy"
           /\ r.need = ws[w].need /\ r.cached = ws[w].cached /\ r.cache_ts_ = ws[w].cache_ts_
           /\ r.todo = ws[w].todo \ {c}
           /\ r.label <= cache.chunk_clocks_[c]
           /\ IF ws[w].todo = ws[w].need THEN r.label = cache.chunk_clocks_[c]
              ELSE r.label <= ws[w].label /\ r.label \in {ws[w].label, cache.chunk_clocks_[c]}
           /\ \A d \in Chunks :
                /\ r.vals[d] = IF d = c THEN cache.params_[c] ELSE ws[w].vals[d]
                /\ r.chunk_clocks_[d] = IF d = c /\ is({"PSChunkChunk"}) THEN cache.chunk_clocks_[c]
                                        ELSE ws[w].chunk_clocks_[d]
  BY CopyFacts
<1>2. PICK r : r = CopiedChunk(w, c)
  OBVIOUS
<1>3. ws[w].pc = "copy" /\ UNCHANGED <<clock, sent, pushed>> /\ cache'.chunk_clocks_ = cache.chunk_clocks_
  BY DEF CopyChunk, At, server
<1>4. r \in Local /\ SameRun(ws[w], r) /\ r.pc = "copy"
           /\ r.need = ws[w].need /\ r.cached = ws[w].cached /\ r.cache_ts_ = ws[w].cache_ts_
           /\ r.todo = ws[w].todo \ {c}
  BY <1>1, <1>2
<1>5. OneTimestamp => Reading(w, r, sent[w], pushed, min_clock, cache.chunk_clocks_)
  BY <1>1, <1>2, <1>3, CopyReading
<1>6. CASE ws[w].todo \ {c} = {}
  <2>1. PICK t : t = Returned(Keep(r))
    OBVIOUS
  <2>2. t \in Local /\ Becomes(w, t)
    BY <1>1, <1>2, <1>4, <1>6, <2>1, KeepFacts, ReturnedFacts
  <2>3. OneTimestamp => Reading(w, t, sent[w], pushed, min_clock, cache.chunk_clocks_)
    BY <1>3, <1>4, <1>5, <1>6, <2>1, <2>2, CopiedAll
  <2> QED BY <1>3, <2>2, <2>3, LocalReads
<1>7. CASE ws[w].todo \ {c} # {}
  <2>1. Becomes(w, r)
    BY <1>1, <1>2, <1>7
  <2> QED BY <1>3, <1>4, <1>5, <2>1, LocalReads
<1> QED BY <1>6, <1>7

\* A worker that has read adds to its thread cache, and no chunk comes or goes.
LEMMA GrownHolds ==
  ASSUME table \in Tables, NEW r \in Local, NEW t \in Local, NEW k, NEW P, NEW m \in Nat, NEW Q, NEW n \in Nat,
         Later(P, m, Q, n), Holds(r, k, P, m), r.pc = "push", t.pc \in {"push", "idle"},
         t.pull_count_ = r.pull_count_, t.cache_ts_ = r.cache_ts_, t.chunk_clocks_ = r.chunk_clocks_,
         \A c \in Chunks : r.cached[c] \subseteq t.cached[c] /\ (t.cached[c] = None <=> r.cached[c] = None)
  PROVE  /\ is({"PSMapNone"}) => MapNoneHolds(t, Q, n)
         /\ is({"PSMapChunk"}) => MapChunkHolds(t, Q, n)
         /\ is({"PSChunkNone", "PSChunkChunk"}) => ChunksHold(t, Q, n)
         /\ \A c \in Chunks, l \in Int : Has(P[c], m, r.cached[c], l) => Has(Q[c], n, t.cached[c], l)
<1>1. ASSUME NEW c \in Chunks, NEW l \in Int, Has(P[c], m, r.cached[c], l)
      PROVE  Has(Q[c], n, t.cached[c], l)
  <2>1. /\ Q[c] \in SUBSET Pushes /\ m <= n
        /\ \A q \in Q[c] : q \in P[c] \/ q[2] + Lead >= m
    BY DEF Later
  <2> QED BY <1>1, <2>1, HasKept
<1>2. /\ r.cache_ts_ - 1 - s \in Int /\ r.cache_ts_ - 1 \in Int
      /\ \A c \in Chunks : r.chunk_clocks_[c] \in Int
  BY TableFacts DEF Local
<1>3. is({"PSMapNone"}) => MapNoneHolds(t, Q, n)
  BY <1>1, <1>2 DEF Holds, MapNoneHolds
<1>4. is({"PSMapChunk"}) => MapChunkHolds(t, Q, n)
  <2> SUFFICES ASSUME is({"PSMapChunk"}), t.cached # Nothing
               PROVE  MapChunkHolds(t, Q, n)
    BY DEF MapChunkHolds
  <2>1. r.cached # Nothing
    <3>1. t.cached = [c \in Chunks |-> t.cached[c]]
      BY DEF Local, Contents
    <3>2. PICK c \in Chunks : t.cached[c] # None
      BY <3>1 DEF Nothing
    <3>3. r.cached[c] # None
      BY <3>2
    <3> QED BY <3>3 DEF Nothing
  <2>2. r.pc \notin Pulling /\ t.pc \notin Pulling
    BY DEF Pulling
  <2>3. MapChunkHolds(r, P, m)
    BY DEF Holds
  <2>4. /\ t.cache_ts_ + 1 <= t.pull_count_
        /\ \A c \in Chunks : r.cached[c] # None => Has(P[c], m, r.cached[c], r.cache_ts_ - 1)
        /\ (\A l, j \in table.request : l = j) =>
             \A l \in table.request, c \in Chunks : r.cached[c] # None <=> c \in l
    BY <2>1, <2>2, <2>3 DEF MapChunkHolds
  <2>5. \E l \in table.request : \A c \in l : t.cached[c] # None
    <3>1. PICK l \in table.request : \A c \in l : r.cached[c] # None
      BY <2>1, <2>3 DEF MapChunkHolds
    <3>2. l \subseteq Chunks
      BY TableFacts
    <3> QED BY <3>1, <3>2
  <2>6. \A c \in Chunks : t.cached[c] # None => Has(Q[c], n, t.cached[c], t.cache_ts_ - 1)
    BY <1>1, <1>2, <2>4
  <2>7. (\A l, j \in table.request : l = j) =>
             \A l \in table.request, c \in Chunks : t.cached[c] # None <=> c \in l
    BY <2>4
  <2> QED BY <2>2, <2>4, <2>5, <2>6, <2>7 DEF MapChunkHolds
<1>5. is({"PSChunkNone", "PSChunkChunk"}) => ChunksHold(t, Q, n)
  BY <1>1, <1>2 DEF Holds, ChunksHold
<1> QED BY <1>1, <1>3, <1>4, <1>5

LEMMA UpdateReads ==
  ASSUME FetchInv, FetchInv', ReadInv, NEW w \in Workers, Update_v2(w)
  PROVE  ReadInv'
<1>1. CASE is({"PSBsp"})
  BY <1>1, BspReads DEF Update_v2
<1>2. CASE ~is({"PSBsp"})
  <2>1. PICK r : r = AfterUpdate(w)
    OBVIOUS
  <2>2. /\ r \in Local /\ Becomes(w, r) /\ r.pc = "push" /\ ws[w].pc = "push"
        /\ r.pull_count_ = ws[w].pull_count_ /\ r.keys = ws[w].keys /\ r.cache_ts_ = ws[w].cache_ts_
        /\ r.chunk_clocks_ = ws[w].chunk_clocks_
        /\ \A c \in Chunks : /\ ws[w].cached[c] \subseteq r.cached[c]
                             /\ r.cached[c] = None => ws[w].cached[c] = None
                             /\ c \notin ws[w].keys => r.cached[c] = ws[w].cached[c]
                             /\ c \in ws[w].keys /\ ws[w].cached[c] # None => r.cached[c] # None
    BY <2>1, UpdateFacts
  <2>3. UNCHANGED <<clock, sent, pushed>> /\ cache'.chunk_clocks_ = cache.chunk_clocks_
    BY DEF Update_v2, server
  <2> SUFFICES ASSUME OneTimestamp
               PROVE  Reading(w, r, sent[w], pushed, min_clock, cache.chunk_clocks_)
    BY <2>2, <2>3, LocalReads
  <2>4. Reading(w, ws[w], sent[w], pushed, min_clock, cache.chunk_clocks_)
    BY ReadFacts
  <2>5. ws[w] \in Local /\ table \in Tables /\ min_clock \in Nat /\ TypeOK /\ sent[w] \in Nat
    BY WorkerFacts
  <2>6. Later(pushed, min_clock, pushed, min_clock) /\ ws[w].keys \subseteq Chunks
    BY <2>5 DEF Later, TypeOK, Local
  <2>7. \A c \in ws[w].keys : /\ ws[w].cached[c] # None
                              /\ Has(pushed[c], min_clock, ws[w].cached[c], sent[w] - Behind)
    BY <1>2, <2>2, <2>4 DEF Reading, Holds
  <2>8. \A c \in Chunks : r.cached[c] = None <=> ws[w].cached[c] = None
    BY <2>2, <2>7
  <2>9. Holds(ws[w], sent[w], pushed, min_clock)
    BY <2>4 DEF Reading
  <2>10. /\ is({"PSMapNone"}) => MapNoneHolds(r, pushed, min_clock)
         /\ is({"PSMapChunk"}) => MapChunkHolds(r, pushed, min_clock)
         /\ is({"PSChunkNone", "PSChunkChunk"}) => ChunksHold(r, pushed, min_clock)
         /\ \A c \in Chunks, l \in Int :
              Has(pushed[c], min_clock, ws[w].cached[c], l) => Has(pushed[c], min_clock, r.cached[c], l)
    BY <2>2, <2>5, <2>6, <2>8, <2>9, GrownHolds
  <2>11. sent[w] - Behind \in Int
    BY <2>5, TableFacts
  <2>12. Holds(r, sent[w], pushed, min_clock)
    BY <2>2, <2>6, <2>7, <2>8, <2>10, <2>11 DEF Holds
  <2>13. HoldsOwn(w, r, pushed)
    BY <2>2, <2>4, <2>8 DEF Reading, HoldsOwn
  <2>14. Asked(r) /\ Copied(r, sent[w], pushed, min_clock, cache.chunk_clocks_)
    BY <2>2 DEF Asked, Copied, Pulling
  <2> QED BY <2>12, <2>13, <2>14 DEF Reading
<1> QED BY <1>1, <1>2

LEMMA PushReads ==
  ASSUME FetchInv, FetchInv', ReadInv, NEW w \in Workers, Push(w)
  PROVE  ReadInv'
<1> DEFINE old == ws[w]
           q == <<w, old.push_count_>>
<1>1. /\ old.pc = "push" /\ ~Buffered /\ ~is({"PSBsp"})
      /\ Remains(w) \in Contents /\ Becomes(w, AfterPush(w, Remains(w)))
      /\ Update(w) \in [Chunks -> SUBSET Pushes]
  BY PushFacts
<1>2. PICK r : r = AfterPush(w, Remains(w))
  OBVIOUS
<1>3. /\ r \in Local /\ r.pc = "idle" /\ r.cached = Remains(w) /\ Becomes(w, r)
      /\ r.pull_count_ = old.pull_count_ /\ r.cache_ts_ = old.cache_ts_
      /\ r.chunk_clocks_ = old.chunk_clocks_
  BY <1>1, <1>2, AfterPushFacts
<1>4. /\ TypeOK /\ sent[w] \in Nat /\ table \in Tables /\ old \in Local /\ old.keys \subseteq Chunks
      /\ q \in Pushes
  BY WorkerFacts, OwnPush DEF Local
<1>5. Send(w, Update(w)) /\ Made(w) /\ cache' = cache
  BY DEF Push
<1>6. PICK x : x = Update(w)
  OBVIOUS
<1>7. /\ clock' \in [Workers -> Nat] /\ \A u \in Workers : clock[u] <= clock'[u]
      /\ \A u \in Workers : u # w => sent'[u] = sent[u]
      /\ min_clock \in Nat /\ min_clock' \in Nat
  <2>1. /\ clock' = clock /\ min_clock' = min_clock
        /\ \A u \in Workers : u # w => sent'[u] = sent[u]
    BY <1>1, <1>4, <1>5, <1>6, SentFacts
  <2> QED BY <1>4, <2>1, WorkerFacts DEF TypeOK
<1>8. /\ Later(pushed, min_clock, pushed', min_clock')
      /\ \A c \in Chunks : \A p \in pushed'[c] : p \in pushed[c] \/ (p = q /\ c \in old.keys)
  <2>1. /\ Later(pushed, min_clock, pushed', min_clock')
        /\ \A c \in Chunks :
             /\ pushed'[c] = pushed[c] \union Update(w)[c]
             /\ Update(w)[c] = IF c \in old.keys THEN {q} ELSE {}
    BY <1>1, <1>5, <1>7, MadeLater
  <2> QED BY <2>1
<1>9. /\ \A c \in Chunks : cache.chunk_clocks_[c] <= cache'.chunk_clocks_[c]
      /\ \A c \in Chunks : \A p \in pushed'[c] : p \in pushed[c] \/ p[1] = w
  BY <1>4, <1>5, <1>8 DEF TypeOK
<1>10. ASSUME OneTimestamp
       PROVE  Reading(w, r, sent'[w], pushed', min_clock', cache'.chunk_clocks_)
  <2>1. Reading(w, old, sent[w], pushed, min_clock, cache.chunk_clocks_)
    BY <1>10, ReadFacts
  <2>2. Asked(r) /\ Copied(r, sent'[w], pushed', min_clock', cache'.chunk_clocks_)
    BY <1>3 DEF Asked, Copied, Pulling
  <2>3. CASE is({"PSWorker", "PSNoneChunk"})
    <3>1. \A c \in Chunks : r.cached[c] = None
      BY <1>3, <2>3 DEF Remains, Nothing
    <3>2. HoldsOwn(w, r, pushed')
      BY <3>1 DEF HoldsOwn
    <3>3. Holds(r, sent'[w], pushed', min_clock')
      BY <1>3, <2>3 DEF Holds, is
    <3> QED BY <2>2, <3>2, <3>3 DEF Reading
  <2>4. CASE ~is({"PSWorker", "PSNoneChunk"})
    <3>1. r.cached = Sum(old, q)
      BY <1>3, <2>4 DEF Remains
    <3>2. \A c \in Chunks : /\ old.cached[c] \subseteq r.cached[c]
                            /\ r.cached[c] = None => old.cached[c] = None
                            /\ c \notin old.keys => r.cached[c] = old.cached[c]
                            /\ c \in old.keys => r.cached[c] # None /\ q \in r.cached[c]
      BY <1>4, <3>1, SumFacts
    <3>3. \A c \in old.keys : old.cached[c] # None
      BY <1>1, <2>1 DEF Reading, Holds
    <3>4. \A c \in Chunks : r.cached[c] = None <=> old.cached[c] = None
      BY <3>2, <3>3
    <3>5. PICK Q, n : Q = pushed' /\ n = min_clock'
      OBVIOUS
    <3>6. /\ is({"PSMapNone"}) => MapNoneHolds(r, Q, n)
          /\ is({"PSMapChunk"}) => MapChunkHolds(r, Q, n)
          /\ is({"PSChunkNone", "PSChunkChunk"}) => ChunksHold(r, Q, n)
      <4>1. Holds(old, sent[w], pushed, min_clock) /\ n \in Nat /\ Later(pushed, min_clock, Q, n)
        BY <1>7, <1>8, <2>1, <3>5 DEF Reading
      <4> QED BY <1>1, <1>3, <1>4, <1>7, <3>2, <3>4, <4>1, GrownHolds
    <3>7. Holds(r, sent'[w], pushed', min_clock')
      BY <1>3, <3>5, <3>6 DEF Holds
    <3>8. HoldsOwn(w, r, pushed')
      <4> SUFFICES ASSUME is({"PSWorker", "PSMapNone", "PSChunkNone"}), NEW c \in Chunks, r.cached[c] # None,
                          NEW p \in pushed'[c], p[1] = w
                   PROVE  p \in r.cached[c]
        BY DEF HoldsOwn
      <4>1. CASE p \in pushed[c]
        BY <2>1, <3>2, <3>4, <4>1 DEF Reading, HoldsOwn
      <4>2. CASE p = q /\ c \in old.keys
        BY <3>2, <4>2
      <4> QED BY <1>8, <4>1, <4>2
    <3> QED BY <2>2, <3>7, <3>8 DEF Reading
  <2> QED BY <2>3, <2>4
<1> QED BY <1>3, <1>7, <1>8, <1>9, <1>10, EachReads

LEMMA BufferReads ==
  ASSUME FetchInv, FetchInv', ReadInv, NEW w \in Workers, PushToBuffer(w)
  PROVE  ReadInv'
<1>1. PICK r : r = [ws[w] EXCEPT !.pc = "idle", !.push_count_ = ws[w].push_count_ + 1, !.keys = {},
                                 !.cached = Nothing]
  OBVIOUS
<1>2. ws[w].pc = "push" /\ Buffered /\ Becomes(w, r) /\ r \in Local /\ r.pc = "idle"
  BY <1>1, BufferFacts
<1>3. TypeOK /\ table \in Tables /\ clock \in [Workers -> Nat] /\ FetchInv'
  BY WorkerFacts DEF TypeOK
<1>4. Made(w) /\ clock' = clock /\ sent' = sent
  BY DEF PushToBuffer, server
<1>5. clock' \in [Workers -> Nat] /\ \A u \in Workers : clock[u] <= clock'[u]
  BY <1>3, <1>4
<1>6. /\ Later(pushed, min_clock, pushed', min_clock')
      /\ \A c \in Chunks : \A p \in pushed'[c] : p \in pushed[c] \/ p[1] = w
  <2>1. /\ Later(pushed, min_clock, pushed', min_clock')
        /\ \A c \in Chunks :
             /\ pushed'[c] = pushed[c] \union Update(w)[c]
             /\ Update(w)[c] = IF c \in ws[w].keys THEN {<<w, ws[w].push_count_>>} ELSE {}
    BY <1>2, <1>4, <1>5, MadeLater
  <2> QED BY <2>1
<1>7. \A c \in Chunks : cache.chunk_clocks_[c] <= cache'.chunk_clocks_[c]
  <2>1. PICK b : b = [c \in Chunks |-> cache.buffer[c] \union Update(w)[c]]
    OBVIOUS
  <2>2. cache' = [cache EXCEPT !.buffer = b]
    BY <1>3, <2>1 DEF TypeOK, NewCache, PushToBuffer
  <2>3. cache'.chunk_clocks_ = cache.chunk_clocks_
    BY <1>3, <2>2 DEF TypeOK, NewCache
  <2> QED BY <1>3, <2>3 DEF TypeOK
<1>8. Reading(w, r, sent'[w], pushed', min_clock', cache'.chunk_clocks_)
  <2>1. /\ ~is({"PSMapNone"}) /\ ~is({"PSMapChunk"}) /\ ~is({"PSChunkNone", "PSChunkChunk"})
        /\ ~is({"PSWorker", "PSMapNone", "PSChunkNone"})
    BY <1>2 DEF Buffered, is
  <2> QED BY <1>2, <2>1 DEF Reading, Asked, Copied, Holds, HoldsOwn, Pulling
<1> QED BY <1>2, <1>4, <1>6, <1>7, <1>8, EachReads

LEMMA BspStepReads ==
  ASSUME FetchInv, FetchInv', ReadInv, NEW w \in Workers,
         \/ Register(w) \/ JoinPull(w) \/ LeavePull(w) \/ JoinPush(w) \/ LeavePush(w) \/ SendPush(w)
  PROVE  ReadInv'
<1>1. Placed(ws[w])
  BY WorkerFacts
<1>2. is({"PSBsp"})
  BY <1>1 DEF Placed, Register, JoinPull, LeavePull, JoinPush, LeavePush, SendPush, At
<1>3. table' = table
  BY DEF Register, JoinPull, LeavePull, JoinPush, LeavePush, SendPush
<1> QED BY <1>2, <1>3, BspReads

LEMMA InitReads ==
  ASSUME Init
  PROVE  ReadInv
<1>1. FetchInv
  BY InitFetches
<1> SUFFICES ASSUME NEW w \in Workers
             PROVE  Reading(w, ws[w], sent[w], pushed, min_clock, cache.chunk_clocks_)
  BY DEF ReadInv, Reading
<1>2. /\ ws[w].pc = "idle" /\ ws[w].pull_count_ = 0 /\ ws[w].cache_ts_ = 0 /\ ws[w].cached = Nothing
      /\ \A c \in Chunks : ws[w].chunk_clocks_[c] = -1 /\ pushed[c] = {} /\ ws[w].cached[c] = None
  BY DEF Init, NewWorker, Nothing
<1>3. min_clock \in Nat
  BY <1>1, WorkerFacts
<1>4. MapNoneHolds(ws[w], pushed, min_clock) /\ MapChunkHolds(ws[w], pushed, min_clock)
  BY <1>2 DEF MapNoneHolds, MapChunkHolds
<1>5. ChunksHold(ws[w], pushed, min_clock)
  BY <1>2, <1>3 DEF ChunksHold, Has
<1> QED BY <1>2, <1>4, <1>5 DEF Reading, Asked, Copied, Holds, HoldsOwn, Pulling

LEMMA ArriveReads ==
  ASSUME FetchInv, FetchInv', ReadInv, NEW w \in Workers, Arrive(w)
  PROVE  ReadInv'
<1>1. /\ min_clock \in Nat /\ min_clock' \in Nat
      /\ UNCHANGED <<table, sent, messages, ws, cache, bsp, pushed>>
      /\ Later(pushed, min_clock, pushed', min_clock')
  BY ArrivesLater
<1>2. /\ TypeOK /\ ws[w] \in Local /\ sent[w] \in Nat /\ table \in Tables
      /\ cache.chunk_clocks_ \in [Chunks -> Int]
  BY WorkerFacts DEF TypeOK
<1>3. Becomes(w, ws[w])
  BY <1>1, <1>2 DEF Becomes, TypeOK
<1>4. /\ \A c \in Chunks : cache.chunk_clocks_[c] <= cache'.chunk_clocks_[c]
      /\ cache'.chunk_clocks_ \in [Chunks -> Int]
      /\ \A c \in Chunks : \A q \in pushed'[c] : q \in pushed[c]
  BY <1>1, <1>2
<1>5. OneTimestamp => Reading(w, ws[w], sent[w], pushed', min_clock', cache'.chunk_clocks_)
  <2> SUFFICES ASSUME OneTimestamp
               PROVE  Reading(w, ws[w], sent[w], pushed', min_clock', cache'.chunk_clocks_)
    OBVIOUS
  <2>1. Reading(w, ws[w], sent[w], pushed, min_clock, cache.chunk_clocks_)
    BY ReadFacts
  <2> QED BY <1>1, <1>2, <1>4, <2>1, ReadingKept
<1> QED BY <1>1, <1>2, <1>3, <1>4, <1>5, EachReads

LEMMA StutterReads ==
  ASSUME FetchInv, ReadInv, UNCHANGED vars
  PROVE  ReadInv'
<1>1. /\ table' = table /\ clock' = clock /\ sent' = sent /\ ws' = ws /\ cache' = cache /\ pushed' = pushed
  BY DEF vars
<1>2. min_clock' = min_clock /\ OneTimestamp' = OneTimestamp
  BY <1>1 DEF min_clock, OneTimestamp, is, s
<1> SUFFICES ASSUME OneTimestamp, NEW w \in Workers
             PROVE  Reading(w, ws'[w], sent'[w], pushed', min_clock', cache'.chunk_clocks_)
  BY <1>1, <1>2, ReadingPrime DEF ReadInv, Reading
<1> QED BY <1>1, <1>2, ReadFacts

LEMMA NextReads ==
  ASSUME FetchInv, FetchInv', ReadInv, [Next]_vars
  PROVE  ReadInv'
<1>1. ASSUME NEW w \in Workers, Step(w)
      PROVE  ReadInv'
  BY <1>1, PullReads, ProcessReads, ManageReads, FetchReads, InstallReads, ReleaseReads,
     CopyReads, UpdateReads, PushReads, BufferReads, BspStepReads DEF Step
<1>2. CASE UNCHANGED vars
  BY <1>2, StutterReads
<1>3. ASSUME NEW w \in Workers, Arrive(w)
      PROVE  ReadInv'
  BY <1>3, ArriveReads
<1> QED BY <1>1, <1>2, <1>3 DEF Next, Finished

\* What the caches hold is what a read needs.
LEMMA ReadsFresh ==
  ASSUME FetchInv, ReadInv, OneTimestamp, ~is({"PSBsp"})
  PROVE  FreshReads /\ OwnPushesRead
<1>1. FreshReads
  <2> SUFFICES ASSUME NEW w \in Workers, NEW c \in Chunks, HasRead(w, c), NEW q \in pushed[c],
                      q[2] < Iteration(w) - Lag
               PROVE  q \in ws[w].cached[c]
    BY DEF FreshReads
  <2>1. /\ ws[w] \in Local /\ Counted(ws[w], sent[w]) /\ sent[w] \in Nat /\ table \in Tables /\ TypeOK
    BY WorkerFacts
  <2>2. ws[w].pc = "push" /\ c \in ws[w].keys
    BY DEF HasRead, At
  <2>3. Has(pushed[c], min_clock, ws[w].cached[c], sent[w] - Behind)
    BY <2>2, ReadFacts DEF Reading, Holds
  <2>4. sent[w] = ws[w].pull_count_ - (IF Buffered THEN 0 ELSE 1)
    BY <2>1, <2>2 DEF Counted, Local
  <2>5. /\ q[2] \in Nat /\ Lag \in Nat /\ Behind \in Nat /\ s \in Nat /\ ws[w].pull_count_ \in Nat
        /\ Lead = IF Buffered THEN 1 + s ELSE 0
        /\ Lag = IF Buffered THEN Behind + s ELSE Behind
    BY <2>1, TableFacts DEF TypeOK, Pushes, Local, Lead
  <2>6. q[2] + Lead < sent[w] - Behind
    BY <2>1, <2>4, <2>5 DEF Iteration
  <2> QED BY <2>3, <2>6 DEF Has
<1>2. OwnPushesRead
  <2> SUFFICES ASSUME is({"PSWorker", "PSMapNone", "PSChunkNone", "PSBsp"}),
                      NEW w \in Workers, NEW c \in Chunks, HasRead(w, c), NEW q \in pushed[c], q[1] = w
               PROVE  q \in ws[w].cached[c]
    BY DEF OwnPushesRead
  <2>1. ws[w].pc = "push" /\ c \in ws[w].keys /\ is({"PSWorker", "PSMapNone", "PSChunkNone"})
    BY DEF HasRead, At, is
  <2>2. Holds(ws[w], sent[w], pushed, min_clock) /\ HoldsOwn(w, ws[w], pushed)
    BY ReadFacts DEF Reading
  <2>3. ws[w].cached[c] # None
    BY <2>1, <2>2 DEF Holds
  <2> QED BY <2>1, <2>2, <2>3 DEF HoldsOwn
<1> QED BY <1>1, <1>2

------------------------------------------------------------------------------
(* PSBsp: the two barriers of PSBspModel.                                  *)

Phase == \E n \in {ws[0].push_count_, ws[0].push_count_ + 1} : PullPhase(n) \/ PushPhase(n)

InPull(r, n) == \/ r.pc \in {"pushing", "send"} /\ r.push_count_ + 1 = n
                \/ r.pc \in {"idle", "register", "join", "joined"} /\ r.push_count_ = n
InPush(r, n) == r.pc \in {"joined", "push", "pushing"} /\ r.push_count_ = n

\* The counters of PSBspModel b when j threads are at the barrier of the pull
\* and p at that of the push.
PullCounts(b, j, p) ==
  /\ b.pull_num_ = j /\ b.pull_num_ # num_local_threads_ /\ b.pull_num2_ = 0
  /\ b.push_num_ = (IF p = 0 THEN 0 ELSE num_local_threads_) /\ b.push_num2_ + p = b.push_num_
PushCounts(b, j, p) ==
  /\ b.push_num_ = p /\ b.push_num_ # num_local_threads_ /\ b.push_num2_ = 0
  /\ b.pull_num_ = (IF j = 0 THEN 0 ELSE num_local_threads_) /\ b.pull_num2_ + j = b.pull_num_

\* What a thread relies on between the barriers: P are all pushes.
BspRead(r, b, P) ==
  /\ r.pc \in {"join", "joined"} => r.keys \subseteq b.keys
  /\ \A c \in r.keys :
       /\ r.pc = "joined" /\ b.pull_num_ = num_local_threads_ =>
            b.vals[c] = {q \in P[c] : q[2] < r.push_count_}
       /\ r.pc = "push" => r.cached[c] = {q \in P[c] : q[2] < r.push_count_}

LEMMA CountThreads ==
  ASSUME NEW S \in SUBSET Workers
  PROVE  /\ Cardinality(S) \in Nat /\ num_local_threads_ \in Nat /\ num_local_threads_ # 0
         /\ IsFiniteSet(S) /\ Cardinality(S) <= num_local_threads_
         /\ Cardinality(S) = 0 <=> S = {}
         /\ Cardinality(S) = num_local_threads_ <=> S = Workers
<1>1. IsFiniteSet(Workers) /\ 0 \in Workers
  BY PSAssumption
<1>2. /\ IsFiniteSet(S) /\ Cardinality(S) <= Cardinality(Workers)
      /\ Cardinality(Workers) = Cardinality(S) => Workers = S
  BY <1>1, FS_Subset
<1>3. Cardinality(S) \in Nat /\ Cardinality(Workers) \in Nat
  BY <1>1, <1>2, FS_CardinalityType
<1>4. Cardinality(S) = 0 <=> S = {}
  BY <1>2, FS_EmptySet
<1>5. Cardinality(Workers) # 0
  BY <1>1, FS_EmptySet
<1> QED BY <1>2, <1>3, <1>4, <1>5 DEF num_local_threads_

LEMMA CountMoved ==
  ASSUME TypeOK, NEW w \in Workers, NEW r \in Local, Becomes(w, r), NEW l
  PROVE  Cardinality({u \in Workers : ws'[u].pc = l}) =
           Cardinality({u \in Workers : ws[u].pc = l})
             + (IF r.pc = l THEN 1 ELSE 0) - (IF ws[w].pc = l THEN 1 ELSE 0)
<1>1. PICK S, T : S = {u \in Workers : ws[u].pc = l} /\ T = {u \in Workers : ws'[u].pc = l}
  OBVIOUS
<1>2. ws'[w] = r /\ \A u \in Workers : u # w => ws'[u] = ws[u]
  BY BecomesType
<1>3. S \in SUBSET Workers /\ (w \in S <=> ws[w].pc = l)
  BY <1>1
<1>4. Cardinality(S) \in Nat /\ IsFiniteSet(S)
  BY <1>3, CountThreads
<1>5. CASE r.pc = l
  <2>1. T = S \union {w}
    BY <1>1, <1>2, <1>5
  <2>2. Cardinality(T) = IF w \in S THEN Cardinality(S) ELSE Cardinality(S) + 1
    BY <1>4, <2>1, FS_AddElement
  <2> QED BY <1>1, <1>3, <1>4, <1>5, <2>2
<1>6. CASE r.pc # l
  <2>1. T = S \ {w}
    BY <1>1, <1>2, <1>6
  <2>2. Cardinality(T) = IF w \in S THEN Cardinality(S) - 1 ELSE Cardinality(S)
    BY <1>4, <2>1, FS_RemoveElement
  <2> QED BY <1>1, <1>3, <1>4, <1>6, <2>2
<1> QED BY <1>5, <1>6

\* The threads at the two barriers before (j, p) and after (i, o) a step of w.
LEMMA Places ==
  ASSUME TypeOK, NEW w \in Workers, NEW r \in Local, Becomes(w, r)
  PROVE  \E j, p, i, o \in Nat :
           /\ j = Cardinality(AtPlace("joined")) /\ p = Cardinality(AtPlace("pushing"))
           /\ i = Cardinality({u \in Workers : ws'[u].pc = "joined"})
           /\ o = Cardinality({u \in Workers : ws'[u].pc = "pushing"})
           /\ i = j + (IF r.pc = "joined" THEN 1 ELSE 0) - (IF ws[w].pc = "joined" THEN 1 ELSE 0)
           /\ o = p + (IF r.pc = "pushing" THEN 1 ELSE 0) - (IF ws[w].pc = "pushing" THEN 1 ELSE 0)
           /\ i = num_local_threads_ => \A u \in Workers : ws'[u].pc = "joined"
           /\ o = num_local_threads_ => \A u \in Workers : ws'[u].pc = "pushing"
           /\ i = 0 <=> \A u \in Workers : ws'[u].pc # "joined"
           /\ o = 0 <=> \A u \in Workers : ws'[u].pc # "pushing"
<1>1. PICK J, P, I, O : /\ J = {u \in Workers : ws[u].pc = "joined"} /\ P = {u \in Workers : ws[u].pc = "pushing"}
                        /\ I = {u \in Workers : ws'[u].pc = "joined"} /\ O = {u \in Workers : ws'[u].pc = "pushing"}
  OBVIOUS
<1>2. J \in SUBSET Workers /\ P \in SUBSET Workers /\ I \in SUBSET Workers /\ O \in SUBSET Workers
  BY <1>1
<1>3. /\ Cardinality(J) \in Nat /\ Cardinality(P) \in Nat /\ Cardinality(I) \in Nat /\ Cardinality(O) \in Nat
      /\ Cardinality(I) = num_local_threads_ => I = Workers
      /\ Cardinality(O) = num_local_threads_ => O = Workers
      /\ Cardinality(I) = 0 <=> I = {}
      /\ Cardinality(O) = 0 <=> O = {}
  BY <1>2, CountThreads
<1>4. /\ Cardinality(I) = Cardinality(J) + (IF r.pc = "joined" THEN 1 ELSE 0)
                                         - (IF ws[w].pc = "joined" THEN 1 ELSE 0)
      /\ Cardinality(O) = Cardinality(P) + (IF r.pc = "pushing" THEN 1 ELSE 0)
                                         - (IF ws[w].pc = "pushing" THEN 1 ELSE 0)
  BY <1>1, CountMoved
<1>5. J = AtPlace("joined") /\ P = AtPlace("pushing")
  BY <1>1 DEF AtPlace, At
<1>6. PICK j, p, i, o : /\ j = Cardinality(J) /\ p = Cardinality(P) /\ i = Cardinality(I) /\ o = Cardinality(O)
  OBVIOUS
<1>7. /\ i = num_local_threads_ => \A u \in Workers : ws'[u].pc = "joined"
      /\ o = num_local_threads_ => \A u \in Workers : ws'[u].pc = "pushing"
      /\ i = 0 <=> \A u \in Workers : ws'[u].pc # "joined"
      /\ o = 0 <=> \A u \in Workers : ws'[u].pc # "pushing"
  BY <1>1, <1>3, <1>6
<1>8. /\ j \in Nat /\ p \in Nat /\ i \in Nat /\ o \in Nat
      /\ j = Cardinality(AtPlace("joined")) /\ p = Cardinality(AtPlace("pushing"))
      /\ i = Cardinality({u \in Workers : ws'[u].pc = "joined"})
      /\ o = Cardinality({u \in Workers : ws'[u].pc = "pushing"})
      /\ i = j + (IF r.pc = "joined" THEN 1 ELSE 0) - (IF ws[w].pc = "joined" THEN 1 ELSE 0)
      /\ o = p + (IF r.pc = "pushing" THEN 1 ELSE 0) - (IF ws[w].pc = "pushing" THEN 1 ELSE 0)
  BY <1>1, <1>3, <1>4, <1>5, <1>6
<1> QED BY <1>7, <1>8

\* The phase before a step, in numbers, and the one after it.
LEMMA PhaseCounts ==
  ASSUME TypeOK, NEW n, NEW j, NEW p,
         j = Cardinality(AtPlace("joined")), p = Cardinality(AtPlace("pushing"))
  PROVE  /\ PullPhase(n) => PullCounts(bsp, j, p) /\ \A u \in Workers : InPull(ws[u], n)
         /\ PushPhase(n) => PushCounts(bsp, j, p) /\ \A u \in Workers : InPush(ws[u], n)
<1>1. AtPlace("joined") \in SUBSET Workers /\ AtPlace("pushing") \in SUBSET Workers
  BY DEF AtPlace
<1>2. (j = 0 <=> AtPlace("joined") = {}) /\ (p = 0 <=> AtPlace("pushing") = {})
  BY <1>1, CountThreads
<1> QED BY <1>2 DEF PullPhase, PushPhase, PullCounts, PushCounts, InPull, InPush

LEMMA PhaseAfter ==
  ASSUME NEW n, n = ws'[0].push_count_ \/ n = ws'[0].push_count_ + 1, NEW i, NEW o,
         i = Cardinality({u \in Workers : ws'[u].pc = "joined"}),
         o = Cardinality({u \in Workers : ws'[u].pc = "pushing"}),
         \/ PullCounts(bsp', i, o) /\ \A u \in Workers : InPull(ws'[u], n)
         \/ PushCounts(bsp', i, o) /\ \A u \in Workers : InPush(ws'[u], n)
  PROVE  Phase'
<1>1. PICK I, O : I = {u \in Workers : ws'[u].pc = "joined"} /\ O = {u \in Workers : ws'[u].pc = "pushing"}
  OBVIOUS
<1>2. I \in SUBSET Workers /\ O \in SUBSET Workers
  BY <1>1
<1>3. (i = 0 <=> I = {}) /\ (o = 0 <=> O = {}) /\ i = Cardinality(I) /\ o = Cardinality(O)
  BY <1>1, <1>2, CountThreads
<1>4. AtPlace("joined")' = I /\ AtPlace("pushing")' = O
  BY <1>1 DEF AtPlace, At
<1>5. num_local_threads_' = num_local_threads_
  BY DEF num_local_threads_
<1>6. (PullPhase(n) \/ PushPhase(n))'
  <2>1. CASE PullCounts(bsp', i, o) /\ \A u \in Workers : InPull(ws'[u], n)
    BY <1>3, <1>4, <1>5, <2>1 DEF PullPhase, PullCounts, InPull
  <2>2. CASE PushCounts(bsp', i, o) /\ \A u \in Workers : InPush(ws'[u], n)
    BY <1>3, <1>4, <1>5, <2>2 DEF PushPhase, PushCounts, InPush
  <2> QED BY <2>1, <2>2
<1> QED BY <1>6 DEF Phase

LEMMA BspFacts ==
  ASSUME BspInv, is({"PSBsp"})
  PROVE  /\ Phase
         /\ \A c \in Chunks : /\ \A q \in bsp.params_[c] : q[2] = ws[0].push_count_
                              /\ \A a \in messages[c] : a.at = a.id[2]
         /\ \A u \in Workers : BspRead(ws[u], bsp, pushed)
BY DEF BspInv, Phase, BspRead, At, Before

LEMMA BspAfter ==
  ASSUME table' = table, Phase',
         \A c \in Chunks : /\ \A q \in bsp'.params_[c] : q[2] = ws'[0].push_count_
                           /\ \A a \in messages'[c] : a.at = a.id[2],
         \A u \in Workers : BspRead(ws'[u], bsp', pushed')
  PROVE  BspInv'
<1>1. num_local_threads_' = num_local_threads_
  BY DEF num_local_threads_
<1> QED BY <1>1 DEF BspInv, Phase, BspRead, At, Before

\* In phase n, with j threads at the barrier of the pull and p at that of the
\* push, w takes a step to r, after which they are i and o.
Moves(w, r, n, j, p, i, o) ==
  /\ n = ws[0].push_count_ \/ n = ws[0].push_count_ + 1
  /\ i = Cardinality({u \in Workers : ws'[u].pc = "joined"})
  /\ o = Cardinality({u \in Workers : ws'[u].pc = "pushing"})
  /\ i = j + (IF r.pc = "joined" THEN 1 ELSE 0) - (IF ws[w].pc = "joined" THEN 1 ELSE 0)
  /\ o = p + (IF r.pc = "pushing" THEN 1 ELSE 0) - (IF ws[w].pc = "pushing" THEN 1 ELSE 0)
  /\ i = num_local_threads_ => \A u \in Workers : ws'[u].pc = "joined"
  /\ o = num_local_threads_ => \A u \in Workers : ws'[u].pc = "pushing"
  /\ i = 0 <=> \A u \in Workers : ws'[u].pc # "joined"
  /\ o = 0 <=> \A u \in Workers : ws'[u].pc # "pushing"
  /\ \/ PullCounts(bsp, j, p) /\ \A u \in Workers : InPull(ws[u], n)
     \/ PushCounts(bsp, j, p) /\ \A u \in Workers : InPush(ws[u], n)

LEMMA BspPhases ==
  ASSUME FetchInv, BspInv, is({"PSBsp"}), NEW w \in Workers, NEW r \in Local, Becomes(w, r)
  PROVE  \E n, j, p, i, o \in Nat : Moves(w, r, n, j, p, i, o)
<1>1. TypeOK /\ 0 \in Workers /\ ws[0] \in Local
  BY PSAssumption DEF FetchInv, TypeOK
<1>2. PICK n : /\ n = ws[0].push_count_ \/ n = ws[0].push_count_ + 1
               /\ PullPhase(n) \/ PushPhase(n)
  BY BspFacts DEF Phase
<1>3. n \in Nat
  BY <1>1, <1>2 DEF Local
<1>4. PICK j, p, i, o \in Nat :
           /\ j = Cardinality(AtPlace("joined")) /\ p = Cardinality(AtPlace("pushing"))
           /\ i = Cardinality({u \in Workers : ws'[u].pc = "joined"})
           /\ o = Cardinality({u \in Workers : ws'[u].pc = "pushing"})
           /\ i = j + (IF r.pc = "joined" THEN 1 ELSE 0) - (IF ws[w].pc = "joined" THEN 1 ELSE 0)
           /\ o = p + (IF r.pc = "pushing" THEN 1 ELSE 0) - (IF ws[w].pc = "pushing" THEN 1 ELSE 0)
           /\ i = num_local_threads_ => \A u \in Workers : ws'[u].pc = "joined"
           /\ o = num_local_threads_ => \A u \in Workers : ws'[u].pc = "pushing"
           /\ i = 0 <=> \A u \in Workers : ws'[u].pc # "joined"
           /\ o = 0 <=> \A u \in Workers : ws'[u].pc # "pushing"
  BY <1>1, Places
<1>5. \/ PullCounts(bsp, j, p) /\ \A u \in Workers : InPull(ws[u], n)
      \/ PushCounts(bsp, j, p) /\ \A u \in Workers : InPush(ws[u], n)
  BY <1>1, <1>2, <1>4, PhaseCounts
<1>6. Moves(w, r, n, j, p, i, o)
  BY <1>2, <1>4, <1>5 DEF Moves
<1> QED BY <1>3, <1>6

\* A step that reaches or leaves no barrier.
LEMMA BspQuiet ==
  ASSUME FetchInv, BspInv, is({"PSBsp"}), NEW w \in Workers, NEW r \in Local, Becomes(w, r),
         bsp'.pull_num_ = bsp.pull_num_, bsp'.pull_num2_ = bsp.pull_num2_,
         bsp'.push_num_ = bsp.push_num_, bsp'.push_num2_ = bsp.push_num2_,
         bsp'.vals = bsp.vals, bsp.keys \subseteq bsp'.keys, pushed' = pushed,
         r.pc = "join" => r.keys \subseteq bsp'.keys,
         \/ /\ ws[w].pc \in {"idle", "register", "join"} /\ r.pc \in {"idle", "register", "join"}
            /\ r.push_count_ = ws[w].push_count_
         \/ /\ ws[w].pc = "push" /\ r.pc = "push" /\ r.push_count_ = ws[w].push_count_
            /\ r.keys = ws[w].keys /\ r.cached = ws[w].cached
         \/ ws[w].pc = "send" /\ r.pc = "idle" /\ r.push_count_ = ws[w].push_count_ + 1,
         \A c \in Chunks : /\ \A q \in bsp'.params_[c] : q[2] = ws'[0].push_count_
                           /\ \A a \in messages'[c] : a.at = a.id[2]
  PROVE  BspInv'
<1>1. /\ TypeOK /\ 0 \in Workers /\ \A u \in Workers : ws[u] \in Local
      /\ ws'[w] = r /\ \A u \in Workers : u # w => ws'[u] = ws[u]
  BY PSAssumption, BecomesType DEF FetchInv, TypeOK
<1>2. PICK n, j, p, i, o \in Nat : Moves(w, r, n, j, p, i, o)
  BY BspPhases
<1>3. i = j /\ o = p
  BY <1>2 DEF Moves
<1>4. \/ PullCounts(bsp', i, o) /\ \A u \in Workers : InPull(ws'[u], n)
      \/ PushCounts(bsp', i, o) /\ \A u \in Workers : InPush(ws'[u], n)
  <2>1. CASE PullCounts(bsp, j, p) /\ \A u \in Workers : InPull(ws[u], n)
    <3>1. PullCounts(bsp', i, o)
      BY <1>3, <2>1 DEF PullCounts
    <3>2. InPull(r, n)
      BY <1>1, <2>1 DEF InPull, Local
    <3> QED BY <1>1, <2>1, <3>1, <3>2
  <2>2. CASE PushCounts(bsp, j, p) /\ \A u \in Workers : InPush(ws[u], n)
    <3>1. PushCounts(bsp', i, o)
      BY <1>3, <2>2 DEF PushCounts
    <3>2. InPush(r, n)
      BY <1>1, <2>2 DEF InPush, Local
    <3> QED BY <1>1, <2>2, <3>1, <3>2
  <2> QED BY <1>2, <2>1, <2>2 DEF Moves
<1>5. n = ws'[0].push_count_ \/ n = ws'[0].push_count_ + 1
  <2>1. CASE ws'[0].push_count_ = ws[0].push_count_
    BY <1>2, <2>1 DEF Moves
  <2>2. CASE w = 0 /\ ws[w].pc = "send"
    <3>1. InPull(ws[w], n)
      BY <1>2, <2>2 DEF Moves, InPull, InPush
    <3> QED BY <1>1, <2>2, <3>1 DEF InPull
  <2> QED BY <1>1, <2>1, <2>2
<1>6. Phase'
  BY <1>2, <1>4, <1>5, PhaseAfter DEF Moves
<1>7. \A u \in Workers : BspRead(ws'[u], bsp', pushed')
  <2> TAKE u \in Workers
  <2>1. BspRead(ws[u], bsp, pushed)
    BY BspFacts
  <2>2. CASE u # w
    BY <1>1, <2>1, <2>2 DEF BspRead
  <2>3. CASE u = w
    BY <1>1, <2>1, <2>3 DEF BspRead
  <2> QED BY <2>2, <2>3
<1> QED BY <1>6, <1>7, BspAfter DEF Becomes

LEMMA PullBsp ==
  ASSUME FetchInv, BspInv, is({"PSBsp"}), NEW w \in Workers, Pull(w)
  PROVE  BspInv'
<1>1. PICK keys \in table.request :
           LET r == Asks(w, keys)
               t == Prepared(r) IN
           /\ Becomes(w, t) /\ t \in Local /\ r \in Local /\ SameRun(r, t) /\ ws[w].pc = "idle"
           /\ keys \subseteq Chunks /\ keys # {} /\ r.keys = keys
           /\ r.pull_count_ = ws[w].pull_count_ + 1 /\ r.push_count_ = ws[w].push_count_
  BY PullFacts
<1>2. PICK r, t : r = Asks(w, keys) /\ t = Prepared(r)
  OBVIOUS
<1>3. /\ Becomes(w, t) /\ t \in Local /\ r \in Local /\ ws[w].pc = "idle" /\ r.keys # {}
      /\ t.push_count_ = ws[w].push_count_
  BY <1>1, <1>2 DEF SameRun
<1>4. TypeOK /\ table \in Tables /\ ~Buffered /\ AskAt = "register" /\ 0 \in Workers
  BY PSAssumption, WorkerFacts DEF Buffered, is, AskAt
<1>5. IF Lacks(r) = {} THEN t.pc = "push" ELSE t.pc = AskAt
  BY <1>2, <1>3, <1>4, PreparedFacts
<1>6. Lacks(r) = r.keys
  BY DEF Lacks, is
<1>7. t.pc = "register"
  BY <1>3, <1>4, <1>5, <1>6
<1>8. bsp' = bsp /\ pushed' = pushed /\ messages' = messages
  BY <1>4 DEF Pull, server
<1>9. \A u \in Workers : ws'[u].push_count_ = ws[u].push_count_
  BY <1>3, <1>4, BecomesType
<1>10. \A c \in Chunks : /\ \A q \in bsp'.params_[c] : q[2] = ws'[0].push_count_
                         /\ \A a \in messages'[c] : a.at = a.id[2]
  BY <1>4, <1>8, <1>9, BspFacts
<1> QED BY <1>3, <1>7, <1>8, <1>10, BspQuiet

LEMMA UpdateBsp ==
  ASSUME FetchInv, BspInv, is({"PSBsp"}), NEW w \in Workers, Update_v2(w)
  PROVE  BspInv'
<1>1. PICK r : r = AfterUpdate(w)
  OBVIOUS
<1>2. /\ r \in Local /\ Becomes(w, r) /\ r.pc = "push" /\ ws[w].pc = "push"
      /\ r.push_count_ = ws[w].push_count_ /\ r.keys = ws[w].keys
      /\ ~is({"PSChunkNone", "PSMapChunk", "PSChunkChunk"}) => r.cached = ws[w].cached
  BY <1>1, UpdateFacts
<1>3. r.cached = ws[w].cached
  BY <1>2 DEF is
<1>4. bsp' = bsp /\ pushed' = pushed /\ messages' = messages
  BY DEF Update_v2, server
<1>5. TypeOK /\ 0 \in Workers
  BY PSAssumption, WorkerFacts
<1>6. \A u \in Workers : ws'[u].push_count_ = ws[u].push_count_
  BY <1>2, <1>5, BecomesType
<1>7. \A c \in Chunks : /\ \A q \in bsp'.params_[c] : q[2] = ws'[0].push_count_
                        /\ \A a \in messages'[c] : a.at = a.id[2]
  BY <1>4, <1>5, <1>6, BspFacts
<1> QED BY <1>2, <1>3, <1>4, <1>7, BspQuiet

LEMMA RegisterBsp ==
  ASSUME FetchInv, BspInv, is({"PSBsp"}), NEW w \in Workers, Register(w)
  PROVE  BspInv'
<1>1. ws[w] \in Local /\ TypeOK /\ 0 \in Workers /\ bsp \in BspState
  BY PSAssumption, WorkerFacts DEF TypeOK
<1>2. PICK r : r = [ws[w] EXCEPT !.pc = "join"]
  OBVIOUS
<1>3. /\ r \in Local /\ Becomes(w, r) /\ r.pc = "join" /\ ws[w].pc = "register"
      /\ r.push_count_ = ws[w].push_count_ /\ r.keys = ws[w].keys
  BY <1>1, <1>2 DEF Local, Register, Becomes, TypeOK, At
<1>4. pushed' = pushed /\ messages' = messages
  BY DEF Register, server
<1>5. bsp' = [bsp EXCEPT !.keys = bsp.keys \union ws[w].keys]
  BY <1>1 DEF Register, BspState
<1>6. /\ bsp'.pull_num_ = bsp.pull_num_ /\ bsp'.pull_num2_ = bsp.pull_num2_
      /\ bsp'.push_num_ = bsp.push_num_ /\ bsp'.push_num2_ = bsp.push_num2_
      /\ bsp'.vals = bsp.vals /\ bsp'.keys = bsp.keys \union ws[w].keys /\ bsp'.params_ = bsp.params_
  BY <1>1, <1>5 DEF BspState
<1>7. \A u \in Workers : ws'[u].push_count_ = ws[u].push_count_
  BY <1>1, <1>3, BecomesType
<1>8. \A c \in Chunks : /\ \A q \in bsp'.params_[c] : q[2] = ws'[0].push_count_
                        /\ \A a \in messages'[c] : a.at = a.id[2]
  BY <1>1, <1>4, <1>6, <1>7, BspFacts
<1>9. bsp.keys \subseteq bsp'.keys /\ r.keys \subseteq bsp'.keys
  BY <1>3, <1>6
<1> QED BY <1>3, <1>4, <1>6, <1>8, <1>9, BspQuiet

LEMMA SendBsp ==
  ASSUME FetchInv, BspInv, is({"PSBsp"}), NEW w \in Workers, SendPush(w)
  PROVE  BspInv'
<1>1. /\ ws[w].pc = "send" /\ ~Buffered
      /\ Becomes(w, AfterPush(w, Nothing)) /\ Nothing \in Contents
  BY SendFacts
<1>2. PICK x \in [Chunks -> SUBSET Pushes] :
              /\ x = (IF w = 0 THEN bsp.params_ ELSE [c \in Chunks |-> {}]) /\ Send(w, x)
              /\ bsp'.keys = bsp.keys /\ bsp'.vals = bsp.vals
              /\ bsp'.pull_num_ = bsp.pull_num_ /\ bsp'.pull_num2_ = bsp.pull_num2_
              /\ bsp'.push_num_ = bsp.push_num_ /\ bsp'.push_num2_ = bsp.push_num2_
              /\ \A c \in Chunks : bsp'.params_[c] = IF w = 0 THEN {} ELSE bsp.params_[c]
  BY SendFacts
<1>3. PICK r : r = AfterPush(w, Nothing)
  OBVIOUS
<1>4. /\ r \in Local /\ r.pc = "idle" /\ r.push_count_ = ws[w].push_count_ + 1 /\ Becomes(w, r)
  BY <1>1, <1>3, AfterPushFacts
<1>5. TypeOK /\ 0 \in Workers /\ Counted(ws[w], sent[w])
  BY PSAssumption, WorkerFacts
<1>6. \A c \in Chunks : \A a \in messages'[c] :
         a \in messages[c] \/ (a.id \in x[c] /\ a.at = sent[w])
  BY <1>2, <1>5, SentFacts
<1>7. sent[w] = ws[w].push_count_
  BY <1>1, <1>5 DEF Counted
<1>8. ASSUME NEW c \in Chunks
      PROVE  /\ \A q \in bsp'.params_[c] : q[2] = ws'[0].push_count_
             /\ \A a \in messages'[c] : a.at = a.id[2]
  <2>1. /\ \A q \in bsp.params_[c] : q[2] = ws[0].push_count_
        /\ \A a \in messages[c] : a.at = a.id[2]
    BY BspFacts
  <2>2. CASE w = 0
    BY <1>2, <1>6, <1>7, <2>1, <2>2
  <2>3. CASE w # 0
    <3>1. ws'[0] = ws[0] /\ x[c] = {}
      BY <1>2, <1>4, <1>5, <2>3, BecomesType
    <3> QED BY <1>2, <1>6, <2>1, <2>3, <3>1
  <2> QED BY <2>2, <2>3
<1>9. pushed' = pushed /\ bsp.keys \subseteq bsp'.keys
  BY <1>2 DEF SendPush
<1> QED BY <1>1, <1>2, <1>4, <1>8, <1>9, BspQuiet

\* What the last thread to come pulls: no push of its own iteration has been
\* sent.
LEMMA VisibleBefore ==
  ASSUME FetchInv, BspInv, is({"PSBsp"}), NEW w \in Workers, NEW c \in Chunks, NEW n \in Nat,
         sent[w] = n, ws[0].push_count_ = n, Answers(w)
  PROVE  Visible(w, c) = {q \in pushed[c] : q[2] < n}
<1>1. ~Buffered /\ Sent
  BY DEF FetchInv, Buffered, is
<1>2. pushed[c] = {a.id : a \in messages[c]} \union bsp.params_[c]
  BY <1>1 DEF Sent
<1>3. /\ \A q \in bsp.params_[c] : q[2] = n
      /\ \A a \in messages[c] : a.at = a.id[2]
  BY BspFacts
<1>4. Visible(w, c) = {a.id : a \in {a \in messages[c] : a.at < n}}
  <2>1. TypeOK /\ s = 0 /\ clock \in [Workers -> Nat]
        /\ messages[c] \subseteq [id : Pushes, from : Workers, at : Nat]
    BY DEF FetchInv, TypeOK, s
  <2>2. clock[w] = n /\ n <= min_clock /\ min_clock \in Nat /\ \A u \in Workers : min_clock <= clock[u]
    BY <2>1, Clocks DEF Answers
  <2>3. ASSUME NEW a \in messages[c], a.at < n
        PROVE  Applied(a)
    <3>1. a.at \in Nat /\ clock[a.from] \in Nat /\ n <= clock[a.from]
      BY <2>1, <2>2
    <3> QED BY <2>1, <2>2, <2>3, <3>1 DEF Applied
  <2> QED BY <2>2, <2>3 DEF Visible
<1> QED BY <1>2, <1>3, <1>4

LEMMA JoinPullBsp ==
  ASSUME FetchInv, BspInv, is({"PSBsp"}), NEW w \in Workers, JoinPull(w)
  PROVE  BspInv'
<1>1. /\ ws[w] \in Local /\ TypeOK /\ 0 \in Workers /\ bsp \in BspState /\ Counted(ws[w], sent[w])
      /\ ~Buffered /\ \A u \in Workers : ws[u] \in Local
  BY PSAssumption, WorkerFacts DEF TypeOK, Buffered, is
<1>2. PICK r : r = [ws[w] EXCEPT !.pc = "joined"]
  OBVIOUS
<1>3. /\ r \in Local /\ Becomes(w, r) /\ r.pc = "joined" /\ ws[w].pc = "join"
      /\ r.push_count_ = ws[w].push_count_ /\ r.keys = ws[w].keys
  BY <1>1, <1>2 DEF Local, JoinPull, Becomes, TypeOK, At
<1>4. pushed' = pushed /\ messages' = messages
  BY DEF JoinPull, server
<1>5. ws'[w] = r /\ \A u \in Workers : u # w => ws'[u] = ws[u]
  BY <1>1, <1>3, BecomesType
<1>6. PICK new : new = [c \in Chunks |-> IF c \in bsp.keys THEN Visible(w, c) ELSE None]
  OBVIOUS
<1>7. PICK v : v = IF bsp.pull_num_ + 1 = num_local_threads_ THEN new ELSE bsp.vals
  OBVIOUS
<1>8. bsp' = [bsp EXCEPT !.pull_num_ = bsp.pull_num_ + 1, !.vals = v]
  BY <1>1, <1>6, <1>7 DEF JoinPull, BspState
<1>9. /\ bsp'.pull_num_ = bsp.pull_num_ + 1 /\ bsp'.vals = v /\ bsp'.keys = bsp.keys
      /\ bsp'.pull_num2_ = bsp.pull_num2_ /\ bsp'.push_num_ = bsp.push_num_
      /\ bsp'.push_num2_ = bsp.push_num2_ /\ bsp'.params_ = bsp.params_
  BY <1>1, <1>8 DEF BspState
<1>10. PICK n, j, p, i, o \in Nat : Moves(w, r, n, j, p, i, o)
  BY <1>3, BspPhases
<1>11. PullCounts(bsp, j, p) /\ (\A u \in Workers : InPull(ws[u], n)) /\ i = j + 1 /\ o = p
  BY <1>3, <1>10 DEF Moves, InPush
<1>12. /\ bsp'.pull_num_ = i /\ bsp'.pull_num2_ = 0 /\ num_local_threads_ # 0 /\ num_local_threads_ \in Nat
       /\ bsp.pull_num_ + 1 = i /\ bsp.push_num2_ \in Nat
  BY <1>1, <1>9, <1>11, CountThreads DEF PullCounts, BspState
<1>13. \A u \in Workers : ws'[u].push_count_ = ws[u].push_count_
  BY <1>3, <1>5
<1>14. n = ws'[0].push_count_ \/ n = ws'[0].push_count_ + 1
  BY <1>1, <1>10, <1>13 DEF Moves
<1>15. \A c \in Chunks : /\ \A q \in bsp'.params_[c] : q[2] = ws'[0].push_count_
                         /\ \A a \in messages'[c] : a.at = a.id[2]
  BY <1>1, <1>4, <1>9, <1>13, BspFacts
<1>16. /\ i = Cardinality({u \in Workers : ws'[u].pc = "joined"})
       /\ o = Cardinality({u \in Workers : ws'[u].pc = "pushing"})
  BY <1>10 DEF Moves
<1>17. CASE i = num_local_threads_
  <2>1. \A u \in Workers : ws'[u].pc = "joined"
    BY <1>10, <1>17 DEF Moves
  <2>2. o = 0
    BY <1>10, <2>1 DEF Moves
  <2>3. PushCounts(bsp', i, o)
    BY <1>9, <1>11, <1>12, <1>17, <2>2 DEF PullCounts, PushCounts
  <2>4. \A u \in Workers : ws[u].pc \in {"join", "joined"} /\ ws[u].push_count_ = n
    BY <1>3, <1>5, <1>11, <2>1 DEF InPull
  <2>5. \A u \in Workers : InPush(ws'[u], n)
    BY <1>13, <2>1, <2>4 DEF InPush
  <2>6. Phase'
    BY <1>14, <1>16, <2>3, <2>5, PhaseAfter
  <2>7. ASSUME NEW u \in Workers
        PROVE  BspRead(ws'[u], bsp', pushed')
    <3>1. BspRead(ws[u], bsp, pushed) /\ ws[u].pc \in {"join", "joined"} /\ ws[u].push_count_ = n
      BY <2>4, BspFacts
    <3>2. ws'[u].keys = ws[u].keys /\ ws'[u].keys \subseteq bsp'.keys /\ ws'[u].keys \subseteq Chunks
      BY <1>1, <1>3, <1>5, <1>9, <3>1 DEF BspRead, Local
    <3>3. ws'[u].pc = "joined" /\ ws'[u].push_count_ = n
      BY <1>13, <2>1, <3>1
    <3>4. sent[w] = n /\ ws[0].push_count_ = n
      BY <1>1, <1>3, <2>4 DEF Counted
    <3>5. Answers(w)
      BY <1>12, <1>17 DEF JoinPull
    <3>6. \A c \in ws'[u].keys : bsp'.vals[c] = {q \in pushed[c] : q[2] < n}
      BY <1>6, <1>7, <1>9, <1>12, <1>17, <3>2, <3>4, <3>5, VisibleBefore
    <3> QED BY <1>4, <3>2, <3>3, <3>6 DEF BspRead
  <2> QED BY <1>3, <1>15, <2>6, <2>7, BspAfter DEF Becomes
<1>18. CASE i # num_local_threads_
  <2>1. PullCounts(bsp', i, o)
    BY <1>9, <1>11, <1>12, <1>18 DEF PullCounts
  <2>2. \A u \in Workers : InPull(ws'[u], n)
    BY <1>3, <1>5, <1>11 DEF InPull
  <2>3. Phase'
    BY <1>14, <1>16, <2>1, <2>2, PhaseAfter
  <2>4. ASSUME NEW u \in Workers
        PROVE  BspRead(ws'[u], bsp', pushed')
    <3>1. BspRead(ws[u], bsp, pushed) /\ bsp'.pull_num_ # num_local_threads_
      BY <1>12, <1>18, BspFacts
    <3>2. CASE u = w
      BY <1>3, <1>5, <1>9, <3>1, <3>2 DEF BspRead
    <3>3. CASE u # w
      BY <1>4, <1>5, <1>9, <3>1, <3>3 DEF BspRead
    <3> QED BY <3>2, <3>3
  <2> QED BY <1>3, <1>15, <2>3, <2>4, BspAfter DEF Becomes
<1> QED BY <1>17, <1>18

LEMMA LeavePullBsp ==
  ASSUME FetchInv, BspInv, is({"PSBsp"}), NEW w \in Workers, LeavePull(w)
  PROVE  BspInv'
<1>1. /\ ws[w] \in Local /\ TypeOK /\ 0 \in Workers /\ bsp \in BspState
      /\ \A u \in Workers : ws[u] \in Local
  BY PSAssumption, WorkerFacts DEF TypeOK
<1>2. PICK t, r : t = [ws[w] EXCEPT !.cached = bsp.vals] /\ r = Returned(t)
  OBVIOUS
<1>3. t \in Local /\ SameRun(ws[w], t) /\ t.cached = bsp.vals
  BY <1>1, <1>2 DEF Local, SameRun, BspState
<1>4. /\ r \in Local /\ r.pc = "push" /\ r.push_count_ = ws[w].push_count_ /\ r.keys = ws[w].keys
      /\ r.cached = bsp.vals
  BY <1>2, <1>3, ReturnedFacts DEF SameRun
<1>5. Becomes(w, r) /\ ws[w].pc = "joined" /\ bsp.pull_num_ = num_local_threads_
  BY <1>2 DEF LeavePull, Becomes, At
<1>6. pushed' = pushed /\ messages' = messages
  BY DEF LeavePull, server
<1>7. ws'[w] = r /\ \A u \in Workers : u # w => ws'[u] = ws[u]
  BY <1>1, <1>4, <1>5, BecomesType
<1>8. PICK last : last = (bsp.pull_num2_ + 1 = num_local_threads_)
  OBVIOUS
<1>9. /\ last => bsp' = [bsp EXCEPT !.pull_num_ = 0, !.pull_num2_ = 0, !.keys = {}]
      /\ ~last => bsp' = [bsp EXCEPT !.pull_num2_ = bsp.pull_num2_ + 1]
  BY <1>1, <1>8 DEF LeavePull, BspState
<1>10. /\ bsp'.pull_num_ = IF last THEN 0 ELSE bsp.pull_num_
       /\ bsp'.pull_num2_ = IF last THEN 0 ELSE bsp.pull_num2_ + 1
       /\ bsp'.keys = IF last THEN {} ELSE bsp.keys
       /\ bsp'.vals = bsp.vals /\ bsp'.push_num_ = bsp.push_num_
       /\ bsp'.push_num2_ = bsp.push_num2_ /\ bsp'.params_ = bsp.params_
  <2>1. CASE last
    BY <1>1, <1>9, <2>1 DEF BspState
  <2>2. CASE ~last
    BY <1>1, <1>9, <2>2 DEF BspState
  <2> QED BY <2>1, <2>2
<1>11. PICK n, j, p, i, o \in Nat : Moves(w, r, n, j, p, i, o)
  BY <1>4, <1>5, BspPhases
<1>12. PushCounts(bsp, j, p) /\ (\A u \in Workers : InPush(ws[u], n)) /\ i = j - 1 /\ o = p
  BY <1>4, <1>5, <1>11 DEF Moves, PullCounts
<1>13. bsp.pull_num2_ \in Nat /\ num_local_threads_ # 0 /\ num_local_threads_ \in Nat
       /\ (last <=> i = 0)
  <2>1. bsp.pull_num2_ \in Nat /\ num_local_threads_ # 0 /\ num_local_threads_ \in Nat
    BY <1>1, CountThreads DEF BspState
  <2>2. bsp.pull_num2_ + j = num_local_threads_
    BY <1>5, <1>12 DEF PushCounts
  <2>3. bsp.pull_num2_ + 1 = num_local_threads_ <=> i = 0
    BY <1>11, <1>12, <2>1, <2>2
  <2> QED BY <1>8, <2>1, <2>3
<1>14. PushCounts(bsp', i, o)
  BY <1>5, <1>10, <1>12, <1>13 DEF PushCounts
<1>15. \A u \in Workers : InPush(ws'[u], n)
  BY <1>4, <1>7, <1>12 DEF InPush
<1>16. \A u \in Workers : ws'[u].push_count_ = ws[u].push_count_
  BY <1>4, <1>7
<1>17. n = ws'[0].push_count_ \/ n = ws'[0].push_count_ + 1
  BY <1>1, <1>11, <1>16 DEF Moves
<1>18. \A c \in Chunks : /\ \A q \in bsp'.params_[c] : q[2] = ws'[0].push_count_
                         /\ \A a \in messages'[c] : a.at = a.id[2]
  BY <1>1, <1>6, <1>10, <1>16, BspFacts
<1>19. Phase'
  <2>1. /\ i = Cardinality({u \in Workers : ws'[u].pc = "joined"})
        /\ o = Cardinality({u \in Workers : ws'[u].pc = "pushing"})
    BY <1>11 DEF Moves
  <2> QED BY <1>14, <1>15, <1>17, <2>1, PhaseAfter
<1>20. ASSUME NEW u \in Workers
       PROVE  BspRead(ws'[u], bsp', pushed')
  <2>1. BspRead(ws[u], bsp, pushed)
    BY BspFacts
  <2>2. CASE u = w
    <3>1. \A c \in r.keys : r.cached[c] = {q \in pushed[c] : q[2] < r.push_count_}
      BY <1>4, <1>5, <2>1, <2>2 DEF BspRead
    <3> QED BY <1>4, <1>6, <1>7, <2>2, <3>1 DEF BspRead
  <2>3. CASE u # w
    <3>1. ws[u].pc # "join" /\ (last => ws[u].pc # "joined")
      BY <1>7, <1>11, <1>12, <1>13, <2>3 DEF Moves, InPush
    <3> QED BY <1>5, <1>6, <1>7, <1>10, <2>1, <2>3, <3>1 DEF BspRead
  <2> QED BY <2>2, <2>3
<1> QED BY <1>5, <1>18, <1>19, <1>20, BspAfter DEF Becomes

LEMMA JoinPushBsp ==
  ASSUME FetchInv, BspInv, is({"PSBsp"}), NEW w \in Workers, JoinPush(w)
  PROVE  BspInv'
<1>1. /\ ws[w] \in Local /\ TypeOK /\ 0 \in Workers /\ bsp \in BspState /\ clock \in [Workers -> Nat]
      /\ \A u \in Workers : ws[u] \in Local
  BY PSAssumption, WorkerFacts DEF TypeOK
<1>2. PICK r : r = [ws[w] EXCEPT !.pc = "pushing"]
  OBVIOUS
<1>3. /\ r \in Local /\ Becomes(w, r) /\ r.pc = "pushing" /\ ws[w].pc = "push"
      /\ r.push_count_ = ws[w].push_count_ /\ r.keys = ws[w].keys
  BY <1>1, <1>2 DEF Local, JoinPush, Becomes, TypeOK, Ready, At
<1>4. Made(w) /\ messages' = messages /\ clock' = clock
  BY DEF JoinPush, server
<1>5. ws'[w] = r /\ \A u \in Workers : u # w => ws'[u] = ws[u]
  BY <1>1, <1>3, BecomesType
<1>6. \A c \in Chunks :
        /\ pushed'[c] = pushed[c] \union Update(w)[c]
        /\ Update(w)[c] = IF c \in ws[w].keys THEN {<<w, ws[w].push_count_>>} ELSE {}
  <2>1. clock' \in [Workers -> Nat] /\ \A u \in Workers : clock[u] <= clock'[u]
    BY <1>1, <1>4
  <2> QED BY <1>3, <1>4, <2>1, MadeLater
<1>7. PICK x : x = [c \in Chunks |-> bsp.params_[c] \union Update(w)[c]]
  OBVIOUS
<1>8. bsp' = [bsp EXCEPT !.params_ = x, !.push_num_ = bsp.push_num_ + 1]
  BY <1>1, <1>7 DEF JoinPush, BspState
<1>9. /\ bsp'.push_num_ = bsp.push_num_ + 1 /\ bsp'.params_ = x
      /\ bsp'.vals = bsp.vals /\ bsp'.keys = bsp.keys /\ bsp'.pull_num_ = bsp.pull_num_
      /\ bsp'.pull_num2_ = bsp.pull_num2_ /\ bsp'.push_num2_ = bsp.push_num2_
  BY <1>1, <1>8 DEF BspState
<1>10. PICK n, j, p, i, o \in Nat : Moves(w, r, n, j, p, i, o)
  BY <1>3, BspPhases
<1>11. PushCounts(bsp, j, p) /\ (\A u \in Workers : InPush(ws[u], n)) /\ o = p + 1 /\ i = j
  BY <1>3, <1>10 DEF Moves, InPull
<1>12. num_local_threads_ # 0 /\ num_local_threads_ \in Nat /\ bsp.pull_num2_ \in Nat
  BY <1>1, CountThreads DEF BspState
<1>13. \A u \in Workers : ws'[u].push_count_ = n /\ ws[u].push_count_ = n
  BY <1>3, <1>5, <1>11 DEF InPush
<1>14. \A c \in Chunks : /\ \A q \in bsp'.params_[c] : q[2] = ws'[0].push_count_
                         /\ \A a \in messages'[c] : a.at = a.id[2]
  <2> TAKE c \in Chunks
  <2>1. /\ \A q \in bsp.params_[c] : q[2] = n
        /\ \A a \in messages[c] : a.at = a.id[2]
    BY <1>1, <1>13, BspFacts
  <2>2. \A q \in Update(w)[c] : q[2] = n
    BY <1>6, <1>13
  <2> QED BY <1>1, <1>4, <1>7, <1>9, <1>13, <2>1, <2>2
<1>15. Phase'
  <2>1. /\ i = Cardinality({u \in Workers : ws'[u].pc = "joined"})
        /\ o = Cardinality({u \in Workers : ws'[u].pc = "pushing"})
    BY <1>10 DEF Moves
  <2>2. CASE o = num_local_threads_
    <3>1. \A u \in Workers : ws'[u].pc = "pushing"
      BY <1>10, <2>2 DEF Moves
    <3>2. i = 0
      BY <1>10, <3>1 DEF Moves
    <3>3. PullCounts(bsp', i, o)
      BY <1>9, <1>11, <1>12, <2>2, <3>2 DEF PushCounts, PullCounts
    <3>4. PICK m : m = n + 1
      OBVIOUS
    <3>5. (\A u \in Workers : InPull(ws'[u], m)) /\ m = ws'[0].push_count_ + 1
      BY <1>1, <1>13, <3>1, <3>4 DEF InPull
    <3> QED BY <2>1, <3>3, <3>5, PhaseAfter
  <2>3. CASE o # num_local_threads_
    <3>1. PushCounts(bsp', i, o)
      BY <1>9, <1>11, <1>12, <2>3 DEF PushCounts
    <3>2. (\A u \in Workers : InPush(ws'[u], n)) /\ n = ws'[0].push_count_
      BY <1>1, <1>3, <1>5, <1>11, <1>13 DEF InPush
    <3> QED BY <2>1, <3>1, <3>2, PhaseAfter
  <2> QED BY <2>2, <2>3
<1>16. ASSUME NEW u \in Workers
       PROVE  BspRead(ws'[u], bsp', pushed')
  <2>1. BspRead(ws[u], bsp, pushed) /\ ws[u].push_count_ = n /\ ws'[u].push_count_ = n
    BY <1>13, BspFacts
  <2>2. \A c \in Chunks : {q \in pushed'[c] : q[2] < n} = {q \in pushed[c] : q[2] < n}
    <3> TAKE c \in Chunks
    <3>1. \A q \in Update(w)[c] : ~(q[2] < n)
      BY <1>6, <1>13
    <3> QED BY <1>6, <3>1
  <2>3. CASE u = w
    BY <1>3, <1>5, <2>3 DEF BspRead
  <2>4. CASE u # w
    <3>1. ws'[u] = ws[u] /\ ws[u].keys \subseteq Chunks
      BY <1>1, <1>5, <2>4 DEF Local
    <3> QED BY <1>9, <2>1, <2>2, <3>1 DEF BspRead
  <2> QED BY <2>3, <2>4
<1> QED BY <1>3, <1>14, <1>15, <1>16, BspAfter DEF Becomes

LEMMA LeavePushBsp ==
  ASSUME FetchInv, BspInv, is({"PSBsp"}), NEW w \in Workers, LeavePush(w)
  PROVE  BspInv'
<1>1. /\ ws[w] \in Local /\ TypeOK /\ 0 \in Workers /\ bsp \in BspState
      /\ \A u \in Workers : ws[u] \in Local
  BY PSAssumption, WorkerFacts DEF TypeOK
<1>2. PICK r : r = [ws[w] EXCEPT !.pc = "send"]
  OBVIOUS
<1>3. /\ r \in Local /\ Becomes(w, r) /\ r.pc = "send" /\ ws[w].pc = "pushing"
      /\ r.push_count_ = ws[w].push_count_ /\ r.keys = ws[w].keys
  BY <1>1, <1>2 DEF Local, LeavePush, Becomes, TypeOK, At
<1>4. pushed' = pushed /\ messages' = messages /\ bsp.push_num_ = num_local_threads_
  BY DEF LeavePush, server, AllPushed
<1>5. ws'[w] = r /\ \A u \in Workers : u # w => ws'[u] = ws[u]
  BY <1>1, <1>3, BecomesType
<1>6. PICK last : last = (bsp.push_num2_ + 1 = num_local_threads_)
  OBVIOUS
<1>7. /\ last => bsp' = [bsp EXCEPT !.push_num_ = 0, !.push_num2_ = 0]
      /\ ~last => bsp' = [bsp EXCEPT !.push_num2_ = bsp.push_num2_ + 1]
  BY <1>1, <1>6 DEF LeavePush, BspState
<1>8. /\ bsp'.push_num_ = IF last THEN 0 ELSE bsp.push_num_
      /\ bsp'.push_num2_ = IF last THEN 0 ELSE bsp.push_num2_ + 1
      /\ bsp'.keys = bsp.keys /\ bsp'.vals = bsp.vals /\ bsp'.pull_num_ = bsp.pull_num_
      /\ bsp'.pull_num2_ = bsp.pull_num2_ /\ bsp'.params_ = bsp.params_
  <2>1. CASE last
    BY <1>1, <1>7, <2>1 DEF BspState
  <2>2. CASE ~last
    BY <1>1, <1>7, <2>2 DEF BspState
  <2> QED BY <2>1, <2>2
<1>9. PICK n, j, p, i, o \in Nat : Moves(w, r, n, j, p, i, o)
  BY <1>3, BspPhases
<1>10. PullCounts(bsp, j, p) /\ (\A u \in Workers : InPull(ws[u], n)) /\ o = p - 1 /\ i = j
  BY <1>3, <1>4, <1>9 DEF Moves, PushCounts
<1>11. bsp.push_num2_ \in Nat /\ num_local_threads_ # 0 /\ num_local_threads_ \in Nat
       /\ (last <=> o = 0)
  <2>1. bsp.push_num2_ \in Nat /\ num_local_threads_ # 0 /\ num_local_threads_ \in Nat
    BY <1>1, CountThreads DEF BspState
  <2>2. bsp.push_num2_ + p = num_local_threads_
    BY <1>4, <1>10 DEF PullCounts
  <2>3. bsp.push_num2_ + 1 = num_local_threads_ <=> o = 0
    BY <1>9, <1>10, <2>1, <2>2
  <2> QED BY <1>6, <2>1, <2>3
<1>12. PullCounts(bsp', i, o)
  BY <1>4, <1>8, <1>10, <1>11 DEF PullCounts
<1>13. \A u \in Workers : InPull(ws'[u], n)
  BY <1>3, <1>5, <1>10 DEF InPull
<1>14. \A u \in Workers : ws'[u].push_count_ = ws[u].push_count_
  BY <1>3, <1>5
<1>15. n = ws'[0].push_count_ \/ n = ws'[0].push_count_ + 1
  BY <1>1, <1>9, <1>14 DEF Moves
<1>16. \A c \in Chunks : /\ \A q \in bsp'.params_[c] : q[2] = ws'[0].push_count_
                         /\ \A a \in messages'[c] : a.at = a.id[2]
  BY <1>1, <1>4, <1>8, <1>14, BspFacts
<1>17. Phase'
  <2>1. /\ i = Cardinality({u \in Workers : ws'[u].pc = "joined"})
        /\ o = Cardinality({u \in Workers : ws'[u].pc = "pushing"})
    BY <1>9 DEF Moves
  <2> QED BY <1>12, <1>13, <1>15, <2>1, PhaseAfter
<1>18. ASSUME NEW u \in Workers
       PROVE  BspRead(ws'[u], bsp', pushed')
  <2>1. BspRead(ws[u], bsp, pushed)
    BY BspFacts
  <2>2. CASE u = w
    BY <1>3, <1>5, <2>2 DEF BspRead
  <2>3. CASE u # w
    BY <1>4, <1>5, <1>8, <2>1, <2>3 DEF BspRead
  <2> QED BY <2>2, <2>3
<1> QED BY <1>3, <1>16, <1>17, <1>18, BspAfter DEF Becomes

LEMMA InitBsp ==
  ASSUME Init
  PROVE  BspInv
<1>1. /\ \A u \in Workers : ws[u].pc = "idle" /\ ws[u].push_count_ = 0 /\ ws[u].keys = {}
      /\ \A c \in Chunks : bsp.params_[c] = {} /\ messages[c] = {}
      /\ bsp.pull_num_ = 0 /\ bsp.pull_num2_ = 0 /\ bsp.push_num_ = 0 /\ bsp.push_num2_ = 0
      /\ 0 \in Workers
  BY PSAssumption DEF Init, NewWorker, NewBsp
<1>2. AtPlace("joined") = {} /\ AtPlace("pushing") = {}
  BY <1>1 DEF AtPlace, At
<1>3. Cardinality({}) = 0 /\ num_local_threads_ # 0
  BY FS_EmptySet, CountThreads
<1>4. PullPhase(0)
  BY <1>1, <1>2, <1>3 DEF PullPhase
<1>5. PICK z : z = 0 /\ z \in {ws[0].push_count_, ws[0].push_count_ + 1} /\ PullPhase(z)
  BY <1>1, <1>4
<1> QED BY <1>1, <1>5 DEF BspInv, At

\* Nothing is asked of the server's clocks.
LEMMA StutterBsp ==
  ASSUME BspInv, UNCHANGED <<table, messages, ws, bsp, pushed>>
  PROVE  BspInv'
<1>1. /\ table' = table /\ messages' = messages /\ ws' = ws /\ bsp' = bsp /\ pushed' = pushed
  OBVIOUS
<1>2. num_local_threads_' = num_local_threads_
  BY DEF num_local_threads_
<1>3. \A l : AtPlace(l)' = AtPlace(l)
  BY <1>1 DEF AtPlace, At
<1>4. \A n : (PullPhase(n) => PullPhase(n)') /\ (PushPhase(n) => PushPhase(n)')
  BY <1>1, <1>2, <1>3 DEF PullPhase, PushPhase
<1>5. is({"PSBsp"})' = is({"PSBsp"})
  BY <1>1 DEF is
<1>6. CASE is({"PSBsp"})
  <2>1. Phase'
    BY <1>1, <1>4, <1>6, BspFacts DEF Phase
  <2>2. \A u \in Workers : BspRead(ws'[u], bsp', pushed')
    BY <1>1, <1>6, BspFacts
  <2>3. \A c \in Chunks : /\ \A q \in bsp'.params_[c] : q[2] = ws'[0].push_count_
                          /\ \A a \in messages'[c] : a.at = a.id[2]
    BY <1>1, <1>6, BspFacts
  <2> QED BY <1>1, <2>1, <2>2, <2>3, BspAfter
<1>7. CASE ~is({"PSBsp"})
  BY <1>5, <1>7 DEF BspInv
<1> QED BY <1>6, <1>7

LEMMA NextBsp ==
  ASSUME FetchInv, BspInv, [Next]_vars
  PROVE  BspInv'
<1>1. ASSUME NEW w \in Workers, Step(w)
      PROVE  BspInv'
  <2>1. table' = table
    BY <1>1 DEF Step, Pull, Process, Manage, Fetch, InstallProcess, Release, CopyChunk, Update_v2,
                Push, PushToBuffer, Register, JoinPull, LeavePull, JoinPush, LeavePush, SendPush
  <2>2. CASE ~is({"PSBsp"})
    BY <2>1, <2>2 DEF BspInv, is
  <2>3. CASE is({"PSBsp"})
    <3>1. ws[w].pc \notin Pulling
      BY <2>3, WorkerFacts DEF Placed
    <3>2. /\ ~Process(w) /\ ~Manage(w) /\ ~Fetch(w) /\ ~InstallProcess(w) /\ ~Release(w) /\ ~CopyChunk(w)
          /\ ~Push(w) /\ ~PushToBuffer(w)
      BY <2>3, <3>1 DEF Process, Manage, Fetch, InstallProcess, Release, CopyChunk, Push, PushToBuffer,
                        At, Pulling, Buffered, is
    <3> QED BY <1>1, <2>3, <3>2, PullBsp, UpdateBsp, RegisterBsp, JoinPullBsp, LeavePullBsp,
               JoinPushBsp, LeavePushBsp, SendBsp DEF Step
  <2> QED BY <2>2, <2>3
<1>2. CASE UNCHANGED vars
  BY <1>2, StutterBsp DEF vars
<1>3. ASSUME NEW w \in Workers, Arrive(w)
      PROVE  BspInv'
  BY <1>3, StutterBsp DEF Arrive
<1> QED BY <1>1, <1>2, <1>3 DEF Next, Finished

LEMMA ReadsExact ==
  ASSUME FetchInv, BspInv
  PROVE  BspExact
<1> SUFFICES ASSUME is({"PSBsp"}), NEW w \in Workers, NEW c \in Chunks, HasRead(w, c)
             PROVE  ws[w].cached[c] = {q \in pushed[c] : q[2] < Iteration(w)}
  BY DEF BspExact
<1>1. ws[w].pc = "push" /\ c \in ws[w].keys /\ BspRead(ws[w], bsp, pushed)
  BY BspFacts DEF HasRead, At
<1>2. ws[w] \in Local /\ Counted(ws[w], sent[w])
  BY WorkerFacts
<1>3. Iteration(w) = ws[w].push_count_
  BY <1>1, <1>2 DEF Counted, Iteration, Local
<1> QED BY <1>1, <1>3 DEF BspRead

\* Of which the weaker promises to the other tables follow.
LEMMA ExactFresh ==
  ASSUME FetchInv, BspExact, is({"PSBsp"})
  PROVE  FreshReads /\ OwnPushesRead
<1>1. table \in Tables /\ TypeOK /\ Lag \in Nat
  BY TableFacts DEF FetchInv, TypeOK
<1> SUFFICES ASSUME NEW w \in Workers, NEW c \in Chunks, HasRead(w, c), NEW q \in pushed[c],
                    q[2] < Iteration(w) - Lag \/ q[2] < Iteration(w)
             PROVE  q \in ws[w].cached[c]
  BY DEF FreshReads, OwnPushesRead
<1>2. q[2] \in Nat /\ Iteration(w) \in Int
  BY <1>1, WorkerFacts DEF TypeOK, Pushes, Iteration, Local
<1>3. q[2] < Iteration(w)
  BY <1>1, <1>2
<1> QED BY <1>3 DEF BspExact

\* The pulls of every class of ml/mlworker/ps.hpp, whatever its thread cache and
\* the process cache hold and whenever pushes arrive: a worker reads all pushes
\* that are further back than the table's staleness (twice that for PSMapNone and
\* for the push buffer, which may be under way in another thread's push), its own
\* where it has no process cache, and under PSBsp exactly those of the iterations
\* before.  The hypothesis is on the requests of PSMapChunk alone, whose map has
\* one timestamp for all its chunks.
THEOREM ReadsAsPromised == Spec => [](OneTimestamp => ReadsConsistent)
<1> DEFINE IInv == FetchInv /\ ReadInv /\ BspInv
<1>1. Init => IInv
  BY InitFetches, InitReads, InitBsp
<1>2. IInv /\ [Next]_vars => IInv'
  <2> SUFFICES ASSUME IInv, [Next]_vars
               PROVE  IInv'
    OBVIOUS
  <2>1. FetchInv'
    BY NextFetches
  <2>2. ReadInv'
    BY <2>1, NextReads
  <2>3. BspInv'
    BY NextBsp
  <2> QED BY <2>1, <2>2, <2>3
<1>3. IInv => (OneTimestamp => ReadsConsistent)
  <2> SUFFICES ASSUME IInv, OneTimestamp
               PROVE  ReadsConsistent
    OBVIOUS
  <2>1. BspExact
    BY ReadsExact
  <2>2. FreshReads /\ OwnPushesRead
    BY <2>1, ReadsFresh, ExactFresh
  <2> QED BY <2>1, <2>2 DEF ReadsConsistent
<1> HIDE DEF IInv
<1> QED BY <1>1, <1>2, <1>3, PTL DEF Spec

------------------------------------------------------------------------------
(* Each push is sent once.                                                 *)

\* The push a worker is about to make is new.
LEMMA PushIsNew ==
  ASSUME FetchInv, NEW w \in Workers, ws[w].pc = "push"
  PROVE  \A c \in Chunks : <<w, ws[w].push_count_>> \notin pushed[c] \union None
<1>1. ws[w] \in Local /\ Numbered
  BY WorkerFacts DEF FetchInv
<1> DEFINE q == <<w, ws[w].push_count_>>
<1>2. q[1] = w /\ q[2] = ws[w].push_count_ /\ ws[w].push_count_ \in Nat
  BY <1>1 DEF Local
<1>3. \A c \in Chunks : q \notin pushed[c]
  BY <1>1, <1>2 DEF Numbered
<1>4. q \notin None
  BY <1>2 DEF None
<1> QED BY <1>3, <1>4

\* A push that is in no message, and no longer anywhere else, is sent.
LEMMA SendOne ==
  ASSUME TypeOK, OneMessage, NEW w \in Workers, NEW x \in [Chunks -> SUBSET Pushes], Send(w, x),
         \A c \in Chunks :
           /\ \A a \in messages[c] : a.id \notin x[c]
           /\ \A a \in messages[c] : a.id \notin cache'.buffer[c] \union bsp'.params_[c]
           /\ \A q \in x[c] : q \notin cache'.buffer[c] \union bsp'.params_[c]
  PROVE  OneMessage'
<1>1. \A c \in Chunks : \A a \in messages'[c] :
        a \in messages[c] \/ (a.id \in x[c] /\ a.from = w /\ a.at = sent[w])
  BY SentFacts
<1>2. \A c \in Chunks : \A a \in messages'[c] : a = [id |-> a.id, from |-> a.from, at |-> a.at]
  BY SentFacts
<1>3. \A c \in Chunks : \A a, b \in messages'[c] : a.id = b.id => a = b
  <2> SUFFICES ASSUME NEW c \in Chunks, NEW a \in messages'[c], NEW b \in messages'[c], a.id = b.id
               PROVE  a = b
    OBVIOUS
  <2>1. CASE a \in messages[c]
    BY <1>1, <2>1 DEF OneMessage
  <2>2. CASE a \notin messages[c]
    <3>1. a.id \in x[c] /\ a.from = w /\ a.at = sent[w]
      BY <1>1, <2>2
    <3>2. b.from = w /\ b.at = sent[w]
      BY <1>1, <3>1
    <3>3. a = [id |-> a.id, from |-> w, at |-> sent[w]] /\ b = [id |-> b.id, from |-> w, at |-> sent[w]]
      BY <1>2, <3>1, <3>2
    <3> QED BY <3>3
  <2> QED BY <2>1, <2>2
<1>4. \A c \in Chunks : \A a \in messages'[c] : a.id \notin cache'.buffer[c] \union bsp'.params_[c]
  BY <1>1
<1> QED BY <1>3, <1>4 DEF OneMessage

\* Nothing is sent, and no push comes to the push buffer or to PSBspModel but
\* new ones.
LEMMA NoneSent ==
  ASSUME FetchInv, OneMessage, messages' = messages,
         \A c \in Chunks : \A q \in cache'.buffer[c] \union bsp'.params_[c] :
            q \in cache.buffer[c] \union bsp.params_[c] \/ q \notin pushed[c]
  PROVE  OneMessage'
<1>1. \A c \in Chunks : \A a \in messages[c] : a.id \in pushed[c]
  BY DEF FetchInv, Sent
<1> QED BY <1>1 DEF OneMessage

LEMMA PullSends ==
  ASSUME FetchInv, OneMessage, NEW w \in Workers, Pull(w)
  PROVE  OneMessage'
<1>1. TypeOK /\ bsp' = bsp
  BY DEF FetchInv, Pull
<1>2. CASE ~Buffered
  <2>1. messages' = messages /\ cache' = cache
    BY <1>2 DEF Pull, server
  <2> QED BY <1>1, <2>1, NoneSent
<1>3. CASE Buffered
  <2>1. Send(w, cache.buffer) /\ cache' = [cache EXCEPT !.buffer = [c \in Chunks |-> {}]]
    BY <1>3 DEF Pull, Flush
  <2>2. cache.buffer \in [Chunks -> SUBSET Pushes] /\ \A c \in Chunks : cache'.buffer[c] = {}
    BY <1>1, <2>1 DEF TypeOK, NewCache
  <2>3. ~is({"PSBsp"})
    BY <1>3 DEF Buffered, is
  <2>4. \A c \in Chunks : bsp'.params_[c] = {}
    BY <1>1, <2>3 DEF FetchInv, Sent
  <2>5. \A c \in Chunks : \A a \in messages[c] : a.id \notin cache.buffer[c]
    BY DEF OneMessage
  <2> QED BY <1>1, <2>1, <2>2, <2>4, <2>5, SendOne
<1> QED BY <1>2, <1>3

LEMMA PushSends ==
  ASSUME FetchInv, OneMessage, NEW w \in Workers, Push(w)
  PROVE  OneMessage'
<1>1. TypeOK /\ Sent
  BY DEF FetchInv
<1>2. ws[w].pc = "push" /\ Update(w) \in [Chunks -> SUBSET Pushes]
  BY PushFacts
<1>3. Send(w, Update(w)) /\ cache' = cache /\ bsp' = bsp
  BY DEF Push
<1>4. \A c \in Chunks : \A q \in Update(w)[c] : q \notin pushed[c]
  BY <1>2, PushIsNew DEF Update
<1>5. \A c \in Chunks : /\ \A a \in messages[c] : a.id \in pushed[c]
                        /\ cache.buffer[c] \union bsp.params_[c] \subseteq pushed[c]
  BY <1>1 DEF Sent
<1> QED BY <1>1, <1>2, <1>3, <1>4, <1>5, SendOne DEF OneMessage

LEMMA CollectSends ==
  ASSUME FetchInv, OneMessage, NEW w \in Workers, PushToBuffer(w) \/ JoinPush(w)
  PROVE  OneMessage'
<1>1. TypeOK
  BY DEF FetchInv
<1>2. ws[w].pc = "push" /\ messages' = messages
  BY DEF PushToBuffer, JoinPush, Ready, At, server
<1>3. \A c \in Chunks : Update(w)[c] \subseteq {<<w, ws[w].push_count_>>}
  BY DEF Update
<1>4. \A c \in Chunks : \A q \in Update(w)[c] : q \notin pushed[c]
  BY <1>2, <1>3, PushIsNew
<1>5. CASE PushToBuffer(w)
  <2>1. bsp' = bsp /\ \A c \in Chunks : cache'.buffer[c] = cache.buffer[c] \union Update(w)[c]
    BY <1>1, <1>5 DEF PushToBuffer, TypeOK, NewCache
  <2> QED BY <1>2, <1>4, <2>1, NoneSent
<1>6. CASE JoinPush(w)
  <2>1. cache' = cache /\ \A c \in Chunks : bsp'.params_[c] = bsp.params_[c] \union Update(w)[c]
    BY <1>1, <1>6 DEF JoinPush, TypeOK, BspState
  <2> QED BY <1>2, <1>4, <2>1, NoneSent
<1> QED BY <1>5, <1>6

LEMMA LeaderSends ==
  ASSUME FetchInv, OneMessage, NEW w \in Workers, SendPush(w)
  PROVE  OneMessage'
<1>1. TypeOK /\ Sent
  BY DEF FetchInv
<1>2. ~Buffered /\ cache' = cache
  BY SendFacts DEF SendPush
<1>3. PICK x \in [Chunks -> SUBSET Pushes] :
        /\ x = (IF w = 0 THEN bsp.params_ ELSE [c \in Chunks |-> {}]) /\ Send(w, x)
        /\ \A c \in Chunks : bsp'.params_[c] = IF w = 0 THEN {} ELSE bsp.params_[c]
  BY SendFacts
<1>4. \A c \in Chunks : cache'.buffer[c] = {}
  BY <1>1, <1>2 DEF Sent
<1>5. \A c \in Chunks : \A a \in messages[c] : a.id \notin bsp.params_[c]
  BY DEF OneMessage
<1>6. \A c \in Chunks : /\ x[c] = {} \/ bsp'.params_[c] = {}
                        /\ x[c] \subseteq bsp.params_[c] /\ bsp'.params_[c] \subseteq bsp.params_[c]
  BY <1>3
<1> QED BY <1>1, <1>3, <1>4, <1>5, <1>6, SendOne

LEMMA NextSends ==
  ASSUME FetchInv, OneMessage, [Next]_vars
  PROVE  OneMessage'
<1>1. TypeOK
  BY DEF FetchInv
<1>2. ASSUME messages' = messages, cache'.buffer = cache.buffer, bsp'.params_ = bsp.params_
      PROVE  OneMessage'
  BY <1>2, NoneSent
<1>3. ASSUME NEW w \in Workers, Step(w)
      PROVE  OneMessage'
  <2>1. CASE Process(w) \/ Fetch(w) \/ CopyChunk(w) \/ Update_v2(w)
    BY <1>2, <2>1 DEF Process, Fetch, CopyChunk, Update_v2, server
  <2>2. CASE Manage(w)
    <3>1. cache'.buffer = cache.buffer
      BY <1>1, <2>2 DEF Manage, TypeOK, NewCache
    <3> QED BY <1>2, <2>2, <3>1 DEF Manage, server
  <2>3. CASE Release(w)
    <3>1. cache'.buffer = cache.buffer
      BY <1>1, <2>3 DEF Release, TypeOK, NewCache
    <3> QED BY <1>2, <2>3, <3>1 DEF Release, server
  <2>4. CASE InstallProcess(w)
    BY <1>2, <2>4, InstallFacts
  <2>5. CASE Register(w) \/ JoinPull(w) \/ LeavePull(w) \/ LeavePush(w)
    <3>1. bsp'.params_ = bsp.params_
      BY <1>1, <2>5 DEF Register, JoinPull, LeavePull, LeavePush, TypeOK, BspState
    <3> QED BY <1>2, <2>5, <3>1 DEF Register, JoinPull, LeavePull, LeavePush, server
  <2> QED BY <1>3, <2>1, <2>2, <2>3, <2>4, <2>5, PullSends, PushSends, CollectSends, LeaderSends DEF Step
<1>4. ASSUME NEW w \in Workers, Arrive(w)
      PROVE  OneMessage'
  BY <1>2, <1>4 DEF Arrive
<1>5. CASE UNCHANGED vars
  BY <1>2, <1>5 DEF vars
<1> QED BY <1>3, <1>4, <1>5 DEF Next, Finished

------------------------------------------------------------------------------
(* What the caches hold was pushed, and what is there twice is their own.  *)

\* A value that holds pushes only has nothing twice.
LEMMA PushesOnce ==
  ASSUME NEW v, NEW P \in SUBSET Pushes, v \subseteq P \union None
  PROVE  Twice(v) = {}
<1> SUFFICES ASSUME NEW q \in v, q \in Workers \X Nat \X {"twice"}
             PROVE  FALSE
  BY DEF Twice
<1>1. DOMAIN q = 1..3
  OBVIOUS
<1>2. DOMAIN q = 1..2
  BY DEF Pushes, None
<1>3. 3 \in 1..3 /\ 3 \notin 1..2
  OBVIOUS
<1> QED BY <1>1, <1>2, <1>3

LEMMA TidyKept ==
  ASSUME table' = table, NEW w, NEW r, NEW P, NEW Q, \A c \in Chunks : P[c] \subseteq Q[c], Tidy(w, r, P)
  PROVE  Tidy(w, r, Q)
BY DEF Tidy

LEMMA TidyPrime ==
  ASSUME table' = table, NEW w \in Workers, Tidy(w, ws'[w], pushed')
  PROVE  Tidy(w, ws[w], pushed)'
BY DEF Tidy, AddsTwice, is

\* Worker w takes a step to r.
LEMMA TidyStep ==
  ASSUME FetchInv, TidyInv, NEW w \in Workers, NEW r \in Local, Becomes(w, r),
         \A c \in Chunks : pushed[c] \subseteq pushed'[c], Tidy(w, r, pushed'),
         \A c \in Chunks : cache'.params_[c] \union bsp'.vals[c] \subseteq pushed'[c] \union None
  PROVE  TidyInv'
<1>1. table' = table /\ ws'[w] = r /\ \A u \in Workers : u # w => ws'[u] = ws[u]
  BY BecomesType DEF FetchInv, Becomes
<1>2. ASSUME NEW u \in Workers
      PROVE  Tidy(u, ws[u], pushed)'
  <2>1. Tidy(u, ws[u], pushed)
    BY DEF TidyInv
  <2>2. Tidy(u, ws[u], pushed')
    BY <1>1, <2>1, TidyKept
  <2>3. Tidy(u, ws'[u], pushed')
    BY <1>1, <2>2
  <2> QED BY <1>1, <2>3, TidyPrime
<1> QED BY <1>2 DEF TidyInv

LEMMA TidyFacts ==
  ASSUME FetchInv, TidyInv, NEW w \in Workers
  PROVE  /\ Tidy(w, ws[w], pushed)
         /\ \A c \in Chunks : /\ cache.params_[c] \subseteq pushed[c] \union None
                              /\ bsp.vals[c] \subseteq pushed[c] \union None
                              /\ pushed[c] \subseteq Pushes
BY DEF TidyInv, FetchInv, TypeOK

\* A worker whose thread cache has not changed, or has only lost something.
LEMMA TidySame ==
  ASSUME NEW w, NEW r, NEW t, NEW P, Tidy(w, r, P),
         t.updated = r.updated, t.keys = r.keys \/ ~r.updated, t.push_count_ = r.push_count_,
         r.pc \in {"push", "pushing", "send"} => t.pc \in {"push", "pushing", "send"},
         \A c \in Chunks : /\ t.cached[c] \in {r.cached[c], None, r.vals[c], r.answer.vals[c]}
                           /\ t.vals[c] \union t.answer.vals[c] \subseteq P[c] \union None
  PROVE  Tidy(w, t, P)
<1> SUFFICES ASSUME NEW c \in Chunks, NEW q \in t.cached[c]
             PROVE  \/ q \in P[c] \union None
                    \/ AddsTwice /\ t.updated /\ c \in t.keys /\ q = <<w, t.push_count_>>
                    \/ AddsTwice /\ q \in Twice(t.cached[c]) /\ q[1] = w
  BY DEF Tidy
<1>1. CASE t.cached[c] = r.cached[c]
  BY <1>1 DEF Tidy
<1>2. CASE t.cached[c] # r.cached[c]
  BY <1>2 DEF Tidy
<1> QED BY <1>1, <1>2

\* A step of which the caches feel nothing.
LEMMA TidyQuiet ==
  ASSUME FetchInv, TidyInv, NEW w \in Workers, NEW r \in Local, Becomes(w, r),
         \A c \in Chunks : pushed[c] \subseteq pushed'[c],
         cache'.params_ = cache.params_, bsp'.vals = bsp.vals,
         r.updated = ws[w].updated, r.keys = ws[w].keys, r.push_count_ = ws[w].push_count_,
         ws[w].pc \in {"push", "pushing", "send"} => r.pc \in {"push", "pushing", "send"},
         r.cached = ws[w].cached, r.vals = ws[w].vals, r.answer = ws[w].answer
  PROVE  TidyInv'
<1>1. /\ Tidy(w, ws[w], pushed)
      /\ \A c \in Chunks : /\ cache.params_[c] \subseteq pushed[c] \union None
                           /\ bsp.vals[c] \subseteq pushed[c] \union None
  BY TidyFacts
<1>2. \A c \in Chunks : ws[w].vals[c] \union ws[w].answer.vals[c] \subseteq pushed[c] \union None
  BY <1>1 DEF Tidy
<1>3. Tidy(w, r, pushed)
  BY <1>1, <1>2, TidySame
<1>4. Tidy(w, r, pushed')
  BY <1>3, TidyKept DEF Becomes
<1> QED BY <1>1, <1>4, TidyStep

LEMMA PullTidy ==
  ASSUME FetchInv, TidyInv, NEW w \in Workers, Pull(w)
  PROVE  TidyInv'
<1>1. PICK keys \in table.request :
         LET r == Asks(w, keys)
             t == Prepared(r) IN
           /\ Becomes(w, t) /\ t \in Local /\ r \in Local /\ SameRun(r, t) /\ ws[w].pc = "idle"
           /\ keys \subseteq Chunks /\ keys # {} /\ r.keys = keys
           /\ r.pull_count_ = ws[w].pull_count_ + 1 /\ r.push_count_ = ws[w].push_count_
           /\ r.updated = ws[w].updated /\ r.wait = {}
           /\ r.cached = ws[w].cached /\ r.chunk_clocks_ = ws[w].chunk_clocks_
           /\ r.cache_ts_ = ws[w].cache_ts_ /\ r.vals = ws[w].vals /\ r.answer = ws[w].answer
  BY PullFacts
<1>2. PICK r : r = Asks(w, keys)
  OBVIOUS
<1>3. PICK t : t = Prepared(r)
  OBVIOUS
<1>4. /\ Becomes(w, t) /\ t \in Local /\ r \in Local /\ SameRun(r, t) /\ ws[w].pc = "idle"
      /\ r.push_count_ = ws[w].push_count_ /\ r.updated = ws[w].updated
      /\ r.cached = ws[w].cached /\ r.vals = ws[w].vals /\ r.answer = ws[w].answer
  BY <1>1, <1>2, <1>3
<1>5. table \in Tables /\ TypeOK /\ ws[w] \in Local
  BY WorkerFacts
<1>6. /\ t.cached = Forgets(r) /\ t.vals \in {r.vals, Nothing} /\ t.answer \in {r.answer, NoAnswer}
  BY <1>3, <1>4, <1>5, PreparedFacts
<1>7. /\ Tidy(w, ws[w], pushed)
      /\ \A c \in Chunks : /\ cache.params_[c] \subseteq pushed[c] \union None
                           /\ bsp.vals[c] \subseteq pushed[c] \union None
  BY TidyFacts
<1>8. ~ws[w].updated
  BY <1>4, <1>5, <1>7 DEF Tidy, Local
<1>9. \A c \in Chunks : /\ t.cached[c] \in {ws[w].cached[c], None}
                        /\ t.vals[c] \in {ws[w].vals[c], None}
                        /\ t.answer.vals[c] \in {ws[w].answer.vals[c], None}
  BY <1>4, <1>6 DEF Forgets, Nothing, NoAnswer
<1>10. \A c \in Chunks : t.vals[c] \union t.answer.vals[c] \subseteq pushed[c] \union None
  BY <1>7, <1>9 DEF Tidy
<1>11. t.updated = ws[w].updated /\ t.push_count_ = ws[w].push_count_
  BY <1>4 DEF SameRun
<1>12. Tidy(w, t, pushed)
  BY <1>4, <1>7, <1>8, <1>9, <1>10, <1>11, TidySame
<1>13. pushed' = pushed /\ bsp' = bsp
  BY DEF Pull
<1>14. cache'.params_ = cache.params_
  BY <1>5 DEF Pull, Flush, TypeOK, NewCache
<1> QED BY <1>4, <1>7, <1>12, <1>13, <1>14, TidyStep

LEMMA WaitingTidy ==
  ASSUME FetchInv, TidyInv, NEW w \in Workers, Process(w) \/ Manage(w) \/ Release(w)
  PROVE  TidyInv'
<1>1. ws[w] \in Local /\ TypeOK
  BY WorkerFacts
<1>2. FetchInv'
  BY ProcessFetches, ManageFetches, ReleaseFetches
<1>3. PICK r : r = ws'[w]
  OBVIOUS
<1>4. r \in Local /\ table' = table /\ pushed' = pushed /\ bsp' = bsp
  BY <1>2, <1>3 DEF FetchInv, TypeOK, Process, Manage, Release
<1>5. /\ r.cached = ws[w].cached /\ r.vals = ws[w].vals /\ r.answer = ws[w].answer
      /\ r.updated = ws[w].updated /\ r.keys = ws[w].keys /\ r.push_count_ = ws[w].push_count_
      /\ ws[w].pc \notin {"push", "pushing", "send"}
      /\ \A u \in Workers : u # w => ws'[u] = ws[u]
  <2>1. CASE Process(w)
    BY <1>1, <1>3, <2>1 DEF Process, TypeOK, Local, At
  <2>2. CASE Manage(w)
    BY <1>1, <1>3, <2>2 DEF Manage, TypeOK, Local, At
  <2>3. CASE Release(w)
    BY <1>1, <1>3, <2>3 DEF Release, TypeOK, Local, At
  <2> QED BY <2>1, <2>2, <2>3
<1>6. Becomes(w, r)
  <2>1. ws' \in [Workers -> Local] /\ ws \in [Workers -> Local]
    BY <1>1, <1>2 DEF FetchInv, TypeOK
  <2> QED BY <1>3, <1>4, <1>5, <2>1 DEF Becomes
<1>7. cache'.params_ = cache.params_
  BY <1>1 DEF Process, Manage, Release, TypeOK, NewCache
<1> QED BY <1>4, <1>5, <1>6, <1>7, TidyQuiet

LEMMA KeepsTidy ==
  ASSUME NEW w, NEW r \in Local, NEW P, Tidy(w, r, P), ~r.updated
  PROVE  Tidy(w, Returned(Keep(r)), P)
<1>1. PICK k : k = Keep(r)
  OBVIOUS
<1>2. /\ k \in Local /\ SameRun(r, k)
      /\ \A c \in Chunks : k.cached[c] \in {r.answer.vals[c], r.vals[c], r.cached[c], None}
  BY <1>1, KeepFacts
<1>3. PICK t : t = Returned(k)
  OBVIOUS
<1>4. t.cached = k.cached /\ t.vals = Nothing /\ t.answer = NoAnswer /\ SameRun(k, t) /\ t.pc = "push"
  BY <1>2, <1>3, ReturnedFacts
<1>5. \A c \in Chunks : t.vals[c] \union t.answer.vals[c] \subseteq P[c] \union None
  BY <1>4 DEF Nothing, NoAnswer
<1>6. t.updated = r.updated /\ t.push_count_ = r.push_count_
  BY <1>2, <1>4 DEF SameRun
<1> QED BY <1>1, <1>2, <1>3, <1>4, <1>5, <1>6, TidySame

LEMMA FetchTidy ==
  ASSUME FetchInv, TidyInv, NEW w \in Workers, Fetch(w)
  PROVE  TidyInv'
<1>1. /\ ws[w] \in Local /\ TypeOK /\ Placed(ws[w])
  BY WorkerFacts
<1>2. At(w, "fetch") /\ ws[w].pc = "fetch" /\ pushed' = pushed /\ bsp' = bsp /\ cache' = cache
  BY DEF Fetch, At
<1>3. PICK r : r = Arrived(w)
  OBVIOUS
<1>4. /\ r \in Local /\ r.cached = ws[w].cached /\ r.vals = ws[w].vals /\ SameRun(ws[w], r)
      /\ \A c \in ws[w].fetch : r.answer.vals[c] = Visible(w, c)
      /\ \A c \in Chunks \ ws[w].fetch : r.answer.vals[c] = None
  BY <1>2, <1>3, ArrivedFacts
<1>5. ~is({"PSBsp"})
  BY <1>1, <1>2 DEF Placed, Pulling
<1>6. \A c \in Chunks : r.answer.vals[c] \subseteq pushed[c] \union None
  BY <1>4, <1>5, AnswerHas
<1>7. /\ Tidy(w, ws[w], pushed)
      /\ \A c \in Chunks : /\ cache.params_[c] \subseteq pushed[c] \union None
                           /\ bsp.vals[c] \subseteq pushed[c] \union None
  BY TidyFacts
<1>8. ~ws[w].updated
  BY <1>1, <1>2, <1>7 DEF Tidy, Local
<1>9. r.updated = ws[w].updated /\ r.push_count_ = ws[w].push_count_
  BY <1>4 DEF SameRun
<1>10. Tidy(w, r, pushed) /\ ~r.updated
  <2>1. \A c \in Chunks : r.vals[c] \union r.answer.vals[c] \subseteq pushed[c] \union None
    BY <1>4, <1>6, <1>7 DEF Tidy
  <2> QED BY <1>2, <1>4, <1>7, <1>8, <1>9, <2>1, TidySame
<1>11. PICK t : t = IF is({"PSWorker", "PSMapNone", "PSChunkNone"}) THEN Returned(Keep(r)) ELSE r
  OBVIOUS
<1>12. Becomes(w, t)
  BY <1>2, <1>3, <1>11 DEF Fetch, Becomes, Arrived
<1>13. t \in Local
  BY <1>4, <1>11, KeepFacts, ReturnedFacts
<1>14. Tidy(w, t, pushed)
  BY <1>4, <1>10, <1>11, KeepsTidy
<1> QED BY <1>2, <1>7, <1>12, <1>13, <1>14, TidyStep

LEMMA InstallTidy ==
  ASSUME FetchInv, TidyInv, NEW w \in Workers, InstallProcess(w)
  PROVE  TidyInv'
<1>1. ws[w] \in Local /\ TypeOK /\ ws[w].pc = "install"
  BY WorkerFacts DEF InstallProcess, At
<1>2. PICK c \in ws[w].todo, l \in {"install", "release", "copy"} :
           LET todo == IF l = "copy" THEN ws[w].need ELSE ws[w].todo \ {c} IN
           /\ Becomes(w, [ws[w] EXCEPT !.pc = l, !.todo = todo])
           /\ [ws[w] EXCEPT !.pc = l, !.todo = todo] \in Local
           /\ \A d \in Chunks :
                LET new == d = c /\ cache.chunk_clocks_[c] < ws[w].answer.clock IN
                /\ cache'.params_[d] = IF new THEN ws[w].answer.vals[c] ELSE cache.params_[d]
           /\ UNCHANGED <<table, clock, sent, messages, bsp, pushed>>
  BY InstallFacts
<1>3. PICK todo : todo = IF l = "copy" THEN ws[w].need ELSE ws[w].todo \ {c}
  OBVIOUS
<1>4. PICK r : r = [ws[w] EXCEPT !.pc = l, !.todo = todo]
  OBVIOUS
<1>5. /\ r \in Local /\ Becomes(w, r) /\ pushed' = pushed /\ bsp' = bsp
      /\ \A d \in Chunks : cache'.params_[d] = cache.params_[d] \/ cache'.params_[d] = ws[w].answer.vals[d]
  BY <1>2, <1>3, <1>4
<1>6. /\ r.cached = ws[w].cached /\ r.vals = ws[w].vals /\ r.answer = ws[w].answer
      /\ r.updated = ws[w].updated /\ r.keys = ws[w].keys /\ r.push_count_ = ws[w].push_count_
  BY <1>1, <1>4 DEF Local
<1>7. /\ Tidy(w, ws[w], pushed)
      /\ \A d \in Chunks : /\ cache.params_[d] \subseteq pushed[d] \union None
                           /\ bsp.vals[d] \subseteq pushed[d] \union None
                           /\ ws[w].vals[d] \union ws[w].answer.vals[d] \subseteq pushed[d] \union None
  BY TidyFacts DEF Tidy
<1>8. Tidy(w, r, pushed)
  BY <1>1, <1>6, <1>7, TidySame
<1>9. \A d \in Chunks : cache'.params_[d] \union bsp'.vals[d] \subseteq pushed[d] \union None
  BY <1>5, <1>7
<1> QED BY <1>5, <1>8, <1>9, TidyStep

LEMMA CopyTidy ==
  ASSUME FetchInv, TidyInv, NEW w \in Workers, CopyChunk(w)
  PROVE  TidyInv'
<1>1. PICK c \in ws[w].todo :
           LET r == CopiedChunk(w, c) IN
           /\ Becomes(w, IF ws[w].todo \ {c} = {} THEN Returned(Keep(r)) ELSE r)
           /\ r \in Local /\ SameRun(ws[w], r) /\ r.answer = ws[w].answer /\ r.cached = ws[w].cached
           /\ \A d \in Chunks :
                r.vals[d] = IF d = c THEN cache.params_[c] ELSE ws[w].vals[d]
  BY CopyFacts
<1>2. PICK r : r = CopiedChunk(w, c)
  OBVIOUS
<1>3. PICK t : t = IF ws[w].todo \ {c} = {} THEN Returned(Keep(r)) ELSE r
  OBVIOUS
<1>4. /\ Becomes(w, t) /\ r \in Local /\ r.answer = ws[w].answer /\ r.cached = ws[w].cached
      /\ r.updated = ws[w].updated /\ r.push_count_ = ws[w].push_count_
      /\ \A d \in Chunks : r.vals[d] = cache.params_[d] \/ r.vals[d] = ws[w].vals[d]
  BY <1>1, <1>2, <1>3 DEF SameRun
<1>5. pushed' = pushed /\ bsp' = bsp /\ cache' = cache /\ ws[w].pc = "copy" /\ ws[w] \in Local
  BY WorkerFacts DEF CopyChunk, At
<1>6. /\ Tidy(w, ws[w], pushed)
      /\ \A d \in Chunks : /\ cache.params_[d] \subseteq pushed[d] \union None
                           /\ bsp.vals[d] \subseteq pushed[d] \union None
                           /\ ws[w].vals[d] \union ws[w].answer.vals[d] \subseteq pushed[d] \union None
  BY TidyFacts DEF Tidy
<1>7. ~ws[w].updated
  BY <1>5, <1>6 DEF Tidy, Local
<1>8. Tidy(w, r, pushed) /\ ~r.updated
  <2>1. \A d \in Chunks : r.vals[d] \union r.answer.vals[d] \subseteq pushed[d] \union None
    BY <1>4, <1>6
  <2> QED BY <1>4, <1>5, <1>6, <1>7, <2>1, TidySame
<1>9. t \in Local
  BY <1>3, <1>4, KeepFacts, ReturnedFacts
<1>10. Tidy(w, t, pushed)
  BY <1>3, <1>4, <1>8, KeepsTidy
<1> QED BY <1>4, <1>5, <1>6, <1>9, <1>10, TidyStep

\* A worker that has not yet added its push, or has done so before sending it.
LEMMA OwnOnce ==
  ASSUME FetchInv, TidyInv, NEW w \in Workers, ws[w].pc = "push", NEW c \in Chunks,
         <<w, ws[w].push_count_>> \in ws[w].cached[c]
  PROVE  AddsTwice /\ ws[w].updated
<1> DEFINE q == <<w, ws[w].push_count_>>
<1>1. Tidy(w, ws[w], pushed)
  BY TidyFacts
<1>2. q \notin pushed[c] \union None
  BY PushIsNew
<1>3. q \in Pushes
  BY OwnPush
<1>4. Twice({q}) = {}
  <2>1. {q} \subseteq {q} \union None /\ {q} \in SUBSET Pushes
    BY <1>3
  <2> QED BY <2>1, PushesOnce
<1>5. q \notin Twice(ws[w].cached[c])
  BY <1>4 DEF Twice
<1> QED BY <1>1, <1>2, <1>5 DEF Tidy

\* What the thread cache then holds twice.
LEMMA SumTwice ==
  ASSUME FetchInv, NEW w \in Workers, NEW c \in Chunks
  PROVE  LET q == <<w, ws[w].push_count_>>
             mark == <<w, ws[w].push_count_, "twice">>
             sum == Sum(ws[w], q)[c] IN
         /\ c \notin ws[w].keys => sum = ws[w].cached[c]
         /\ c \in ws[w].keys /\ q \notin ws[w].cached[c] =>
              sum = ws[w].cached[c] \union {q} /\ Twice(sum) = Twice(ws[w].cached[c])
         /\ c \in ws[w].keys /\ q \in ws[w].cached[c] =>
              sum = ws[w].cached[c] \union {mark} /\ Twice(sum) = Twice(ws[w].cached[c]) \union {mark}
<1> DEFINE q == <<w, ws[w].push_count_>>
           mark == <<w, ws[w].push_count_, "twice">>
           sum == Sum(ws[w], q)[c]
<1>1. q \in Pushes /\ ws[w] \in Local
  BY OwnPush, WorkerFacts
<1>2. mark \in Workers \X Nat \X {"twice"}
  BY <1>1 DEF Local
<1>3. Twice({q}) = {}
  <2>1. {q} \subseteq {q} \union None /\ {q} \in SUBSET Pushes
    BY <1>1
  <2> QED BY <2>1, PushesOnce
<1>4. sum = IF c \in ws[w].keys THEN Plus(ws[w].cached[c], q) ELSE ws[w].cached[c]
  BY DEF Sum
<1>5. q \notin ws[w].cached[c] => Plus(ws[w].cached[c], q) = ws[w].cached[c] \union {q}
  BY DEF Plus
<1>6. q \in ws[w].cached[c] => Plus(ws[w].cached[c], q) = ws[w].cached[c] \union {mark}
  BY DEF Plus
<1>7. Twice(ws[w].cached[c] \union {q}) = Twice(ws[w].cached[c])
  BY <1>3 DEF Twice
<1>8. Twice(ws[w].cached[c] \union {mark}) = Twice(ws[w].cached[c]) \union {mark}
  BY <1>2 DEF Twice
<1> QED BY <1>4, <1>5, <1>6, <1>7, <1>8

LEMMA UpdateTidy ==
  ASSUME FetchInv, TidyInv, NEW w \in Workers, Update_v2(w)
  PROVE  TidyInv'
<1> DEFINE q == <<w, ws[w].push_count_>>
<1>1. PICK r : r = AfterUpdate(w)
  OBVIOUS
<1>2. /\ r \in Local /\ Becomes(w, r) /\ r.vals = ws[w].vals /\ r.answer = ws[w].answer
      /\ r.keys = ws[w].keys /\ r.push_count_ = ws[w].push_count_ /\ r.pc = "push" /\ r.updated
      /\ ws[w].pc = "push"
  BY <1>1, UpdateFacts
<1>3. pushed' = pushed /\ bsp' = bsp /\ cache' = cache /\ table.api = "v2" /\ ~ws[w].updated
  BY DEF Update_v2
<1>4. /\ Tidy(w, ws[w], pushed)
      /\ \A c \in Chunks : /\ cache.params_[c] \subseteq pushed[c] \union None
                           /\ bsp.vals[c] \subseteq pushed[c] \union None
                           /\ ws[w].vals[c] \union ws[w].answer.vals[c] \subseteq pushed[c] \union None
  BY TidyFacts DEF Tidy
<1>5. ws[w] \in Local /\ r.cached = IF is({"PSChunkNone", "PSMapChunk", "PSChunkChunk"})
                                   THEN Sum(ws[w], q) ELSE ws[w].cached
  BY <1>1, WorkerFacts DEF AfterUpdate, Local
<1>6. ASSUME NEW c \in Chunks, NEW e \in r.cached[c]
      PROVE  \/ e \in pushed[c] \union None
             \/ AddsTwice /\ r.updated /\ c \in r.keys /\ e = <<w, r.push_count_>>
             \/ AddsTwice /\ e \in Twice(r.cached[c]) /\ e[1] = w
  <2>1. \A d \in ws[w].cached[c] : \/ d \in pushed[c] \union None
                                   \/ AddsTwice /\ d \in Twice(ws[w].cached[c]) /\ d[1] = w
    BY <1>3, <1>4 DEF Tidy
  <2>2. CASE r.cached[c] = ws[w].cached[c]
    BY <1>6, <2>1, <2>2
  <2>3. CASE r.cached[c] # ws[w].cached[c]
    <3>1. AddsTwice /\ r.cached[c] = Sum(ws[w], q)[c]
      BY <1>3, <1>5, <2>3 DEF AddsTwice
    <3>2. q \notin ws[w].cached[c]
      BY <1>2, <1>3, OwnOnce
    <3>3. /\ c \in ws[w].keys /\ r.cached[c] = ws[w].cached[c] \union {q}
          /\ Twice(r.cached[c]) = Twice(ws[w].cached[c])
      BY <2>3, <3>1, <3>2, SumTwice
    <3> QED BY <1>2, <1>6, <2>1, <3>1, <3>3
  <2> QED BY <2>2, <2>3
<1>7. Tidy(w, r, pushed)
  BY <1>2, <1>3, <1>4, <1>6 DEF Tidy
<1> QED BY <1>2, <1>3, <1>4, <1>7, TidyStep

LEMMA PushTidy ==
  ASSUME FetchInv, TidyInv, NEW w \in Workers, Push(w)
  PROVE  TidyInv'
<1> DEFINE q == <<w, ws[w].push_count_>>
           mark == <<w, ws[w].push_count_, "twice">>
<1>1. /\ ws[w].pc = "push" /\ Remains(w) \in Contents /\ Becomes(w, AfterPush(w, Remains(w)))
  BY PushFacts
<1>2. PICK r : r = AfterPush(w, Remains(w))
  OBVIOUS
<1>3. ws[w] \in Local /\ TypeOK
  BY WorkerFacts
<1>4. /\ r \in Local /\ r.cached = Remains(w) /\ r.vals = ws[w].vals /\ r.answer = ws[w].answer
      /\ ~r.updated
  <2>1. ~r.updated
    BY <1>2, <1>3 DEF AfterPush, Local
  <2> QED BY <1>1, <1>2, <2>1, AfterPushFacts
<1>5. Made(w) /\ cache' = cache /\ bsp' = bsp
  BY DEF Push
<1>6. \A c \in Chunks : pushed'[c] = pushed[c] \union (IF c \in ws[w].keys THEN {q} ELSE {})
  BY <1>5 DEF Made, Update
<1>7. /\ Tidy(w, ws[w], pushed)
      /\ \A c \in Chunks : /\ cache.params_[c] \subseteq pushed[c] \union None
                           /\ bsp.vals[c] \subseteq pushed[c] \union None
                           /\ ws[w].vals[c] \union ws[w].answer.vals[c] \subseteq pushed[c] \union None
  BY TidyFacts DEF Tidy
<1>8. ASSUME NEW c \in Chunks, NEW e \in r.cached[c]
      PROVE  \/ e \in pushed'[c] \union None
             \/ AddsTwice /\ e \in Twice(r.cached[c]) /\ e[1] = w
  <2>1. CASE r.cached[c] = None
    BY <1>8, <2>1
  <2>2. CASE r.cached[c] # None
    <3>1. r.cached[c] = Sum(ws[w], q)[c]
      BY <1>4, <2>2 DEF Remains, Nothing
    <3>2. \A d \in ws[w].cached[c] : \/ d \in pushed'[c] \union None
                                     \/ AddsTwice /\ d \in Twice(ws[w].cached[c]) /\ d[1] = w
      BY <1>6, <1>7 DEF Tidy
    <3>3. CASE c \notin ws[w].keys
      BY <1>8, <3>1, <3>2, <3>3, SumTwice
    <3>4. CASE c \in ws[w].keys /\ q \notin ws[w].cached[c]
      BY <1>6, <1>8, <3>1, <3>2, <3>4, SumTwice
    <3>5. CASE c \in ws[w].keys /\ q \in ws[w].cached[c]
      <4>1. AddsTwice
        BY <1>1, <3>5, OwnOnce
      <4>2. r.cached[c] = ws[w].cached[c] \union {mark} /\ Twice(r.cached[c]) = Twice(ws[w].cached[c]) \union {mark}
        BY <3>1, <3>5, SumTwice
      <4>3. mark[1] = w
        OBVIOUS
      <4> QED BY <1>8, <3>2, <4>1, <4>2, <4>3
    <3> QED BY <3>3, <3>4, <3>5
  <2> QED BY <2>1, <2>2
<1>9. \A c \in Chunks : /\ pushed[c] \subseteq pushed'[c]
                        /\ cache'.params_[c] \union bsp'.vals[c] \subseteq pushed'[c] \union None
                        /\ r.vals[c] \union r.answer.vals[c] \subseteq pushed'[c] \union None
  BY <1>4, <1>5, <1>6, <1>7
<1>10. Tidy(w, r, pushed')
  BY <1>4, <1>8, <1>9 DEF Tidy
<1> QED BY <1>1, <1>2, <1>4, <1>9, <1>10, TidyStep

LEMMA BufferTidy ==
  ASSUME FetchInv, TidyInv, NEW w \in Workers, PushToBuffer(w)
  PROVE  TidyInv'
<1>1. PICK r : r = [ws[w] EXCEPT !.pc = "idle", !.push_count_ = ws[w].push_count_ + 1, !.keys = {},
                                 !.cached = Nothing]
  OBVIOUS
<1>2. /\ Becomes(w, r) /\ r \in Local /\ r.cached = Nothing
      /\ r.vals = ws[w].vals /\ r.answer = ws[w].answer /\ Buffered
  BY <1>1, BufferFacts
<1>3. TypeOK /\ ws[w] \in Local
  BY WorkerFacts
<1>4. cache'.params_ = cache.params_ /\ bsp' = bsp /\ Made(w)
  BY <1>3 DEF PushToBuffer, TypeOK, NewCache
<1>5. \A c \in Chunks : pushed[c] \subseteq pushed'[c]
  BY <1>4 DEF Made
<1>6. /\ Tidy(w, ws[w], pushed)
      /\ \A c \in Chunks : /\ cache.params_[c] \subseteq pushed[c] \union None
                           /\ bsp.vals[c] \subseteq pushed[c] \union None
                           /\ ws[w].vals[c] \union ws[w].answer.vals[c] \subseteq pushed[c] \union None
  BY TidyFacts DEF Tidy
<1>7. ~r.updated
  <2>1. table.api # "v2"
    BY <1>2 DEF Buffered
  <2>2. ~ws[w].updated
    BY <1>3, <1>6, <2>1 DEF Tidy, Local
  <2> QED BY <1>1, <1>3, <2>2 DEF Local
<1>8. Tidy(w, r, pushed')
  <2>1. \A c \in Chunks : r.cached[c] = None
    BY <1>2 DEF Nothing
  <2> QED BY <1>2, <1>5, <1>6, <1>7, <2>1 DEF Tidy
<1>9. \A c \in Chunks : cache'.params_[c] \union bsp'.vals[c] \subseteq pushed'[c] \union None
  BY <1>4, <1>5, <1>6
<1> QED BY <1>2, <1>5, <1>8, <1>9, TidyStep

LEMMA BarrierTidy ==
  ASSUME FetchInv, TidyInv, NEW w \in Workers, Register(w) \/ JoinPush(w) \/ LeavePush(w)
  PROVE  TidyInv'
<1>1. ws[w] \in Local /\ TypeOK /\ bsp \in BspState
  BY WorkerFacts DEF TypeOK
<1>2. PICK l \in {"join", "pushing", "send"} :
        /\ ws' = [ws EXCEPT ![w].pc = l]
        /\ ws[w].pc \in {"push", "pushing", "send"} => l \in {"push", "pushing", "send"}
  BY <1>1 DEF Register, JoinPush, LeavePush, At
<1>3. PICK r : r = [ws[w] EXCEPT !.pc = l]
  OBVIOUS
<1>4. /\ r \in Local /\ r.cached = ws[w].cached /\ r.vals = ws[w].vals /\ r.answer = ws[w].answer
      /\ r.updated = ws[w].updated /\ r.keys = ws[w].keys /\ r.push_count_ = ws[w].push_count_
      /\ r.pc = l
  BY <1>1, <1>2, <1>3 DEF Local
<1>5. table' = table /\ cache' = cache /\ \A c \in Chunks : pushed[c] \subseteq pushed'[c]
  BY DEF Register, JoinPush, LeavePush, Made
<1>6. Becomes(w, r)
  BY <1>1, <1>2, <1>3, <1>5 DEF Becomes, TypeOK
<1>7. bsp'.vals = bsp.vals
  BY <1>1 DEF Register, JoinPush, LeavePush, BspState
<1> QED BY <1>2, <1>4, <1>5, <1>6, <1>7, TidyQuiet

LEMMA JoinPullTidy ==
  ASSUME FetchInv, TidyInv, NEW w \in Workers, JoinPull(w)
  PROVE  TidyInv'
<1>1. ws[w] \in Local /\ TypeOK /\ bsp \in BspState /\ ws[w].pc = "join"
  BY WorkerFacts DEF TypeOK, JoinPull, At
<1>2. PICK r : r = [ws[w] EXCEPT !.pc = "joined"]
  OBVIOUS
<1>3. /\ r \in Local /\ r.cached = ws[w].cached /\ r.vals = ws[w].vals /\ r.answer = ws[w].answer
      /\ r.updated = ws[w].updated /\ r.keys = ws[w].keys /\ r.push_count_ = ws[w].push_count_
  BY <1>1, <1>2 DEF Local
<1>4. Becomes(w, r) /\ pushed' = pushed /\ cache' = cache
  BY <1>1, <1>2 DEF Becomes, TypeOK, JoinPull
<1>5. \A c \in Chunks : Visible(w, c) \subseteq pushed[c]
  <2>1. \A c \in Chunks : {a.id : a \in messages[c]} \subseteq pushed[c]
    BY DEF FetchInv, Sent
  <2> QED BY <2>1 DEF Visible
<1>6. PICK n, v : /\ v \in {bsp.vals, [c \in Chunks |-> IF c \in bsp.keys THEN Visible(w, c) ELSE None]}
                  /\ bsp' = [bsp EXCEPT !.pull_num_ = n, !.vals = v]
  BY <1>1 DEF JoinPull, BspState
<1>7. bsp'.vals = v
  BY <1>1, <1>6 DEF BspState
<1>8. /\ Tidy(w, ws[w], pushed)
      /\ \A c \in Chunks : /\ cache.params_[c] \subseteq pushed[c] \union None
                           /\ bsp.vals[c] \subseteq pushed[c] \union None
                           /\ ws[w].vals[c] \union ws[w].answer.vals[c] \subseteq pushed[c] \union None
  BY TidyFacts DEF Tidy
<1>9. \A c \in Chunks : cache'.params_[c] \union bsp'.vals[c] \subseteq pushed[c] \union None
  BY <1>4, <1>5, <1>6, <1>7, <1>8
<1>10. Tidy(w, r, pushed)
  BY <1>1, <1>3, <1>8, TidySame
<1> QED BY <1>3, <1>4, <1>9, <1>10, TidyStep

LEMMA LeavePullTidy ==
  ASSUME FetchInv, TidyInv, NEW w \in Workers, LeavePull(w)
  PROVE  TidyInv'
<1>1. ws[w] \in Local /\ TypeOK /\ bsp \in BspState /\ ws[w].pc = "joined"
  BY WorkerFacts DEF TypeOK, LeavePull, At
<1>2. PICK t : t = [ws[w] EXCEPT !.cached = bsp.vals]
  OBVIOUS
<1>3. t \in Local /\ t.cached = bsp.vals /\ t.updated = ws[w].updated
  BY <1>1, <1>2 DEF Local, BspState
<1>4. PICK r : r = Returned(t)
  OBVIOUS
<1>5. r \in Local /\ r.cached = bsp.vals /\ r.vals = Nothing /\ r.answer = NoAnswer /\ r.updated = ws[w].updated
  BY <1>3, <1>4, ReturnedFacts DEF SameRun
<1>6. Becomes(w, r) /\ pushed' = pushed /\ cache' = cache
  BY <1>1, <1>2, <1>4 DEF LeavePull, Becomes, TypeOK
<1>7. bsp'.vals = bsp.vals
  BY <1>1 DEF LeavePull, BspState
<1>8. /\ Tidy(w, ws[w], pushed)
      /\ \A c \in Chunks : /\ cache.params_[c] \subseteq pushed[c] \union None
                           /\ bsp.vals[c] \subseteq pushed[c] \union None
  BY TidyFacts
<1>9. ~r.updated
  BY <1>1, <1>5, <1>8 DEF Tidy, Local
<1>10. \A c \in Chunks : r.vals[c] = None /\ r.answer.vals[c] = None
  BY <1>5 DEF Nothing, NoAnswer
<1>11. Tidy(w, r, pushed)
  BY <1>5, <1>8, <1>9, <1>10 DEF Tidy
<1> QED BY <1>5, <1>6, <1>7, <1>8, <1>11, TidyStep

LEMMA SendTidy ==
  ASSUME FetchInv, TidyInv, NEW w \in Workers, SendPush(w)
  PROVE  TidyInv'
<1>1. Becomes(w, AfterPush(w, Nothing)) /\ Nothing \in Contents /\ bsp'.vals = bsp.vals
  BY SendFacts
<1>2. PICK r : r = AfterPush(w, Nothing)
  OBVIOUS
<1>3. /\ r \in Local /\ r.cached = Nothing /\ r.vals = ws[w].vals /\ r.answer = ws[w].answer /\ ~r.updated
  <2>1. ws[w] \in Local
    BY WorkerFacts
  <2>2. ~r.updated
    BY <1>2, <2>1 DEF AfterPush, Local
  <2> QED BY <1>1, <1>2, <2>2, AfterPushFacts
<1>4. pushed' = pushed /\ cache' = cache
  BY DEF SendPush
<1>5. \A c \in Chunks : /\ cache.params_[c] \subseteq pushed[c] \union None
                        /\ bsp.vals[c] \subseteq pushed[c] \union None
                        /\ ws[w].vals[c] \union ws[w].answer.vals[c] \subseteq pushed[c] \union None
  BY TidyFacts DEF Tidy
<1>6. Tidy(w, r, pushed)
  <2>1. \A c \in Chunks : r.cached[c] = None
    BY <1>3 DEF Nothing
  <2> QED BY <1>3, <1>5, <2>1 DEF Tidy
<1> QED BY <1>1, <1>2, <1>3, <1>4, <1>5, <1>6, TidyStep

LEMMA NextTidy ==
  ASSUME FetchInv, TidyInv, [Next]_vars
  PROVE  TidyInv'
<1>1. ASSUME NEW w \in Workers, Step(w)
      PROVE  TidyInv'
  BY <1>1, PullTidy, WaitingTidy, FetchTidy, InstallTidy, CopyTidy, UpdateTidy, PushTidy, BufferTidy,
     BarrierTidy, JoinPullTidy, LeavePullTidy, SendTidy DEF Step
<1>2. ASSUME UNCHANGED <<table, ws, cache, bsp, pushed>>
      PROVE  TidyInv'
  BY <1>2 DEF TidyInv, Tidy, AddsTwice, is
<1>3. ASSUME NEW w \in Workers, Arrive(w)
      PROVE  TidyInv'
  BY <1>2, <1>3 DEF Arrive
<1>4. CASE UNCHANGED vars
  BY <1>2, <1>4 DEF vars
<1> QED BY <1>1, <1>3, <1>4 DEF Next, Finished

------------------------------------------------------------------------------
(* What is counted twice is gone when the chunk is fetched again.          *)

LEMMA Doubled ==
  ASSUME NEW w, NEW r, NEW P, Tidy(w, r, P), NEW c \in Chunks, P[c] \in SUBSET Pushes,
         NEW q \in Twice(r.cached[c])
  PROVE  AddsTwice /\ q[1] = w /\ q[2] \in Nat /\ q \in r.cached[c]
<1>1. q \in r.cached[c] /\ q \in Workers \X Nat \X {"twice"}
  BY DEF Twice
<1>2. q \notin P[c] \union None
  <2>1. Twice(P[c] \union None) = {}
    BY PushesOnce
  <2> QED BY <1>1, <2>1 DEF Twice
<1>3. q # <<w, r.push_count_>>
  <2>1. 3 \in DOMAIN q /\ 3 \notin DOMAIN <<w, r.push_count_>>
    BY <1>1
  <2> QED BY <2>1
<1> QED BY <1>1, <1>2, <1>3 DEF Tidy

LEMMA FadesPrime ==
  ASSUME table' = table, NEW w \in Workers, Fades(ws'[w])
  PROVE  Fades(ws[w])'
BY DEF Fades, Since, s, is

FadesInv == OneTimestamp => \A w \in Workers : Fades(ws[w])

\* Worker w takes a step to r.
LEMMA FadesStep ==
  ASSUME FetchInv, FadesInv, NEW w \in Workers, NEW r \in Local, Becomes(w, r), OneTimestamp => Fades(r)
  PROVE  FadesInv'
<1>1. table' = table /\ ws'[w] = r /\ \A u \in Workers : u # w => ws'[u] = ws[u]
  BY BecomesType DEF FetchInv, Becomes
<1>2. OneTimestamp' = OneTimestamp
  BY <1>1 DEF OneTimestamp, is, s
<1>3. ASSUME NEW u \in Workers, OneTimestamp
      PROVE  Fades(ws[u])'
  BY <1>1, <1>3, FadesPrime DEF FadesInv
<1> QED BY <1>2, <1>3 DEF FadesInv

\* Where nothing is counted twice nothing has to be forgotten.
LEMMA FadesNothing ==
  ASSUME FetchInv', TidyInv', ~AddsTwice, table' = table
  PROVE  FadesInv'
<1>1. ASSUME NEW w \in Workers, NEW c \in Chunks
      PROVE  Twice(ws'[w].cached[c]) = {}
  <2>1. Tidy(w, ws'[w], pushed')
    BY DEF TidyInv, Tidy, AddsTwice, is
  <2>2. pushed'[c] \in SUBSET Pushes
    BY DEF FetchInv, TypeOK
  <2> QED BY <2>1, <2>2, Doubled
<1> QED BY <1>1 DEF FadesInv, Fades

\* A worker with the same thread cache, still pulling.
LEMMA FadesWaiting ==
  ASSUME NEW r, NEW t, Fades(r), t.cached = r.cached, t.chunk_clocks_ = r.chunk_clocks_,
         t.cache_ts_ = r.cache_ts_, r.pc # "copy", t.pc # "push", t.pc = "copy" => t.todo = t.need
  PROVE  Fades(t)
<1> SUFFICES ASSUME NEW c \in Chunks, NEW q \in Twice(t.cached[c])
             PROVE  q[2] >= Since(t, c)
  BY DEF Fades
<1>1. q[2] >= Since(r, c)
  BY DEF Fades
<1>2. Since(t, c) = Since(r, c)
  BY DEF Since
<1> QED BY <1>1, <1>2

\* What a pull does not ask for is new enough for what is there twice.
LEMMA UnaskedFades ==
  ASSUME table \in Tables, NEW w, NEW r \in Local, NEW k \in Nat, Counted(r, k), r.pc # "idle", r.keys # {},
         AddsTwice, NEW c \in r.keys, c \in Chunks, NEW q \in Twice(r.cached[c]), q[2] \in Nat,
         c \notin Lacks(r),
         q[2] >= IF is({"PSMapChunk"}) THEN r.cache_ts_ ELSE r.chunk_clocks_[c]
  PROVE  q[2] >= r.pull_count_ - 1 - s
<1>1. /\ s \in Nat /\ r.pull_count_ \in Nat /\ r.push_count_ \in Nat /\ r.cache_ts_ \in Int
      /\ r.chunk_clocks_[c] \in Int /\ r.pull_count_ = r.push_count_ + 1
  BY TableFacts DEF Local, Counted
<1>2. CASE is({"PSChunkNone"})
  <2>1. c \notin ChunkNoneNeeds(r)
    BY <1>2 DEF Lacks, is
  <2>2. ~(r.chunk_clocks_[c] < r.push_count_ - s)
    BY <2>1 DEF ChunkNoneNeeds
  <2>3. ~is({"PSMapChunk"})
    BY <1>2 DEF is
  <2> QED BY <1>1, <2>2, <2>3
<1>3. CASE is({"PSChunkChunk"})
  <2>1. c \notin ChunkChunkNeeds(r)
    BY <1>3 DEF Lacks, is
  <2>2. ~(r.chunk_clocks_[c] < min_clock_of(r))
    BY <2>1 DEF ChunkChunkNeeds
  <2>3. min_clock_of(r) = IF 0 >= r.pull_count_ - s - 1 THEN 0 ELSE r.pull_count_ - s - 1
    BY <1>1, MaxOfTwo DEF min_clock_of
  <2>4. ~is({"PSMapChunk"})
    BY <1>3 DEF is
  <2> QED BY <1>1, <2>2, <2>3, <2>4
<1>4. CASE is({"PSMapChunk"})
  <2>1. c \notin MapChunkNeeds(r)
    BY <1>4 DEF Lacks, is
  <2>2. ~TooOld(r)
    BY <2>1 DEF MapChunkNeeds
  <2> QED BY <1>1, <1>4, <2>2 DEF TooOld
<1> QED BY <1>2, <1>3, <1>4 DEF AddsTwice, is

LEMMA PullFades ==
  ASSUME FetchInv, FetchInv', TidyInv, FadesInv, AddsTwice, NEW w \in Workers, Pull(w)
  PROVE  FadesInv'
<1>1. PICK keys \in table.request :
         LET r == Asks(w, keys)
             t == Prepared(r) IN
           /\ Becomes(w, t) /\ t \in Local /\ r \in Local /\ SameRun(r, t) /\ ws[w].pc = "idle"
           /\ keys \subseteq Chunks /\ keys # {} /\ r.keys = keys
           /\ r.pull_count_ = ws[w].pull_count_ + 1 /\ r.push_count_ = ws[w].push_count_
           /\ r.updated = ws[w].updated /\ r.wait = {}
           /\ r.cached = ws[w].cached /\ r.chunk_clocks_ = ws[w].chunk_clocks_
           /\ r.cache_ts_ = ws[w].cache_ts_ /\ r.vals = ws[w].vals /\ r.answer = ws[w].answer
  BY PullFacts
<1>2. PICK r : r = Asks(w, keys)
  OBVIOUS
<1>3. PICK t : t = Prepared(r)
  OBVIOUS
<1>4. /\ Becomes(w, t) /\ t \in Local /\ r \in Local /\ SameRun(r, t) /\ ws[w].pc = "idle"
      /\ keys # {} /\ r.keys = keys
      /\ r.pull_count_ = ws[w].pull_count_ + 1 /\ r.push_count_ = ws[w].push_count_
      /\ r.cached = ws[w].cached /\ r.chunk_clocks_ = ws[w].chunk_clocks_
      /\ r.cache_ts_ = ws[w].cache_ts_
  BY <1>1, <1>2, <1>3
<1>5. table \in Tables /\ TypeOK /\ ws[w] \in Local /\ Counted(ws[w], sent[w]) /\ sent[w] \in Nat
  BY WorkerFacts
<1>6. /\ t.cached = Forgets(r) /\ t.chunk_clocks_ = r.chunk_clocks_ /\ t.cache_ts_ = r.cache_ts_
      /\ IF Lacks(r) = {} THEN t.pc = "push" ELSE t.pc = AskAt
  BY <1>3, <1>4, <1>5, PreparedFacts
<1>7. /\ t.pull_count_ = ws[w].pull_count_ + 1 /\ t.push_count_ = ws[w].push_count_ /\ t.keys = keys
  BY <1>4 DEF SameRun
<1>8. ~Buffered
  BY DEF AddsTwice, Buffered, is
<1>9. t.pc # "idle" /\ t.pc # "copy"
  BY <1>6 DEF AskAt
<1>10. ASSUME OneTimestamp, NEW c \in Chunks, NEW q \in Twice(t.cached[c])
       PROVE  q[2] >= Since(t, c) /\ (t.pc = "push" /\ c \in t.keys => q[2] >= t.pull_count_ - 1 - s)
  <2>1. t.cached[c] = ws[w].cached[c] \/ t.cached[c] = None
    BY <1>4, <1>6 DEF Forgets, Nothing
  <2>2. Twice(None) = {}
    <3>1. None \subseteq {} \union None /\ {} \in SUBSET Pushes
      OBVIOUS
    <3> QED BY <3>1, PushesOnce
  <2>3. t.cached[c] = ws[w].cached[c]
    BY <1>10, <2>1, <2>2
  <2>4. Tidy(w, ws[w], pushed) /\ pushed[c] \in SUBSET Pushes
    BY TidyFacts
  <2>5. q[2] \in Nat
    BY <1>10, <2>3, <2>4, Doubled
  <2>6. q[2] >= Since(ws[w], c)
    BY <1>10, <2>3 DEF FadesInv, Fades
  <2>7. Since(ws[w], c) = IF is({"PSMapChunk"}) THEN t.cache_ts_ ELSE t.chunk_clocks_[c]
    BY <1>4, <1>6 DEF Since
  <2>8. Since(t, c) = IF is({"PSMapChunk"}) THEN t.cache_ts_ ELSE t.chunk_clocks_[c]
    BY <1>9 DEF Since
  <2>9. ASSUME t.pc = "push", c \in t.keys
        PROVE  q[2] >= t.pull_count_ - 1 - s
    <3>1. Lacks(r) = {}
      BY <1>6, <2>9 DEF AskAt
    <3>2. Lacks(t) = Lacks(r)
      <4>1. ~(is({"PSMapChunk"}) /\ TooOld(r))
        BY <1>4, <3>1 DEF Lacks, MapChunkNeeds, is
      <4>2. t.cached = r.cached
        BY <1>6, <4>1 DEF Forgets
      <4> QED BY <1>4, <1>6, <1>7, <4>2 DEF Lacks, MapNoneNeeds, MapChunkNeeds, ChunkNoneNeeds, ChunkChunkNeeds,
             Missing, TooOld, min_clock_of, SameRun
    <3>3. Counted(t, sent[w])
      BY <1>4, <1>5, <1>7, <1>8, <1>9 DEF Counted, Local
    <3> QED BY <1>4, <1>5, <1>7, <1>9, <1>10, <2>5, <2>6, <2>7, <2>9, <3>1, <3>2, <3>3, UnaskedFades
  <2> QED BY <2>6, <2>7, <2>8, <2>9
<1>11. OneTimestamp => Fades(t)
  BY <1>10 DEF Fades
<1> QED BY <1>4, <1>11, FadesStep

LEMMA WaitingFades ==
  ASSUME FetchInv, FetchInv', FadesInv, NEW w \in Workers, Process(w) \/ Manage(w) \/ Release(w)
  PROVE  FadesInv'
<1>1. ws[w] \in Local /\ TypeOK /\ Placed(ws[w])
  BY WorkerFacts
<1>2. PICK r : r = ws'[w]
  OBVIOUS
<1>3. r \in Local /\ table' = table
  BY <1>2 DEF FetchInv, TypeOK, Process, Manage, Release
<1>4. /\ r.cached = ws[w].cached /\ r.chunk_clocks_ = ws[w].chunk_clocks_ /\ r.cache_ts_ = ws[w].cache_ts_
      /\ ws[w].pc # "copy" /\ r.pc # "push" /\ (r.pc = "copy" => r.todo = r.need)
      /\ \A u \in Workers : u # w => ws'[u] = ws[u]
  <2>1. CASE Process(w)
    BY <1>1, <1>2, <2>1 DEF Process, TypeOK, Local, At
  <2>2. CASE Manage(w)
    <3>1. ws[w].todo = ws[w].need
      BY <1>1, <2>2 DEF Placed, Manage, At
    <3> QED BY <1>1, <1>2, <2>2, <3>1 DEF Manage, TypeOK, Local, At
  <2>3. CASE Release(w)
    BY <1>1, <1>2, <2>3 DEF Release, TypeOK, Local, At
  <2> QED BY <2>1, <2>2, <2>3
<1>5. Becomes(w, r)
  <2>1. ws' \in [Workers -> Local] /\ ws \in [Workers -> Local]
    BY <1>1 DEF FetchInv, TypeOK
  <2> QED BY <1>2, <1>3, <1>4, <2>1 DEF Becomes
<1>6. OneTimestamp => Fades(r)
  BY <1>4, FadesWaiting DEF FadesInv
<1> QED BY <1>3, <1>5, <1>6, FadesStep

LEMMA InstallFades ==
  ASSUME FetchInv, FadesInv, NEW w \in Workers, InstallProcess(w)
  PROVE  FadesInv'
<1>1. ws[w] \in Local /\ ws[w].pc = "install"
  BY WorkerFacts DEF InstallProcess, At
<1>2. PICK c \in ws[w].todo, l \in {"install", "release", "copy"} :
           LET todo == IF l = "copy" THEN ws[w].need ELSE ws[w].todo \ {c} IN
           /\ Becomes(w, [ws[w] EXCEPT !.pc = l, !.todo = todo])
           /\ [ws[w] EXCEPT !.pc = l, !.todo = todo] \in Local
  BY InstallFacts
<1>3. PICK todo : todo = IF l = "copy" THEN ws[w].need ELSE ws[w].todo \ {c}
  OBVIOUS
<1>4. PICK r : r = [ws[w] EXCEPT !.pc = l, !.todo = todo]
  OBVIOUS
<1>5. r \in Local /\ Becomes(w, r)
  BY <1>2, <1>3, <1>4
<1>6. /\ r.cached = ws[w].cached /\ r.chunk_clocks_ = ws[w].chunk_clocks_ /\ r.cache_ts_ = ws[w].cache_ts_
      /\ r.pc = l /\ r.todo = todo /\ r.need = ws[w].need
  BY <1>1, <1>4 DEF Local
<1>7. OneTimestamp => Fades(r)
  BY <1>1, <1>3, <1>6, FadesWaiting DEF FadesInv
<1> QED BY <1>5, <1>7, FadesStep

\* The pull returns: what it fetched is there once, what it did not need to
\* fetch is new enough.
LEMMA KeepFades ==
  ASSUME table \in Tables, OneTimestamp, AddsTwice, NEW w, NEW r \in Local, NEW k \in Nat, Counted(r, k),
         r.pc \in Pulling, r.need \subseteq r.keys, r.need # {}, r.keys \in table.request,
         NEW P, \A c \in Chunks : P[c] \in SUBSET Pushes, NEW m, Tidy(w, r, P), Asked(r),
         is({"PSMapChunk"}) => MapChunkHolds(r, P, m),
         \A c \in Chunks \ r.need : \A q \in Twice(r.cached[c]) :
            q[2] >= IF is({"PSMapChunk"}) THEN r.cache_ts_ ELSE r.chunk_clocks_[c],
         NEW t, t = Returned(Keep(r))
  PROVE  Fades(t)
<1>1. PICK h : h = Keep(r)
  OBVIOUS
<1>2. /\ h \in Local /\ SameRun(r, h)
      /\ \A c \in r.need : h.cached[c] \in {r.answer.vals[c], r.vals[c]}
      /\ ~is({"PSMapNone"}) => \A c \in Chunks \ r.need : h.cached[c] = r.cached[c]
      /\ h.cache_ts_ = IF is({"PSMapNone"}) /\ r.need = r.keys THEN r.pull_count_
                       ELSE IF is({"PSMapChunk"}) /\ r.need = r.keys THEN r.label
                       ELSE r.cache_ts_
      /\ \A c \in Chunks \ r.need : h.chunk_clocks_[c] = r.chunk_clocks_[c]
  BY <1>1, KeepFacts
<1>3. /\ t.pc = "push" /\ SameRun(h, t) /\ t.cached = h.cached /\ t.chunk_clocks_ = h.chunk_clocks_
      /\ t.cache_ts_ = h.cache_ts_
  BY <1>1, <1>2, ReturnedFacts
<1>4. ~is({"PSMapNone"}) /\ ~is({"PSBsp"})
  BY DEF AddsTwice, is
<1>5. t.keys = r.keys /\ t.pull_count_ = r.pull_count_
  BY <1>2, <1>3 DEF SameRun
<1>6. r.pc # "idle"
  BY DEF Pulling
<1>7. ASSUME NEW c \in r.need
      PROVE  Twice(t.cached[c]) = {}
  <2>1. c \in Chunks /\ P[c] \in SUBSET Pushes
    BY <1>7 DEF Local
  <2>2. t.cached[c] \subseteq P[c] \union None
    BY <1>2, <1>3, <1>7, <2>1 DEF Tidy
  <2> QED BY <2>1, <2>2, PushesOnce
<1>8. Lacks(r) \subseteq r.need
  <2>1. CASE is({"PSChunkNone"})
    BY <2>1 DEF Asked, Lacks, is
  <2>2. CASE is({"PSChunkChunk"})
    BY <2>2 DEF Asked, Lacks, is
  <2>3. CASE is({"PSMapChunk"})
    BY <2>3 DEF Asked, Lacks, is
  <2> QED BY <2>1, <2>2, <2>3 DEF AddsTwice, is
<1>9. ASSUME is({"PSMapChunk"}), r.need = r.keys
      PROVE  r.cached = Nothing
  <2>1. r.need = MapChunkNeeds(r) /\ (TooOld(r) => r.cached = Nothing)
    BY <1>9 DEF Asked
  <2>2. CASE ~TooOld(r)
    <3>1. \A c \in r.keys : r.cached[c] = None
      BY <1>9, <2>1, <2>2 DEF MapChunkNeeds, Missing
    <3>2. ASSUME r.cached # Nothing
          PROVE  FALSE
      <4>1. PICK l \in table.request : \A c \in l : r.cached[c] # None
        BY <1>9, <3>2 DEF MapChunkHolds
      <4>2. l \intersect r.keys # {}
        BY <1>9 DEF OneTimestamp
      <4> QED BY <3>1, <4>1, <4>2
    <3> QED BY <3>2
  <2> QED BY <2>1, <2>2
<1>10. ASSUME NEW c \in Chunks, NEW q \in Twice(t.cached[c])
       PROVE  q[2] >= Since(t, c) /\ (c \in t.keys => q[2] >= t.pull_count_ - 1 - s)
  <2>1. c \notin r.need
    BY <1>7, <1>10
  <2>2. t.cached[c] = r.cached[c] /\ t.chunk_clocks_[c] = r.chunk_clocks_[c]
    BY <1>2, <1>3, <1>4, <2>1
  <2>3. Twice(None) = {}
    <3>1. None \subseteq {} \union None /\ {} \in SUBSET Pushes
      OBVIOUS
    <3> QED BY <3>1, PushesOnce
  <2>4. is({"PSMapChunk"}) => r.need # r.keys
    BY <1>9, <1>10, <2>2, <2>3 DEF Nothing
  <2>5. t.cache_ts_ = r.cache_ts_
    BY <1>2, <1>3, <1>4, <2>4
  <2>6. Since(t, c) = IF is({"PSMapChunk"}) THEN r.cache_ts_ ELSE r.chunk_clocks_[c]
    BY <1>3, <2>2, <2>5 DEF Since
  <2>7. q[2] >= IF is({"PSMapChunk"}) THEN r.cache_ts_ ELSE r.chunk_clocks_[c]
    BY <1>10, <2>1, <2>2
  <2>8. q[2] \in Nat /\ q \in Twice(r.cached[c])
    BY <1>10, <2>2, Doubled
  <2>9. ASSUME c \in t.keys
        PROVE  q[2] >= t.pull_count_ - 1 - s
    <3>1. c \in r.keys /\ r.keys # {} /\ c \notin Lacks(r)
      BY <1>5, <1>8, <2>1, <2>9
    <3> QED BY <1>5, <1>6, <2>7, <2>8, <3>1, UnaskedFades
  <2> QED BY <2>6, <2>7, <2>9
<1> QED BY <1>3, <1>10 DEF Fades

LEMMA FetchFades ==
  ASSUME FetchInv, ReadInv, TidyInv, FadesInv, AddsTwice, NEW w \in Workers, Fetch(w)
  PROVE  FadesInv'
<1>1. /\ ws[w] \in Local /\ TypeOK /\ Placed(ws[w]) /\ Counted(ws[w], sent[w]) /\ sent[w] \in Nat
      /\ table \in Tables
  BY WorkerFacts
<1>2. At(w, "fetch") /\ ws[w].pc = "fetch"
  BY DEF Fetch, At
<1>3. PICK r : r = Arrived(w)
  OBVIOUS
<1>4. /\ r \in Local /\ r.cached = ws[w].cached /\ r.vals = ws[w].vals /\ SameRun(ws[w], r)
      /\ r.chunk_clocks_ = ws[w].chunk_clocks_ /\ r.cache_ts_ = ws[w].cache_ts_ /\ r.pc = "install"
      /\ r.need = ws[w].need
      /\ \A c \in ws[w].fetch : r.answer.vals[c] = Visible(w, c)
      /\ \A c \in Chunks \ ws[w].fetch : r.answer.vals[c] = None
  BY <1>2, <1>3, ArrivedFacts
<1>5. PICK t : t = IF is({"PSWorker", "PSMapNone", "PSChunkNone"}) THEN Returned(Keep(r)) ELSE r
  OBVIOUS
<1>6. Becomes(w, t) /\ t \in Local
  <2>1. Becomes(w, t)
    BY <1>2, <1>3, <1>5 DEF Fetch, Becomes, Arrived
  <2> QED BY <1>4, <1>5, <2>1, KeepFacts, ReturnedFacts
<1>7. ASSUME OneTimestamp, t # r
      PROVE  Fades(t)
  <2>1. is({"PSChunkNone"}) /\ ~is({"PSMapChunk"}) /\ ~is({"PSBsp"}) /\ t = Returned(Keep(r))
    BY <1>5, <1>7 DEF AddsTwice, is
  <2>2. Asked(ws[w])
    BY <1>7, ReadFacts DEF Reading
  <2>3. Asked(r)
    <3>1. SameCache(ws[w], r) /\ ws[w].pc \in Pulling
      BY <1>2, <1>4 DEF SameCache, SameRun, Pulling
    <3> QED BY <1>1, <1>4, <2>2, <3>1, StillAsked
  <2>4. Tidy(w, ws[w], pushed) /\ \A c \in Chunks : pushed[c] \in SUBSET Pushes
    BY TidyFacts
  <2>5. \A c \in Chunks : r.vals[c] \union r.answer.vals[c] \subseteq pushed[c] \union None
    BY <1>4, <2>1, <2>4, AnswerHas DEF Tidy
  <2>6. ~ws[w].updated
    BY <1>1, <1>2, <2>4 DEF Tidy, Local
  <2>7. r.updated = ws[w].updated /\ r.push_count_ = ws[w].push_count_ /\ r.keys = ws[w].keys
        /\ r.pull_count_ = ws[w].pull_count_
    BY <1>4 DEF SameRun
  <2>8. Tidy(w, r, pushed)
    BY <1>2, <1>4, <2>4, <2>5, <2>6, <2>7, TidySame
  <2>9. Counted(r, sent[w])
    BY <1>1, <1>2, <1>4, <2>7 DEF Counted
  <2>10. r.need \subseteq r.keys /\ r.need # {} /\ r.keys \in table.request
    BY <1>1, <1>2, <1>4, <2>7 DEF Placed, Pulling
  <2>11. \A c \in Chunks : \A q \in Twice(r.cached[c]) : q[2] >= r.chunk_clocks_[c]
    BY <1>2, <1>4, <1>7, <2>1 DEF FadesInv, Fades, Since
  <2>12. r.pc \in Pulling
    BY <1>4 DEF Pulling
  <2> HIDE DEF Fades
  <2> QED BY <1>1, <1>4, <1>7, <2>1, <2>3, <2>4, <2>8, <2>9, <2>10, <2>11, <2>12, KeepFades
<1>8. ASSUME OneTimestamp, t = r
      PROVE  Fades(t)
  BY <1>2, <1>4, <1>8, FadesWaiting DEF FadesInv
<1> QED BY <1>6, <1>7, <1>8, FadesStep

LEMMA CopyFades ==
  ASSUME FetchInv, ReadInv, TidyInv, FadesInv, AddsTwice, NEW w \in Workers, CopyChunk(w)
  PROVE  FadesInv'
<1>1. PICK c \in ws[w].todo :
           LET r == CopiedChunk(w, c) IN
           /\ Becomes(w, IF ws[w].todo \ {c} = {} THEN Returned(Keep(r)) ELSE r)
           /\ r \in Local /\ SameRun(ws[w], r) /\ r.pc = "copy"
           /\ r.need = ws[w].need /\ r.fetch = ws[w].fetch /\ r.wait = ws[w].wait
           /\ r.answer = ws[w].answer /\ r.cached = ws[w].cached /\ r.cache_ts_ = ws[w].cache_ts_
           /\ r.todo = ws[w].todo \ {c}
           /\ r.label <= cache.chunk_clocks_[c]
           /\ IF ws[w].todo = ws[w].need THEN r.label = cache.chunk_clocks_[c]
              ELSE r.label <= ws[w].label /\ r.label \in {ws[w].label, cache.chunk_clocks_[c]}
           /\ \A d \in Chunks :
                /\ r.vals[d] = IF d = c THEN cache.params_[c] ELSE ws[w].vals[d]
                /\ r.chunk_clocks_[d] = IF d = c /\ is({"PSChunkChunk"}) THEN cache.chunk_clocks_[c]
                                        ELSE ws[w].chunk_clocks_[d]
  BY CopyFacts
<1>2. PICK r : r = CopiedChunk(w, c)
  OBVIOUS
<1>3. PICK t : t = IF ws[w].todo \ {c} = {} THEN Returned(Keep(r)) ELSE r
  OBVIOUS
<1>4. /\ Becomes(w, t) /\ r \in Local /\ SameRun(ws[w], r) /\ r.pc = "copy" /\ r.need = ws[w].need
      /\ r.answer = ws[w].answer /\ r.cached = ws[w].cached /\ r.cache_ts_ = ws[w].cache_ts_
      /\ r.todo = ws[w].todo \ {c}
      /\ r.label <= cache.chunk_clocks_[c]
      /\ IF ws[w].todo = ws[w].need THEN r.label = cache.chunk_clocks_[c]
         ELSE r.label <= ws[w].label /\ r.label \in {ws[w].label, cache.chunk_clocks_[c]}
      /\ \A d \in Chunks :
           /\ r.vals[d] = IF d = c THEN cache.params_[c] ELSE ws[w].vals[d]
           /\ r.chunk_clocks_[d] = IF d = c /\ is({"PSChunkChunk"}) THEN cache.chunk_clocks_[c]
                                   ELSE ws[w].chunk_clocks_[d]
  BY <1>1, <1>2, <1>3
<1>5. /\ ws[w] \in Local /\ TypeOK /\ Placed(ws[w]) /\ Counted(ws[w], sent[w]) /\ sent[w] \in Nat
      /\ table \in Tables /\ ws[w].pc = "copy"
  BY WorkerFacts DEF CopyChunk, At
<1>6. /\ ws[w].need \subseteq ws[w].keys /\ ws[w].need # {} /\ ws[w].keys \in table.request
      /\ ws[w].todo \subseteq ws[w].need /\ ws[w].need \subseteq Chunks
  BY <1>5 DEF Placed, Pulling, Local
<1>7. t \in Local
  BY <1>3, <1>4, KeepFacts, ReturnedFacts
<1>8. Tidy(w, ws[w], pushed) /\ \A d \in Chunks : pushed[d] \in SUBSET Pushes
  BY TidyFacts
<1>9. ASSUME OneTimestamp, NEW d \in Chunks, d # c, NEW q \in Twice(r.cached[d])
      PROVE  q[2] >= Since(r, d) /\ q[2] \in Nat
             /\ (d \notin r.need => q[2] >= IF is({"PSMapChunk"}) THEN r.cache_ts_ ELSE r.chunk_clocks_[d])
  <2>1. q[2] >= Since(ws[w], d) /\ q[2] \in Nat
    BY <1>4, <1>8, <1>9, Doubled DEF FadesInv, Fades
  <2>2. Since(r, d) = Since(ws[w], d)
    BY <1>4, <1>5, <1>9 DEF Since
  <2>3. d \notin r.need => Since(r, d) = IF is({"PSMapChunk"}) THEN r.cache_ts_ ELSE r.chunk_clocks_[d]
    BY DEF Since
  <2> QED BY <2>1, <2>2, <2>3
<1>10. ASSUME OneTimestamp, ws[w].todo \ {c} # {}
       PROVE  Fades(t)
  <2>1. t = r
    BY <1>3, <1>10
  <2>2. ASSUME NEW q \in Twice(r.cached[c]), c \in Chunks
        PROVE  q[2] >= Since(r, c)
    <3>1. q[2] >= Since(ws[w], c) /\ q[2] \in Nat
      BY <1>4, <1>8, <1>10, <2>2, Doubled DEF FadesInv, Fades
    <3>2. CASE is({"PSMapChunk"})
      BY <1>4, <3>1, <3>2 DEF Since
    <3>3. CASE ~is({"PSMapChunk"})
      <4>1. c \in r.need \ r.todo
        BY <1>4, <1>6
      <4>2. Since(r, c) = 0
        BY <1>4, <3>3, <4>1 DEF Since
      <4> QED BY <3>1, <4>2
    <3> QED BY <3>2, <3>3
  <2> QED BY <1>4, <1>9, <1>10, <2>1, <2>2 DEF Fades
<1>11. ASSUME OneTimestamp, ws[w].todo \ {c} = {}
       PROVE  Fades(t)
  <2>1. t = Returned(Keep(r))
    BY <1>3, <1>11
  <2>2. Reading(w, r, sent[w], pushed, min_clock, cache.chunk_clocks_)
    BY <1>4, <1>5, <1>11, CopyReading
  <2>3. Asked(r) /\ (is({"PSMapChunk"}) => MapChunkHolds(r, pushed, min_clock))
    BY <2>2 DEF Reading, Holds
  <2>4. r.updated = ws[w].updated /\ r.push_count_ = ws[w].push_count_ /\ r.keys = ws[w].keys
        /\ r.pull_count_ = ws[w].pull_count_
    BY <1>4 DEF SameRun
  <2>5. ~ws[w].updated
    BY <1>5, <1>8 DEF Tidy, Local
  <2>6. \A d \in Chunks : r.vals[d] \union r.answer.vals[d] \subseteq pushed[d] \union None
    <3>1. \A d \in Chunks : cache.params_[d] \subseteq pushed[d] \union None
      BY TidyFacts
    <3> QED BY <1>4, <1>8, <3>1 DEF Tidy
  <2>7. Tidy(w, r, pushed)
    BY <1>4, <1>5, <1>8, <2>4, <2>5, <2>6, TidySame
  <2>8. Counted(r, sent[w])
    BY <1>4, <1>5, <2>4 DEF Counted
  <2>9. \A d \in Chunks \ r.need : \A q \in Twice(r.cached[d]) :
          q[2] >= IF is({"PSMapChunk"}) THEN r.cache_ts_ ELSE r.chunk_clocks_[d]
    BY <1>4, <1>6, <1>9, <1>11
  <2>10. r.pc \in Pulling /\ r.need \subseteq r.keys /\ r.need # {} /\ r.keys \in table.request
    BY <1>4, <1>6, <2>4 DEF Pulling
  <2> QED BY <1>4, <1>5, <1>8, <1>11, <2>1, <2>3, <2>7, <2>8, <2>9, <2>10, KeepFades
<1> QED BY <1>4, <1>7, <1>10, <1>11, FadesStep

LEMMA UpdateFades ==
  ASSUME FetchInv, TidyInv, FadesInv, AddsTwice, NEW w \in Workers, Update_v2(w)
  PROVE  FadesInv'
<1> DEFINE q == <<w, ws[w].push_count_>>
<1>1. PICK r : r = AfterUpdate(w)
  OBVIOUS
<1>2. /\ r \in Local /\ Becomes(w, r) /\ r.pull_count_ = ws[w].pull_count_
      /\ r.keys = ws[w].keys /\ r.pc = "push" /\ ws[w].pc = "push"
      /\ r.cache_ts_ = ws[w].cache_ts_ /\ r.chunk_clocks_ = ws[w].chunk_clocks_
  BY <1>1, UpdateFacts
<1>3. ~ws[w].updated
  BY DEF Update_v2
<1>4. ws[w] \in Local /\ r.cached = Sum(ws[w], q)
  BY <1>1, WorkerFacts DEF AfterUpdate, Local, AddsTwice
<1>5. \A c \in Chunks : Twice(r.cached[c]) = Twice(ws[w].cached[c])
  BY <1>2, <1>3, <1>4, OwnOnce, SumTwice
<1>6. \A c \in Chunks : Since(r, c) = Since(ws[w], c)
  BY <1>2 DEF Since
<1>7. OneTimestamp => Fades(r)
  BY <1>2, <1>5, <1>6 DEF FadesInv, Fades
<1> QED BY <1>2, <1>7, FadesStep

LEMMA PushFades ==
  ASSUME FetchInv, ReadInv, TidyInv, FadesInv, AddsTwice, NEW w \in Workers, Push(w)
  PROVE  FadesInv'
<1> DEFINE q == <<w, ws[w].push_count_>>
           mark == <<w, ws[w].push_count_, "twice">>
<1>1. /\ ws[w].pc = "push" /\ Remains(w) \in Contents /\ Becomes(w, AfterPush(w, Remains(w)))
      /\ ~Buffered
  BY PushFacts
<1>2. PICK r : r = AfterPush(w, Remains(w))
  OBVIOUS
<1>3. /\ ws[w] \in Local /\ TypeOK /\ Counted(ws[w], sent[w]) /\ min_clock <= sent[w]
      /\ min_clock \in Nat /\ sent[w] \in Nat /\ Fetching(ws[w], sent[w], pushed, min_clock)
  BY WorkerFacts
<1>4. /\ r \in Local /\ r.cached = Remains(w) /\ r.pc = "idle"
      /\ r.cache_ts_ = ws[w].cache_ts_ /\ r.chunk_clocks_ = ws[w].chunk_clocks_
  BY <1>1, <1>2, AfterPushFacts
<1>5. r.cached = Sum(ws[w], q)
  BY <1>4 DEF Remains, AddsTwice, is
<1>6. sent[w] = ws[w].push_count_ /\ ws[w].push_count_ \in Nat
  BY <1>1, <1>3 DEF Counted, Local
<1>7. ASSUME OneTimestamp, NEW c \in Chunks, NEW e \in Twice(r.cached[c])
      PROVE  e[2] >= Since(r, c)
  <2>1. Since(r, c) = Since(ws[w], c)
        /\ Since(r, c) = IF is({"PSMapChunk"}) THEN ws[w].cache_ts_ ELSE ws[w].chunk_clocks_[c]
    BY <1>1, <1>4 DEF Since
  <2>2. e \in Twice(ws[w].cached[c]) \/ e = mark
    BY <1>5, <1>7, SumTwice
  <2>3. CASE e \in Twice(ws[w].cached[c])
    BY <1>7, <2>1, <2>3 DEF FadesInv, Fades
  <2>4. CASE e = mark
    <3>1. e[2] = sent[w]
      BY <1>6, <2>4
    <3>2. Reading(w, ws[w], sent[w], pushed, min_clock, cache.chunk_clocks_)
      BY <1>7, ReadFacts
    <3>3. CASE is({"PSMapChunk"})
      <4>1. ws[w].cache_ts_ <= min_clock /\ ws[w].cache_ts_ \in Int
        BY <1>3, <3>3 DEF Fetching, Local
      <4> QED BY <1>3, <2>1, <3>1, <3>3, <4>1
    <3>4. CASE ~is({"PSMapChunk"})
      <4>1. ChunksHold(ws[w], pushed, min_clock)
        BY <3>2, <3>4 DEF Reading, Holds, AddsTwice, is
      <4>2. ws[w].chunk_clocks_[c] <= min_clock /\ ws[w].chunk_clocks_[c] \in Int
        BY <1>3, <4>1 DEF ChunksHold, Has, Local
      <4> QED BY <1>3, <2>1, <3>1, <3>4, <4>2
    <3> QED BY <3>3, <3>4
  <2> QED BY <2>2, <2>3, <2>4
<1>8. OneTimestamp => Fades(r)
  BY <1>4, <1>7 DEF Fades
<1> QED BY <1>1, <1>2, <1>4, <1>8, FadesStep

LEMMA NextFades ==
  ASSUME FetchInv, FetchInv', ReadInv, TidyInv, TidyInv', FadesInv, [Next]_vars
  PROVE  FadesInv'
<1>1. ASSUME UNCHANGED <<table, ws>>
      PROVE  FadesInv'
  BY <1>1 DEF FadesInv, Fades, Since, OneTimestamp, s, is
<1>2. CASE UNCHANGED vars
  BY <1>1, <1>2 DEF vars
<1>3. ASSUME NEW w \in Workers, Arrive(w)
      PROVE  FadesInv'
  BY <1>1, <1>3 DEF Arrive
<1>4. ASSUME NEW w \in Workers, Step(w)
      PROVE  FadesInv'
  <2>1. CASE ~AddsTwice
    <3>1. table' = table
      BY <1>4 DEF Step, Pull, Process, Manage, Fetch, InstallProcess, Release, CopyChunk, Update_v2, Push,
                  PushToBuffer, Register, JoinPull, LeavePull, JoinPush, LeavePush, SendPush
    <3> QED BY <2>1, <3>1, FadesNothing
  <2>2. CASE AddsTwice
    <3>1. ~Buffered /\ ~is({"PSBsp"})
      BY <2>2 DEF AddsTwice, Buffered, is
    <3>2. Placed(ws[w])
      BY WorkerFacts
    <3>3. ws[w].pc \notin {"register", "join", "joined", "pushing", "send"}
      BY <3>1, <3>2 DEF Placed
    <3>4. \/ Pull(w) \/ Process(w) \/ Manage(w) \/ Fetch(w) \/ InstallProcess(w)
          \/ Release(w) \/ CopyChunk(w) \/ Update_v2(w) \/ Push(w)
      BY <1>4, <3>1, <3>3 DEF Step, PushToBuffer, Register, JoinPull, LeavePull, JoinPush, LeavePush, SendPush,
                              At
    <3> QED BY <2>2, <3>4, PullFades, WaitingFades, FetchFades, InstallFades, CopyFades, UpdateFades, PushFades
  <2> QED BY <2>1, <2>2
<1> QED BY <1>2, <1>3, <1>4 DEF Next, Finished

LEMMA InitOnce ==
  ASSUME Init
  PROVE  OnceInv
<1>1. /\ cache.params_ = Nothing /\ bsp.vals = Nothing /\ messages = [c \in Chunks |-> {}]
  BY DEF Init, NewCache, NewBsp
<1>2. \A w \in Workers : /\ ws[w].cached = Nothing /\ ws[w].vals = Nothing /\ ws[w].answer.vals = Nothing
                         /\ ~ws[w].updated
  BY DEF Init, NewWorker, NoAnswer
<1>3. \A c \in Chunks : Nothing[c] = None
  BY DEF Nothing
<1>4. Twice(None) = {}
  <2>1. None \subseteq {} \union None /\ {} \in SUBSET Pushes
    OBVIOUS
  <2> QED BY <2>1, PushesOnce
<1>5. OneMessage
  BY <1>1 DEF OneMessage
<1>6. TidyInv
  BY <1>1, <1>2, <1>3 DEF TidyInv, Tidy
<1>7. \A w \in Workers : Fades(ws[w])
  BY <1>2, <1>3, <1>4 DEF Fades
<1> QED BY <1>5, <1>6, <1>7 DEF OnceInv

LEMMA EachCounted ==
  ASSUME FetchInv, OnceInv
  PROVE  SentOnce /\ (OneTimestamp => UpdatesCounted)
<1>1. TypeOK /\ Sent /\ OneMessage /\ TidyInv
  BY DEF FetchInv, OnceInv
<1>2. \A c \in Chunks : cache.buffer[c] \intersect bsp.params_[c] = {}
  <2>1. Buffered => ~is({"PSBsp"})
    BY DEF Buffered, is
  <2> QED BY <1>1, <2>1 DEF Sent
<1>3. SentOnce
  BY <1>1, <1>2 DEF SentOnce, Sent, OneMessage
<1>4. ASSUME OneTimestamp
      PROVE  DoublesForgotten
  <2>1. ASSUME NEW c \in Chunks
        PROVE  Twice(cache.params_[c]) = {}
    BY <1>1, PushesOnce DEF TidyInv, TypeOK
  <2>2. ASSUME NEW c \in Chunks, NEW w \in Workers, HasRead(w, c), NEW q \in Twice(ws[w].cached[c])
        PROVE  AddsTwice /\ q[1] = w /\ q[2] >= Iteration(w) - s
    <3>1. AddsTwice /\ q[1] = w
      BY <1>1, <2>2, Doubled, TidyFacts
    <3>2. q[2] >= ws[w].pull_count_ - 1 - s
      BY <1>4, <2>2 DEF OnceInv, Fades, HasRead, At
    <3> QED BY <3>1, <3>2 DEF Iteration
  <2> QED BY <2>1, <2>2 DEF DoublesForgotten
<1> QED BY <1>3, <1>4 DEF UpdatesCounted

\* Every push of every class is in one message at most, whether it was sent at
\* once, left in the push buffer for another thread to flush, or collected by
\* PSBspModel: none is lost, none sent twice.  The classes whose Update_v2 writes
\* to the thread cache and whose Clock_v2 adds the update again do count it
\* twice; it is their own, it never reaches the process cache, and it is gone
\* when its chunk is fetched again, staleness iterations later at most.
THEOREM EachPushOnce == Spec => [](SentOnce /\ (OneTimestamp => UpdatesCounted))
<1> DEFINE IInv == FetchInv /\ ReadInv /\ OnceInv
<1>1. Init => IInv
  BY InitFetches, InitReads, InitOnce
<1>2. IInv /\ [Next]_vars => IInv'
  <2> SUFFICES ASSUME IInv, [Next]_vars
               PROVE  IInv'
    OBVIOUS
  <2>1. FetchInv'
    BY NextFetches
  <2>2. ReadInv'
    BY <2>1, NextReads
  <2>3. OneMessage' /\ TidyInv'
    BY NextSends, NextTidy DEF OnceInv
  <2>4. FadesInv'
    BY <2>1, <2>3, NextFades DEF OnceInv, FadesInv
  <2> QED BY <2>1, <2>2, <2>3, <2>4 DEF OnceInv, FadesInv
<1>3. IInv => SentOnce /\ (OneTimestamp => UpdatesCounted)
  BY EachCounted
<1> HIDE DEF IInv
<1> QED BY <1>1, <1>2, <1>3, PTL DEF Spec
=============================================================================
