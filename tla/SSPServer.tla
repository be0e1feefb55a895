------------------------------ MODULE SSPServer ------------------------------
(***************************************************************************)
(* The stale-synchronous-parallel handler of one server partition of the   *)
(* KV store, kvstore/handles/ssp_server.hpp.                               *)
(*                                                                         *)
(* ServerCustomer::Receiving hands the handler one message at a time, so   *)
(* every message it processes is one action.  Each worker thread talks to  *)
(* the partition over a FIFO mailbox; interleaving the actions of          *)
(* different workers freely covers every arrival order.                    *)
(*                                                                         *)
(* An epoch is one instance of a task: a set of worker threads (members),  *)
(* whose size may change from epoch to epoch, each of which first sends    *)
(* InitForConsistencyControl and then pushes and pulls.  A push or pull    *)
(* whose keys do not touch this partition is still sent, with an empty     *)
(* body (data = FALSE): it moves the clocks but is never answered.         *)
(*                                                                         *)
(* This module takes the messages of an epoch to be delivered before the   *)
(* next epoch begins; SSPEpochs drops that assumption.                     *)
(***************************************************************************)
EXTENDS Integers, FiniteSets

CONSTANTS
  Workers,    \* the worker threads of the cluster
  Staleness,  \* staleness_
  MaxClock,   \* bound: clocks
  MaxEpoch,   \* bound: epochs
  MaxPushes,  \* bound: pushes of one worker in each epoch
  MaxOff      \* bound: workers that push without control, over all epochs

ASSUME SSPAssumption ==
  /\ Workers # {} /\ IsFiniteSet(Workers)
  /\ Staleness \in 0 .. 10
  /\ MaxClock \in Nat
  /\ MaxEpoch \in Nat \ {0}
  /\ MaxOff \in Nat

ASSUME PushesAssumption == MaxPushes \in [1 .. MaxEpoch -> 0 .. MaxClock]

VARIABLES
  members,          \* the worker threads of the running instance
  inited,           \* the members whose Init message has been processed
  epoch,            \* number of the running instance
  num_workers_,
  init_count_,
  min_clock_,
  worker_progress_,
  clock_count_,
  blocked_pushes_,  \* bucket per expected_min_clock
  blocked_pulls_,
  store_,           \* how often each push has been added to the partition
  sent,             \* history: the pushes with data made so far
  pulled            \* history: the last answer to a pull in this epoch

env == <<members, inited, epoch>>
control == <<num_workers_, init_count_, min_clock_, worker_progress_,
             clock_count_, blocked_pushes_, blocked_pulls_>>
vars == <<env, control, store_, sent, pulled>>

Clock == 0 .. MaxClock
Epoch == 1 .. MaxEpoch

NoClock == -1   \* the clock of an uncontrolled push

\* A request is identified by its epoch, its source and the source's clock.
Id == Epoch \X Workers \X (Clock \cup {NoClock})

Request == [src : Workers, id : Id, data : BOOLEAN]

\* What a pull brings home: the pushes in the values read, and the min_clock_
\* that the server adds to the answer of PullChunksWithMinClock (cmd above
\* with_min_clock_magic_; other answers are the same without it).
Reply == [clock : Clock \cup {NoClock}, view : SUBSET Id, min_clock : Clock]
NoReply == [clock |-> 0, view |-> {}, min_clock |-> 0]

------------------------------------------------------------------------------
(* The server.                                                             *)

EmptyBuckets == [k \in Clock |-> {}]
ZeroCounts == [k \in Clock |-> 0]
ZeroProgress == [w \in Workers |-> 0]

\* update(): every request that carries data is added to the store.
Update(store, reqs) ==
  [q \in DOMAIN store |->
     IF \E r \in reqs : r.data /\ r.id = q THEN store[q] + 1 ELSE store[q]]

\* retrieve(): the values read are the sum of the pushes added so far.
RetrieveBeforeUpdate(store) == {q \in DOMAIN store : store_[q] > 0}
Retrieve(store) == {q \in DOMAIN store : store[q] > 0}

\* Response() to a pull; a pull with an empty body is not answered.
Respond(reqs, store, clock) ==
  [w \in Workers |->
     IF \E r \in reqs : r.data /\ r.src = w
       THEN LET r == CHOOSE r \in reqs : r.data /\ r.src = w
            IN  [clock |-> r.id[3], view |-> Retrieve(store), min_clock |-> clock]
       ELSE pulled[w]]

\* init_count_ starts over when the Inits of all workers have been counted.
InitCountWithoutWrap(n) == init_count_ + 1
NextInitCount(n) == IF init_count_ + 1 = n THEN 0 ELSE init_count_ + 1

\* Process(), cmd 4: the first Init of an epoch resets the clocks and drops
\* whatever was blocked; every Init is answered at once.
ProcessInit(next_num_workers) ==
  LET n == IF init_count_ = 0 /\ next_num_workers # -1
             THEN next_num_workers ELSE num_workers_
  IN
  /\ num_workers_' = n
  /\ IF init_count_ = 0
       THEN /\ min_clock_' = 0
            /\ worker_progress_' = ZeroProgress
            /\ clock_count_' = ZeroCounts
            /\ blocked_pushes_' = EmptyBuckets
            /\ blocked_pulls_' = EmptyBuckets
       ELSE UNCHANGED <<min_clock_, worker_progress_, clock_count_,
                        blocked_pushes_, blocked_pulls_>>
  /\ init_count_' = NextInitCount(n)
  /\ UNCHANGED <<store_, pulled>>

\* The min_clock_ a request of a worker with this progress has to wait for.
ExpectedOneLater(progress) == progress - Staleness - 1
ExpectedWrongSign(progress) == progress + Staleness
expected_min_clock(progress) == progress - Staleness

StrictlyAcceptable(expected) == expected < min_clock_

\* Acceptable staleness: the request need not be blocked.
Acceptable(expected) == expected <= min_clock_

\* Every worker has pushed at min_clock_.
CollectedFromAllThreads(count) == count[min_clock_] = Cardinality(Workers)
Collected(count) == count[min_clock_] = num_workers_

\* process_push(): apply the push, and when it was the last one missing at
\* min_clock_, advance min_clock_ by one and release what waits for it,
\* first the pushes, then the pulls.
process_push(req, count) ==
  LET collected == Collected(count)
      next == min_clock_ + 1
      released == IF collected THEN blocked_pushes_[next] ELSE {}
      store == Update(store_, {req} \cup released)
  IN
  /\ store_' = store
  /\ IF collected
       THEN /\ min_clock_' = next
            /\ blocked_pushes_' = [blocked_pushes_ EXCEPT ![next] = {}]
            /\ blocked_pulls_' = [blocked_pulls_ EXCEPT ![next] = {}]
            /\ pulled' = Respond(blocked_pulls_[next], store, next)
       ELSE UNCHANGED <<min_clock_, blocked_pushes_, blocked_pulls_, pulled>>

\* Process(), push under consistency control.
ProcessPush(req) ==
  LET progress == worker_progress_[req.src]
      expected == expected_min_clock(progress)
      count == [clock_count_ EXCEPT ![progress] = @ + 1]
  IN
  /\ clock_count_' = count
  /\ worker_progress_' = [worker_progress_ EXCEPT ![req.src] = @ + 1]
  /\ IF Acceptable(expected)
       THEN process_push(req, count)
       ELSE /\ blocked_pushes_' =
                 [blocked_pushes_ EXCEPT ![expected] = @ \cup {req}]
            /\ UNCHANGED <<min_clock_, blocked_pulls_, store_, pulled>>
  /\ UNCHANGED <<num_workers_, init_count_>>

\* Process(), pull under consistency control.
ProcessPull(req) ==
  LET expected == expected_min_clock(worker_progress_[req.src]) IN
  /\ IF Acceptable(expected)
       THEN /\ pulled' = Respond({req}, store_, min_clock_)
            /\ UNCHANGED blocked_pulls_
       ELSE /\ blocked_pulls_' =
                 [blocked_pulls_ EXCEPT ![expected] = @ \cup {req}]
            /\ UNCHANGED pulled
  /\ UNCHANGED <<num_workers_, init_count_, min_clock_, worker_progress_,
                 clock_count_, blocked_pushes_, store_>>

\* Process(), push with cmd >= consistency_control_off_magic_: the store is
\* written at once and the clocks are left alone.  (Such a pull only reads.)
ProcessPushOff(req) ==
  /\ store_' = Update(store_, {req})
  /\ UNCHANGED <<control, pulled>>

------------------------------------------------------------------------------
(* The workers, as far as the server sees them, and the epochs.            *)

\* A worker waits for the answer to a pull before it does anything else.
Waiting(w) == \E k \in Clock : \E r \in blocked_pulls_[k] : r.src = w /\ r.data

\* PSWorker passes the size of its instance; the default argument is -1.
NextNumWorkers ==
  {Cardinality(members)}
    \cup (IF num_workers_ = Cardinality(members) THEN {-1} ELSE {})

InitForConsistencyControl(w) ==
  /\ w \in members \ inited
  /\ inited' = inited \cup {w}
  /\ \E n \in NextNumWorkers : ProcessInit(n)
  /\ UNCHANGED <<members, epoch, sent>>

\* Pushes are not waited for: a worker may push again while one is blocked.
Push(w, data) ==
  LET id == <<epoch, w, worker_progress_[w]>> IN
  /\ w \in inited
  /\ ~Waiting(w)
  /\ worker_progress_[w] < MaxPushes[epoch]
  /\ ProcessPush([src |-> w, id |-> id, data |-> data])
  /\ sent' = IF data THEN sent \cup {id} ELSE sent
  /\ UNCHANGED env

Pull(w, data) ==
  /\ w \in inited
  /\ ~Waiting(w)
  /\ ProcessPull([src |-> w, id |-> <<epoch, w, worker_progress_[w]>>,
                  data |-> data])
  /\ UNCHANGED <<env, sent>>

PushOff(w) ==
  LET id == <<epoch, w, NoClock>> IN
  /\ w \in inited
  /\ ~Waiting(w)
  /\ Cardinality({q \in Id : q[3] = NoClock /\ store_[q] > 0}) < MaxOff
  /\ ProcessPushOff([src |-> w, id |-> id, data |-> TRUE])
  /\ UNCHANGED <<env, sent>>

\* A request that some worker waits for is still blocked.
SomeoneWaits ==
  \E k \in Clock : \/ \E r \in blocked_pushes_[k] : r.data
                   \/ \E r \in blocked_pulls_[k] : r.data

\* The cluster manager starts the next instance when every thread of the last
\* one has returned, which PSWorker does with every request answered.
NewEpoch ==
  /\ epoch < MaxEpoch
  /\ inited = members
  /\ ~SomeoneWaits
  /\ epoch' = epoch + 1
  /\ members' \in (SUBSET Workers) \ {{}}
  /\ inited' = {}
  /\ pulled' = [w \in Workers |-> NoReply]
  /\ UNCHANGED <<control, store_, sent>>

\* A server is created for the num_workers of its table and may be used
\* without an Init message as long as that many workers use it.
Init ==
  /\ members \in (SUBSET Workers) \ {{}}
  /\ inited = members
  /\ epoch = 1
  /\ num_workers_ = Cardinality(members)
  /\ init_count_ = 0
  /\ min_clock_ = 0
  /\ worker_progress_ = ZeroProgress
  /\ clock_count_ = ZeroCounts
  /\ blocked_pushes_ = EmptyBuckets
  /\ blocked_pulls_ = EmptyBuckets
  /\ store_ = [q \in Id |-> 0]
  /\ sent = {}
  /\ pulled = [w \in Workers |-> NoReply]

Next ==
  \/ NewEpoch
  \/ \E w \in Workers :
       \/ InitForConsistencyControl(w)
       \/ \E data \in BOOLEAN : Push(w, data) \/ Pull(w, data)
       \/ PushOff(w)

Spec == Init /\ [][Next]_vars

\* Every worker of an instance sends its Init message and keeps pushing.
Fairness ==
  \A w \in Workers :
    /\ WF_vars(InitForConsistencyControl(w))
    /\ WF_vars(\E data \in BOOLEAN : Push(w, data))

FairSpec == Spec /\ Fairness
------------------------------------------------------------------------------
(* Properties.                                                             *)

\* The types of the state.  In particular min_clock_ and the bucket indices
\* stay inside the vectors they index, and init_count_ starts over in time.
TypeOK ==
  /\ members \in (SUBSET Workers) \ {{}}
  /\ inited \in SUBSET members
  /\ epoch \in Epoch
  /\ num_workers_ \in 1 .. Cardinality(Workers)
  /\ init_count_ \in 0 .. Cardinality(Workers) - 1
  /\ min_clock_ \in Clock
  /\ worker_progress_ \in [Workers -> Clock]
  /\ clock_count_ \in [Clock -> Nat]
  /\ blocked_pushes_ \in [Clock -> SUBSET Request]
  /\ blocked_pulls_ \in [Clock -> SUBSET Request]
  /\ store_ \in [Id -> Nat]
  /\ sent \in SUBSET Id
  /\ pulled \in [Workers -> Reply]

\* Stale synchronous parallel, the promise of the server: whatever a worker
\* reads at clock c contains every push that any worker of the instance makes
\* before clock c - staleness_.  None of them may turn up later.
BoundedStaleness ==
  \A w \in Workers : \A q \in sent :
    (q[1] = epoch /\ q[3] < pulled[w].clock - Staleness)
      => q \in pulled[w].view

\* min_clock_ is the progress of the slowest worker: the counters kept per
\* clock never run ahead of it (which would end an iteration early and index
\* clock_count_ out of bounds) nor fall behind it (which would strand the
\* requests that wait for it).
MinClockExact ==
  inited # {} =>
    /\ \A w \in members : worker_progress_[w] >= min_clock_
    /\ \E w \in members : worker_progress_[w] = min_clock_

\* The slowest worker is never blocked, so blocked workers never all wait
\* for one another.
SlowestNotBlocked ==
  \A w \in inited : worker_progress_[w] = min_clock_ =>
    \A k \in Clock : /\ \A r \in blocked_pushes_[k] : r.src # w
                     /\ \A r \in blocked_pulls_[k] : r.src # w

\* A bucket that min_clock_ has reached is empty: a request left in one is
\* never released, because process_push opens one bucket per step.
NothingStranded ==
  inited # {} =>
    \A k \in 0 .. min_clock_ : blocked_pushes_[k] = {} /\ blocked_pulls_[k] = {}

\* Neither does a request that nobody will ever release wait in a bucket, nor do
\* all workers wait for one another.
Unblocked == SlowestNotBlocked /\ NothingStranded

\* A blocked pull is answered as long as the workers keep pushing.
PullAnswered == \A w \in Workers : Waiting(w) ~> ~Waiting(w)

------------------------------------------------------------------------------
(* The abstract store, and how this server implements it.  Until the first *)
(* Init of an epoch the clocks are those of the last one.                  *)

Controlled == Epoch \X Workers \X Clock

StaleStoreOf == INSTANCE StaleStore WITH
  Pushes <- Controlled,
  Lead <- Staleness + 1,
  clock <- IF inited = {} THEN ZeroProgress ELSE worker_progress_,
  stored <- [q \in Controlled |-> store_[q]],
  answer <- [w \in Workers |-> [clock |-> pulled[w].clock,
                                view |-> pulled[w].view \cap Controlled,
                                label |-> pulled[w].min_clock]]

\* The server implements the abstract store: whatever it reads, blocks and
\* releases, each push is taken in once and no answer is too old, too new or
\* without the reader's own pushes, or labelled (min_clock_) with more than
\* it holds; the next instance finds nothing missing.
ImplementsStaleStore == StaleStoreOf!StoreSpec

------------------------------------------------------------------------------
(* The inductive invariant behind the safety properties.                   *)

\* The Inits of an epoch are counted from 0 and wrapped around at its end.
InitsCounted ==
  init_count_ = IF inited = members THEN 0 ELSE Cardinality(inited)

\* The server knows the number of workers of the instance.
SizeKnown == inited # {} => num_workers_ = Cardinality(members)

\* clock_count_[k] counts the workers that have pushed at clock k.
Past(k) == {w \in members : worker_progress_[w] > k}
CountsExact ==
  inited # {} => \A k \in Clock : clock_count_[k] = Cardinality(Past(k))

\* A blocked request lies ahead of min_clock_, in the bucket of its clock.
BucketsAhead ==
  inited # {} => \A k \in Clock :
    /\ \A r \in blocked_pushes_[k] :
         /\ k > min_clock_
         /\ r.id = <<epoch, r.src, k + Staleness>>
         /\ k + Staleness < worker_progress_[r.src]
    /\ \A r \in blocked_pulls_[k] :
         /\ k > min_clock_
         /\ r.id = <<epoch, r.src, k + Staleness>>
         /\ k + Staleness <= worker_progress_[r.src]

\* A push of this epoch has been counted, and is in the store or in the bucket
\* of its clock.
PushesKept ==
  \A q \in sent :
    /\ q[1] <= epoch
    /\ q[3] # NoClock
    /\ q[1] = epoch =>
         /\ inited # {}
         /\ q[3] < worker_progress_[q[2]]
         /\ \/ store_[q] > 0
            \/ \E k \in Clock : /\ q[3] = k + Staleness
                              /\ \E r \in blocked_pushes_[k] : r.id = q /\ r.data

\* What has been read was readable at some min_clock_ up to the current one.
ReadsDue ==
  \A w \in Workers :
    /\ pulled[w].min_clock <= min_clock_
    /\ pulled[w].clock - Staleness <= min_clock_
    /\ inited = {} => pulled[w] = NoReply

Inv ==
  /\ TypeOK
  /\ InitsCounted
  /\ SizeKnown
  /\ CountsExact
  /\ MinClockExact
  /\ BucketsAhead
  /\ PushesKept
  /\ ReadsDue
  /\ BoundedStaleness

(* What the refinement needs beyond Inv.                                   *)

\* Every push is in the store at most once, and only if it was made.
StoredOnce ==
  \A q \in Controlled : store_[q] <= 1 /\ (store_[q] = 1 => q \in sent)

\* A blocked push was made and has not been added yet.
BlockedOutside ==
  \A k \in Clock : \A r \in blocked_pushes_[k] :
    r.data => r.id \in sent /\ store_[r.id] = 0

\* The pushes of earlier epochs are all in the store.
EarlierStored == \A q \in sent : q[1] < epoch => store_[q] = 1

\* A worker that waits for a pull stays at the clock of that pull.
PullersStay ==
  \A k \in Clock : \A r \in blocked_pulls_[k] :
    r.data => /\ inited # {} /\ r.src \in members
              /\ worker_progress_[r.src] = k + Staleness

\* No push is added too early: not before min_clock_ is within the staleness.
StoredDue ==
  \A q \in sent : q[1] = epoch /\ store_[q] = 1 => q[3] - Staleness <= min_clock_

StoreInv == /\ Inv /\ StoredOnce /\ BlockedOutside /\ EarlierStored
            /\ PullersStay /\ StoredDue
==============================================================================
