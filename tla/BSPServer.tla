------------------------------ MODULE BSPServer ------------------------------
(***************************************************************************)
(* The bulk-synchronous-parallel handler of one server partition of the    *)
(* KV store, kvstore/handles/bsp_server.hpp.                               *)
(*                                                                         *)
(* The server alternates between a reply phase, in which it answers the    *)
(* pulls of iteration pull_iter_ and buffers pushes, and a push phase, in  *)
(* which it applies the pushes of iteration push_iter_ and buffers pulls.  *)
(* As in SSPServer, one message is one action, an epoch is one instance of *)
(* a task, and a request that does not touch the partition has no data, is *)
(* not answered and is not waited for: its sender may run ahead.           *)
(***************************************************************************)
EXTENDS Integers, FiniteSets

CONSTANTS
  Workers,   \* the worker threads of the cluster
  MaxIter,   \* bound: pushes (and pulls) of one worker in one epoch
  MaxEpoch,  \* bound: epochs
  MaxOff     \* bound: workers that push without control, over all epochs

ASSUME BSPAssumption ==
  /\ Workers # {} /\ IsFiniteSet(Workers)
  /\ MaxIter \in Nat
  /\ MaxEpoch \in Nat \ {0}
  /\ MaxOff \in Nat

VARIABLES
  members,          \* the worker threads of the running instance
  inited,           \* the members whose Init message has been processed
  epoch,            \* number of the running instance
  init_reply_phase_,  \* the workers start with a Pull
  num_workers_,
  init_count_,
  reply_phase_,
  push_iter_, push_count_, push_progress_, blocked_pushes_,
  pull_iter_, pull_count_, pull_progress_, blocked_pulls_,
  store_,           \* how often each push has been added to the partition
  sent,             \* history: the pushes with data received so far
  pulled            \* history: the last answer to a pull in this epoch

env == <<members, inited, epoch, init_reply_phase_>>
pushState == <<push_iter_, push_count_, push_progress_, blocked_pushes_>>
pullState == <<pull_iter_, pull_count_, pull_progress_, blocked_pulls_>>
control == <<num_workers_, init_count_, reply_phase_, pushState, pullState>>
vars == <<env, control, store_, sent, pulled>>

Iter == 0 .. MaxIter
Epoch == 1 .. MaxEpoch

NoIter == -1   \* the iteration of an uncontrolled push

\* A request is identified by its epoch, its source and its iteration.
Id == Epoch \X Workers \X (Iter \cup {NoIter})
Request == [src : Workers, id : Id, data : BOOLEAN]

Reply == [iter : Iter \cup {NoIter}, view : SUBSET Id]
NoReply == [iter |-> NoIter, view |-> {}]

------------------------------------------------------------------------------
(* The server.                                                             *)

EmptyBuckets == [k \in Iter |-> {}]
ZeroCounts == [k \in Iter |-> 0]
ZeroProgress == [w \in Workers |-> 0]

\* update() and retrieve(), and Response() to a pull.
Update(store, reqs) ==
  [q \in DOMAIN store |->
     IF \E r \in reqs : r.data /\ r.id = q THEN store[q] + 1 ELSE store[q]]

Retrieve(store) == {q \in DOMAIN store : store[q] > 0}

Respond(reqs, store) ==
  [w \in Workers |->
     IF \E r \in reqs : r.data /\ r.src = w
       THEN LET r == CHOOSE r \in reqs : r.data /\ r.src = w
            IN  [iter |-> r.id[3], view |-> Retrieve(store)]
       ELSE pulled[w]]

\* init_count_ starts over when the Inits of all workers have been counted.
InitCountWithoutWrap(n) == init_count_ + 1
NextInitCount(n) == IF init_count_ + 1 = n THEN 0 ELSE init_count_ + 1

\* Process(), cmd 4: the first Init of an epoch resets the iterations and
\* drops whatever was buffered.
ProcessInit(next_num_workers) ==
  LET n == IF init_count_ = 0 /\ next_num_workers # -1
             THEN next_num_workers ELSE num_workers_
  IN
  /\ num_workers_' = n
  /\ IF init_count_ = 0
       THEN /\ push_iter_' = 0                     /\ pull_iter_' = 0
            /\ push_count_' = ZeroCounts           /\ pull_count_' = ZeroCounts
            /\ push_progress_' = ZeroProgress      /\ pull_progress_' = ZeroProgress
            /\ blocked_pushes_' = EmptyBuckets     /\ blocked_pulls_' = EmptyBuckets
            /\ reply_phase_' = init_reply_phase_
       ELSE UNCHANGED <<pushState, pullState, reply_phase_>>
  /\ init_count_' = NextInitCount(n)
  /\ UNCHANGED <<store_, pulled>>

\* "if in reply phase or the progress is too advanced, buffer it"
BuffersPushOfNow(progress) == reply_phase_ \/ push_iter_ <= progress
BuffersPush(progress) == reply_phase_ \/ push_iter_ # progress
BuffersPullInPhaseOnly(progress) == ~reply_phase_
BuffersPull(progress) == ~reply_phase_ \/ pull_iter_ # progress

\* The last push (pull) of the current iteration has arrived.
CollectedFromAllThreads(count, iter) == count[iter] = Cardinality(Workers)
CollectedAll(count, iter) == count[iter] = num_workers_

\* Process(), push: apply it or buffer it; the last one of the iteration
\* answers the buffered pulls and opens the reply phase.
ProcessPush(req) ==
  LET progress == push_progress_[req.src]
      count == [push_count_ EXCEPT ![progress] = @ + 1]
      store == Update(store_, {req})
  IN
  /\ push_count_' = count
  /\ push_progress_' = [push_progress_ EXCEPT ![req.src] = @ + 1]
  /\ IF BuffersPush(progress)
       THEN /\ blocked_pushes_' = [blocked_pushes_ EXCEPT ![progress] = @ \cup {req}]
            /\ UNCHANGED <<push_iter_, reply_phase_, blocked_pulls_, store_, pulled>>
       ELSE /\ store_' = store
            /\ UNCHANGED blocked_pushes_
            /\ IF CollectedAll(count, push_iter_)
                 THEN /\ pulled' = Respond(blocked_pulls_[pull_iter_], store)
                      /\ blocked_pulls_' = [blocked_pulls_ EXCEPT ![pull_iter_] = {}]
                      /\ reply_phase_' = TRUE
                      /\ push_iter_' = push_iter_ + 1
                 ELSE UNCHANGED <<push_iter_, reply_phase_, blocked_pulls_, pulled>>
  /\ UNCHANGED <<num_workers_, init_count_, pull_iter_, pull_count_, pull_progress_>>

\* Process(), pull: answer it or buffer it; the last one of the iteration
\* applies the buffered pushes and opens the push phase.
ProcessPull(req) ==
  LET progress == pull_progress_[req.src]
      count == [pull_count_ EXCEPT ![progress] = @ + 1]
  IN
  /\ pull_count_' = count
  /\ pull_progress_' = [pull_progress_ EXCEPT ![req.src] = @ + 1]
  /\ IF BuffersPull(progress)
       THEN /\ blocked_pulls_' = [blocked_pulls_ EXCEPT ![progress] = @ \cup {req}]
            /\ UNCHANGED <<pull_iter_, reply_phase_, blocked_pushes_, store_, pulled>>
       ELSE /\ pulled' = Respond({req}, store_)
            /\ UNCHANGED blocked_pulls_
            /\ IF CollectedAll(count, pull_iter_)
                 THEN /\ store_' = Update(store_, blocked_pushes_[push_iter_])
                      /\ blocked_pushes_' = [blocked_pushes_ EXCEPT ![push_iter_] = {}]
                      /\ reply_phase_' = FALSE
                      /\ pull_iter_' = pull_iter_ + 1
                 ELSE UNCHANGED <<pull_iter_, reply_phase_, blocked_pushes_, store_>>
  /\ UNCHANGED <<num_workers_, init_count_, push_iter_, push_count_, push_progress_>>

\* Process(), push with cmd >= consistency_control_off_magic_: the store is
\* written at once, whatever the phase.  (Such a pull only reads.)
ProcessPushOff(req) ==
  /\ store_' = Update(store_, {req})
  /\ UNCHANGED <<control, pulled>>

------------------------------------------------------------------------------
(* The workers, as far as the server sees them, and the epochs.            *)

\* PSWorker waits for every request that is answered.
Waiting(w) == \E k \in Iter : \E r \in blocked_pushes_[k] \cup blocked_pulls_[k] :
                r.src = w /\ r.data

\* PSWorker asserts that its Pull and Push calls alternate.
NextIsPull(w) == IF init_reply_phase_ THEN pull_progress_[w] = push_progress_[w]
                                      ELSE pull_progress_[w] < push_progress_[w]

\* PSWorker passes the size of its instance; the default argument is -1.
NextNumWorkers ==
  {Cardinality(members)}
    \cup (IF num_workers_ = Cardinality(members) THEN {-1} ELSE {})

InitForConsistencyControl(w) ==
  /\ w \in members \ inited
  /\ inited' = inited \cup {w}
  /\ \E n \in NextNumWorkers : ProcessInit(n)
  /\ UNCHANGED <<members, epoch, init_reply_phase_, sent>>

Push(w, data) ==
  LET id == <<epoch, w, push_progress_[w]>> IN
  /\ w \in inited
  /\ ~Waiting(w)
  /\ ~NextIsPull(w)
  /\ push_progress_[w] < MaxIter
  /\ ProcessPush([src |-> w, id |-> id, data |-> data])
  /\ sent' = IF data THEN sent \cup {id} ELSE sent
  /\ UNCHANGED env

Pull(w, data) ==
  /\ w \in inited
  /\ ~Waiting(w)
  /\ NextIsPull(w)
  /\ pull_progress_[w] < MaxIter
  /\ ProcessPull([src |-> w, id |-> <<epoch, w, pull_progress_[w]>>, data |-> data])
  /\ UNCHANGED <<env, sent>>

PushOff(w) ==
  LET id == <<epoch, w, NoIter>> IN
  /\ w \in inited
  /\ ~Waiting(w)
  /\ Cardinality({q \in Id : q[3] = NoIter /\ store_[q] > 0}) < MaxOff
  /\ ProcessPushOff([src |-> w, id |-> id, data |-> TRUE])
  /\ UNCHANGED <<env, sent>>

\* The next instance starts when every thread of the last one has returned.
NewEpoch ==
  /\ epoch < MaxEpoch
  /\ inited = members
  /\ \A w \in members : ~Waiting(w)
  /\ epoch' = epoch + 1
  /\ members' \in (SUBSET Workers) \ {{}}
  /\ inited' = {}
  /\ pulled' = [w \in Workers |-> NoReply]
  /\ UNCHANGED <<control, init_reply_phase_, store_, sent>>

\* reply_phase_ is true in a new server whatever init_reply_phase_ is, so only
\* workers that start with a Pull can do without the Init message.
Init ==
  /\ members \in (SUBSET Workers) \ {{}}
  /\ init_reply_phase_ \in BOOLEAN
  /\ inited \in IF init_reply_phase_ THEN {{}, members} ELSE {{}}
  /\ epoch = 1
  /\ num_workers_ = Cardinality(members)
  /\ init_count_ = 0
  /\ reply_phase_ = TRUE
  /\ push_iter_ = 0                    /\ pull_iter_ = 0
  /\ push_count_ = ZeroCounts          /\ pull_count_ = ZeroCounts
  /\ push_progress_ = ZeroProgress     /\ pull_progress_ = ZeroProgress
  /\ blocked_pushes_ = EmptyBuckets    /\ blocked_pulls_ = EmptyBuckets
  /\ store_ = [q \in Id |-> 0]
  /\ sent = {}
  /\ pulled = [w \in Workers |-> NoReply]

Next ==
  \/ NewEpoch
  \/ \E w \in Workers :
       \/ InitForConsistencyControl(w)
       \/ \E data \in BOOLEAN : Push(w, data) \/ Pull(w, data)
       \/ PushOff(w)

Spec == Init /\ [][Next]_vars

\* Every worker of an instance sends its Init message and runs all iterations.
Fairness ==
  \A w \in Workers :
    /\ WF_vars(InitForConsistencyControl(w))
    /\ WF_vars(\E data \in BOOLEAN : Push(w, data) \/ Pull(w, data))

FairSpec == Spec /\ Fairness
------------------------------------------------------------------------------
(* Properties.                                                             *)

\* The phase always has something left to wait for: were the last push (pull)
\* of the iteration buffered instead of processed, nothing would ever open
\* the next phase, because only a request that is processed tests the count.
PhaseCanEnd ==
  inited # {} =>
    IF reply_phase_ THEN pull_count_[pull_iter_] < num_workers_
                    ELSE push_count_[push_iter_] < num_workers_

\* A worker that waits is answered as long as the others go on.
RequestAnswered == \A w \in Workers : Waiting(w) ~> ~Waiting(w)

------------------------------------------------------------------------------
(* The abstract store, and how this server implements it.  A read of       *)
(* iteration k happens at clock k, or k + 1 when the workers push first.   *)

Controlled == Epoch \X Workers \X Iter

StaleStoreOf == INSTANCE StaleStore WITH
  Pushes <- Controlled,
  Staleness <- 0,
  Lead <- 0,
  clock <- IF inited = {} THEN ZeroProgress ELSE push_progress_,
  stored <- [q \in Controlled |-> store_[q]],
  answer <- [w \in Workers |->
    IF pulled[w] = NoReply THEN [clock |-> 0, view |-> {}, label |-> 0]
    ELSE [clock |-> pulled[w].iter + IF init_reply_phase_ THEN 0 ELSE 1,
          view |-> pulled[w].view \cap Controlled, label |-> 0]]

\* The server implements the abstract store with no slack: bulk synchronous
\* parallel is the stale store whose answers are exactly the pushes of the
\* iterations before, each taken in once.
ImplementsStaleStore == StaleStoreOf!StoreSpec
------------------------------------------------------------------------------
(* The inductive invariant behind PhaseCanEnd and the refinement.          *)

\* The types of the state; the iterations stay inside the vectors they index.
TypeOK ==
  /\ members \in (SUBSET Workers) \ {{}}
  /\ inited \in SUBSET members
  /\ epoch \in Epoch
  /\ init_reply_phase_ \in BOOLEAN /\ reply_phase_ \in BOOLEAN
  /\ num_workers_ \in 1 .. Cardinality(Workers)
  /\ init_count_ \in 0 .. Cardinality(Workers) - 1
  /\ push_iter_ \in Iter /\ pull_iter_ \in Iter
  /\ push_count_ \in [Iter -> Nat] /\ pull_count_ \in [Iter -> Nat]
  /\ push_progress_ \in [Workers -> Iter] /\ pull_progress_ \in [Workers -> Iter]
  /\ blocked_pushes_ \in [Iter -> SUBSET Request]
  /\ blocked_pulls_ \in [Iter -> SUBSET Request]
  /\ store_ \in [Id -> Nat]
  /\ sent \in SUBSET Id
  /\ pulled \in [Workers -> Reply]

\* The Inits of an epoch are counted from 0, and the first one leaves the
\* server with the size of the instance.
InitsCounted ==
  init_count_ = IF inited = members THEN 0 ELSE Cardinality(inited)
SizeKnown == inited # {} => num_workers_ = Cardinality(members)

\* The counts of an iteration are the workers past it.
Past(progress, k) == {w \in members : progress[w] > k}
CountsExact ==
  inited # {} => \A k \in Iter :
    /\ push_count_[k] = Cardinality(Past(push_progress_, k))
    /\ pull_count_[k] = Cardinality(Past(pull_progress_, k))

\* The calls of a worker alternate.
Alternate ==
  inited # {} => \A w \in members :
    IF init_reply_phase_
      THEN push_progress_[w] <= pull_progress_[w] /\ pull_progress_[w] <= push_progress_[w] + 1
      ELSE pull_progress_[w] <= push_progress_[w] /\ push_progress_[w] <= pull_progress_[w] + 1

\* So do the phases.
PhasesAlternate ==
  inited # {} =>
    IF init_reply_phase_ THEN pull_iter_ = push_iter_ + (IF reply_phase_ THEN 0 ELSE 1)
                         ELSE push_iter_ = pull_iter_ + (IF reply_phase_ THEN 1 ELSE 0)

\* No worker is behind the current iterations, and at least one has not made
\* the request that the phase waits for.
NoneBehind ==
  inited # {} => \A w \in members :
    push_iter_ <= push_progress_[w] /\ pull_iter_ <= pull_progress_[w]
SomeoneAwaited ==
  inited # {} => \E w \in members :
    IF reply_phase_ THEN pull_progress_[w] = pull_iter_ ELSE push_progress_[w] = push_iter_

Inv ==
  /\ TypeOK /\ InitsCounted /\ SizeKnown /\ CountsExact /\ Alternate
  /\ PhasesAlternate /\ NoneBehind /\ SomeoneAwaited

\* The pushes of an iteration before this one are in the store.  Those of this
\* iteration are, in the push phase.
Applied(k) == IF reply_phase_ THEN k < push_iter_ ELSE k <= push_iter_

\* A buffered request lies in the bucket of its iteration; a buffered push has
\* not been added yet, and a worker that waits for a pull does not push.
Buffered ==
  \A k \in Iter :
    /\ \A r \in blocked_pushes_[k] :
         /\ inited # {} => ~Applied(k) /\ r.id = <<epoch, r.src, k>>
         /\ r.data => inited # {} /\ r.src \in members /\ r.id \in sent /\ store_[r.id] = 0
    /\ \A r \in blocked_pulls_[k] :
         /\ inited # {} => r.id = <<epoch, r.src, k>>
         /\ r.data => /\ inited # {} /\ r.src \in members
                      /\ push_progress_[r.src] = k + IF init_reply_phase_ THEN 0 ELSE 1

\* A push of this epoch is in the store if its iteration is due, and in the
\* bucket of its iteration if not.
PushesPlaced ==
  \A q \in sent :
    /\ q[1] <= epoch
    /\ q[3] # NoIter
    /\ q[1] = epoch =>
         /\ inited # {}
         /\ q[3] < push_progress_[q[2]]
         /\ IF Applied(q[3]) THEN store_[q] = 1
            ELSE store_[q] = 0 /\ \E r \in blocked_pushes_[q[3]] : r.id = q /\ r.data

\* Every push is in the store at most once, and only if it was made; those of
\* earlier epochs all are.
StoredOnce ==
  \A q \in Controlled : store_[q] <= 1 /\ (store_[q] = 1 => q \in sent)
EarlierStored == \A q \in sent : q[1] < epoch => store_[q] = 1

StoreInv == Inv /\ Buffered /\ PushesPlaced /\ StoredOnce /\ EarlierStored
=============================================================================
