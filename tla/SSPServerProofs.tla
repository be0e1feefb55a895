--------------------------- MODULE SSPServerProofs ---------------------------
(***************************************************************************)
(* Proofs about SSPServer for every set of workers, staleness and bound.   *)
(*                                                                         *)
(* The counters are the heart of it: clock_count_[k] is the number of      *)
(* workers past clock k (CountsExact), so min_clock_ advances exactly when *)
(* the slowest worker does (MinClockExact).  From there, requests blocked  *)
(* ahead of min_clock_ (BucketsAhead) can be no older than min_clock_, so  *)
(* every push below min_clock_ is in the store (PushesKept) when a read    *)
(* that needs it is answered (BoundedStaleness).                           *)
(***************************************************************************)
EXTENDS SSPServer, FiniteSetTheorems, TLAPS

------------------------------------------------------------------------------
(* Facts about the operators.                                              *)

\* The size of an instance is between 1 and the size of the cluster.
LEMMA MembersSize ==
  ASSUME NEW S \in (SUBSET Workers) \ {{}}
  PROVE  /\ IsFiniteSet(S)
         /\ Cardinality(S) \in 1 .. Cardinality(Workers)
<1>1. IsFiniteSet(S) /\ Cardinality(S) <= Cardinality(Workers)
  BY FS_Subset, SSPAssumption
<1>2. Cardinality(S) \in Nat /\ Cardinality(S) # 0
  BY <1>1, FS_CardinalityType, FS_EmptySet
<1>3. Cardinality(Workers) \in Nat
  BY FS_CardinalityType, SSPAssumption
<1> QED BY <1>1, <1>2, <1>3

\* update() only adds, and adds every request that carries data.
LEMMA UpdateAdds ==
  ASSUME NEW store \in [Id -> Nat], NEW reqs \in SUBSET Request
  PROVE  /\ Update(store, reqs) \in [Id -> Nat]
         /\ \A q \in Id : store[q] > 0 => Update(store, reqs)[q] > 0
         /\ \A r \in reqs : r.data => Update(store, reqs)[r.id] > 0
BY DEF Update, Request

\* Response() changes only the answers of the workers that asked.
LEMMA RespondAnswers ==
  ASSUME NEW reqs \in SUBSET Request, NEW store \in [Id -> Nat], NEW clock \in Clock,
         NEW w \in Workers, NEW reply, reply = Respond(reqs, store, clock)[w]
  PROVE  \/ reply = pulled[w]
         \/ \E r \in reqs : /\ r.src = w
                            /\ reply.clock = r.id[3]
                            /\ reply.view = Retrieve(store)
                            /\ reply.min_clock = clock
BY DEF Respond

\* Response() yields answers of the right type.
LEMMA RespondType ==
  ASSUME NEW reqs \in SUBSET Request, NEW store \in [Id -> Nat], NEW clock \in Clock,
         pulled \in [Workers -> Reply]
  PROVE  Respond(reqs, store, clock) \in [Workers -> Reply]
<1>1. ASSUME NEW w \in Workers PROVE Respond(reqs, store, clock)[w] \in Reply
  <2>1. CASE Respond(reqs, store, clock)[w] = pulled[w]
    BY <2>1
  <2>2. ASSUME NEW r \in reqs,
               Respond(reqs, store, clock)[w] =
                 [clock |-> r.id[3], view |-> Retrieve(store), min_clock |-> clock]
        PROVE  Respond(reqs, store, clock)[w] \in Reply
    <3>1. r.id[3] \in Clock \cup {NoClock}
      BY DEF Request, Id
    <3>2. Retrieve(store) \in SUBSET Id
      BY DEF Retrieve
    <3> QED BY <2>2, <3>1, <3>2 DEF Reply
  <2>3. \/ Respond(reqs, store, clock)[w] = pulled[w]
        \/ \E r \in reqs : Respond(reqs, store, clock)[w] =
             [clock |-> r.id[3], view |-> Retrieve(store), min_clock |-> clock]
    BY DEF Respond
  <2> QED BY <2>1, <2>2, <2>3
<1> QED BY <1>1 DEF Respond
------------------------------------------------------------------------------
(* The counters.                                                           *)

\* A push at clock p is counted at p and nowhere else.
LEMMA PushCounted ==
  ASSUME TypeOK, CountsExact, NEW w \in inited,
         worker_progress_[w] < MaxClock,
         members' = members, inited' = inited,
         worker_progress_' = [worker_progress_ EXCEPT ![w] = @ + 1],
         clock_count_' = [clock_count_ EXCEPT ![worker_progress_[w]] = @ + 1]
  PROVE  CountsExact'
<1> DEFINE p == worker_progress_[w]
<1>1. w \in members /\ w \in Workers /\ p \in Clock /\ inited # {}
  BY DEF TypeOK
<1>2. SUFFICES ASSUME NEW k \in Clock
               PROVE  clock_count_'[k] = Cardinality(Past(k)')
  BY DEF CountsExact
<1>3. clock_count_[k] = Cardinality(Past(k))
  BY <1>1 DEF CountsExact
<1>4. CASE k = p
  <2>1. Past(k)' = Past(k) \cup {w} /\ w \notin Past(k)
    BY <1>1, <1>4 DEF Past, TypeOK, Clock
  <2>2. IsFiniteSet(Past(k))
    BY FS_Subset, MembersSize DEF Past, TypeOK
  <2>3. Cardinality(Past(k)') = Cardinality(Past(k)) + 1
    BY <2>1, <2>2, FS_AddElement
  <2> QED BY <1>3, <1>4, <2>3 DEF TypeOK
<1>5. CASE k # p
  <2>1. Past(k)' = Past(k)
    BY <1>1, <1>5 DEF Past, TypeOK, Clock
  <2> QED BY <1>1, <1>3, <1>5, <2>1 DEF TypeOK
<1> QED BY <1>4, <1>5

\* A count is full exactly when every worker is past its clock.
LEMMA FullCount ==
  ASSUME NEW S, IsFiniteSet(S), NEW f, NEW k
  PROVE  Cardinality({w \in S : f[w] > k}) = Cardinality(S) <=> \A w \in S : f[w] > k
BY FS_Subset

\* Pushes at or below min_clock_ are in the store.
LEMMA AppliedBelow ==
  ASSUME TypeOK, BucketsAhead, PushesKept,
         NEW q \in sent, q[1] = epoch, q[3] <= min_clock_
  PROVE  store_[q] > 0
<1>1. inited # {}
  BY DEF PushesKept
<1>2. ASSUME NEW k \in Clock, q[3] = k + Staleness,
             NEW r \in blocked_pushes_[k]
      PROVE  FALSE
  BY <1>1, <1>2, SSPAssumption DEF BucketsAhead, TypeOK, Clock
<1> QED BY <1>2 DEF PushesKept

------------------------------------------------------------------------------
(* Every step preserves the invariant.                                     *)

\* An InitForConsistencyControl message, the first of its epoch or a later
\* one, preserves the invariant: the reset drops nothing that is still needed.
LEMMA InitStep ==
  ASSUME Inv, NEW w \in Workers, InitForConsistencyControl(w)
  PROVE  Inv'
<1> USE DEF Inv
<1>1. PICK n \in NextNumWorkers : ProcessInit(n)
  BY DEF InitForConsistencyControl
<1>2. /\ w \in members \ inited /\ inited' = inited \cup {w}
      /\ UNCHANGED <<members, epoch, sent, store_, pulled>>
  BY <1>1 DEF InitForConsistencyControl, ProcessInit
<1>3. /\ IsFiniteSet(members) /\ Cardinality(members) \in 1 .. Cardinality(Workers)
      /\ IsFiniteSet(inited) /\ Cardinality(inited) \in Nat
      /\ Cardinality(Workers) \in Nat
  <2>1. IsFiniteSet(members) /\ Cardinality(members) \in 1 .. Cardinality(Workers)
    BY MembersSize DEF TypeOK
  <2>2. IsFiniteSet(inited)
    BY <2>1, FS_Subset DEF TypeOK
  <2> QED BY <2>1, <2>2, FS_CardinalityType, SSPAssumption
<1>4. init_count_ = Cardinality(inited) /\ (init_count_ = 0 <=> inited = {})
  BY <1>2, <1>3, FS_EmptySet DEF InitsCounted
<1>5. num_workers_' = Cardinality(members)
  <2>1. n = Cardinality(members) \/ num_workers_ = Cardinality(members)
    BY DEF NextNumWorkers
  <2>2. init_count_ # 0 => num_workers_ = Cardinality(members)
    BY <1>4 DEF SizeKnown
  <2>3. n # -1 => n = Cardinality(members)
    BY DEF NextNumWorkers
  <2> QED BY <1>1, <2>1, <2>2, <2>3, <1>3 DEF ProcessInit, NextNumWorkers
<1>6. /\ Cardinality(inited') = init_count_ + 1
      /\ Cardinality(inited') <= Cardinality(members)
      /\ inited' = members <=> init_count_ + 1 = Cardinality(members)
  <2>1. Cardinality(inited') = init_count_ + 1
    BY <1>2, <1>3, <1>4, FS_AddElement
  <2>2. inited' \in SUBSET members
    BY <1>2 DEF TypeOK
  <2> QED BY <2>1, <2>2, <1>3, FS_Subset
<1>7. init_count_' = IF init_count_ + 1 = Cardinality(members) THEN 0 ELSE init_count_ + 1
  BY <1>1, <1>5 DEF ProcessInit, NextInitCount
<1>8. InitsCounted' /\ SizeKnown'
  BY <1>2, <1>5, <1>6, <1>7 DEF InitsCounted, SizeKnown
<1>9. init_count_' \in 0 .. Cardinality(Workers) - 1
  BY <1>3, <1>4, <1>6, <1>7
<1>10. CASE init_count_ = 0
  <2>1. /\ min_clock_' = 0 /\ worker_progress_' = ZeroProgress
        /\ clock_count_' = ZeroCounts
        /\ blocked_pushes_' = EmptyBuckets /\ blocked_pulls_' = EmptyBuckets
    BY <1>1, <1>10 DEF ProcessInit
  <2>2. inited = {}
    BY <1>4, <1>10
  <2>3. TypeOK'
    BY <1>2, <1>3, <1>5, <1>9, <2>1, SSPAssumption
    DEF TypeOK, Clock, ZeroProgress, ZeroCounts, EmptyBuckets
  <2>4. CountsExact'
    <3>1. \A k \in Clock : Past(k)' = {}
      BY <1>2, <2>1 DEF Past, ZeroProgress, Clock, TypeOK
    <3> QED BY <2>1, <3>1, FS_EmptySet DEF CountsExact, ZeroCounts
  <2>5. MinClockExact'
    BY <1>2, <2>1 DEF MinClockExact, ZeroProgress, TypeOK
  <2>6. BucketsAhead'
    BY <2>1 DEF BucketsAhead, EmptyBuckets
  <2>7. PushesKept'
    BY <1>2, <2>2 DEF PushesKept
  <2>8. ReadsDue'
    BY <1>2, <2>1, <2>2, SSPAssumption DEF ReadsDue, NoReply
  <2>9. BoundedStaleness'
    BY <1>2 DEF BoundedStaleness
  <2> QED BY <1>8, <2>3, <2>4, <2>5, <2>6, <2>7, <2>8, <2>9
<1>11. CASE init_count_ # 0
  <2>1. UNCHANGED <<min_clock_, worker_progress_, clock_count_, blocked_pushes_, blocked_pulls_>>
    BY <1>1, <1>11 DEF ProcessInit
  <2>2. inited # {} /\ inited' # {}
    BY <1>2, <1>4, <1>11
  <2>3. TypeOK'
    BY <1>2, <1>3, <1>5, <1>9, <2>1 DEF TypeOK
  <2>4. CountsExact'
    BY <1>2, <2>1, <2>2 DEF CountsExact, Past
  <2>5. MinClockExact'
    BY <1>2, <2>1, <2>2 DEF MinClockExact
  <2>6. BucketsAhead'
    BY <1>2, <2>1, <2>2 DEF BucketsAhead
  <2>7. PushesKept'
    BY <1>2, <2>1, <2>2 DEF PushesKept
  <2>8. ReadsDue'
    BY <1>2, <2>1, <2>2 DEF ReadsDue
  <2>9. BoundedStaleness'
    BY <1>2 DEF BoundedStaleness
  <2> QED BY <1>8, <2>3, <2>4, <2>5, <2>6, <2>7, <2>8, <2>9
<1> QED BY <1>10, <1>11

\* Starting the next instance preserves the invariant.
LEMMA NewEpochStep ==
  ASSUME Inv, NewEpoch
  PROVE  Inv'
<1> USE DEF Inv
<1>1. /\ epoch' = epoch + 1 /\ epoch < MaxEpoch /\ inited' = {} /\ inited = members
      /\ members' \in (SUBSET Workers) \ {{}}
      /\ pulled' = [v \in Workers |-> NoReply]
      /\ UNCHANGED <<control, store_, sent>>
  BY DEF NewEpoch
<1>2. TypeOK'
  <2>1. NoReply \in Reply
    BY SSPAssumption DEF NoReply, Reply, Clock
  <2> QED BY <1>1, <2>1, SSPAssumption DEF TypeOK, Epoch, control
<1>3. InitsCounted'
  BY <1>1, FS_EmptySet DEF InitsCounted, control
<1>4. PushesKept'
  BY <1>1, SSPAssumption DEF PushesKept, TypeOK, Epoch, Id
<1>5. ReadsDue'
  <2>1. min_clock_' \in Clock /\ \A v \in Workers : pulled'[v] = NoReply
    BY <1>1 DEF TypeOK, control
  <2> QED BY <2>1, SSPAssumption DEF ReadsDue, NoReply, Clock
<1>6. BoundedStaleness'
  BY <1>1, SSPAssumption DEF BoundedStaleness, PushesKept, TypeOK, Epoch, Id
<1>7. SizeKnown' /\ CountsExact' /\ MinClockExact' /\ BucketsAhead'
  BY <1>1 DEF SizeKnown, CountsExact, MinClockExact, BucketsAhead
<1> QED BY <1>2, <1>3, <1>4, <1>5, <1>6, <1>7

\* A push outside consistency control preserves the invariant.
LEMMA PushOffStep ==
  ASSUME Inv, NEW w \in Workers, PushOff(w)
  PROVE  Inv'
<1> USE DEF Inv
<1> DEFINE req == [src |-> w, id |-> <<epoch, w, NoClock>>, data |-> TRUE]
<1>1. store_' = Update(store_, {req}) /\ UNCHANGED <<env, control, sent, pulled>>
  BY DEF PushOff, ProcessPushOff
<1>2. {req} \in SUBSET Request
  BY DEF Request, Id, TypeOK
<1>3. store_' \in [Id -> Nat] /\ \A q \in Id : store_[q] > 0 => store_'[q] > 0
  BY <1>1, <1>2, UpdateAdds DEF TypeOK
<1>4. TypeOK'
  BY <1>1, <1>3 DEF TypeOK, env, control
<1>5. PushesKept'
  BY <1>1, <1>3 DEF PushesKept, env, control, TypeOK
<1> QED
  BY <1>1, <1>4, <1>5 DEF env, control, InitsCounted, SizeKnown, CountsExact, Past,
     MinClockExact, BucketsAhead, ReadsDue, BoundedStaleness

\* A pull, answered at once or blocked, preserves the invariant.
LEMMA PullStep ==
  ASSUME Inv, NEW w \in Workers, NEW data \in BOOLEAN, Pull(w, data)
  PROVE  Inv'
<1> USE DEF Inv
<1> DEFINE p == worker_progress_[w]
           req == [src |-> w, id |-> <<epoch, w, p>>, data |-> data]
           e == expected_min_clock(p)
<1>1. /\ w \in inited /\ inited # {} /\ p \in Clock /\ e \in Int /\ e = p - Staleness
      /\ epoch \in Epoch /\ min_clock_ \in Clock /\ Staleness \in Nat /\ MaxClock \in Nat
  BY SSPAssumption DEF Pull, TypeOK, expected_min_clock, Clock
<1>2. req \in Request
  BY <1>1 DEF Request, Id
<1>3. /\ UNCHANGED <<env, sent, num_workers_, init_count_, min_clock_, worker_progress_,
                     clock_count_, blocked_pushes_, store_>>
      /\ IF Acceptable(e)
           THEN pulled' = Respond({req}, store_, min_clock_) /\ UNCHANGED blocked_pulls_
           ELSE /\ blocked_pulls_' = [blocked_pulls_ EXCEPT ![e] = @ \cup {req}]
                /\ UNCHANGED pulled
  BY DEF Pull, ProcessPull
<1>4. InitsCounted' /\ SizeKnown' /\ CountsExact' /\ MinClockExact'
  BY <1>3 DEF env, InitsCounted, SizeKnown, CountsExact, Past, MinClockExact
<1>5. PushesKept'
  BY <1>3 DEF env, PushesKept
<1>6. CASE Acceptable(e)
  <2>1. pulled' = Respond({req}, store_, min_clock_) /\ UNCHANGED blocked_pulls_
    BY <1>3, <1>6
  <2>2. pulled' \in [Workers -> Reply]
    BY <2>1, <1>1, <1>2, RespondType DEF TypeOK
  <2>3. TypeOK'
    BY <1>3, <2>1, <2>2 DEF env, TypeOK
  <2>4. BucketsAhead'
    BY <1>3, <2>1 DEF env, BucketsAhead
  <2>5. ASSUME NEW v \in Workers, pulled'[v] # pulled[v]
        PROVE  /\ pulled'[v].clock = p
               /\ pulled'[v].view = Retrieve(store_)
               /\ pulled'[v].min_clock = min_clock_
    <3>1. {req} \in SUBSET Request
      BY <1>2
    <3>2. \E r \in {req} : /\ r.src = v
                          /\ pulled'[v].clock = r.id[3]
                          /\ pulled'[v].view = Retrieve(store_)
                          /\ pulled'[v].min_clock = min_clock_
      BY <1>1, <2>1, <2>5, <3>1, RespondAnswers DEF TypeOK
    <3> QED BY <3>2
  <2>6. p - Staleness <= min_clock_
    BY <1>1, <1>6 DEF Acceptable
  <2>7. ReadsDue'
    BY <1>1, <1>3, <2>5, <2>6 DEF env, ReadsDue, Clock
  <2>8. BoundedStaleness'
    <3>1. SUFFICES ASSUME NEW v \in Workers, NEW q \in sent,
                          q[1] = epoch, q[3] < pulled'[v].clock - Staleness
                   PROVE  q \in pulled'[v].view
      BY <1>3 DEF env, BoundedStaleness
    <3>2. CASE pulled'[v] = pulled[v]
      BY <3>1, <3>2 DEF BoundedStaleness
    <3>3. CASE pulled'[v] # pulled[v]
      <4>1. q \in Id /\ q[3] \in Int
        BY DEF TypeOK, Id, Clock, NoClock
      <4>2. q[3] <= min_clock_
        BY <1>1, <2>5, <2>6, <3>1, <3>3, <4>1 DEF Clock
      <4>3. store_[q] > 0
        BY <3>1, <4>2, AppliedBelow
      <4> QED BY <2>5, <3>3, <4>1, <4>3 DEF Retrieve, TypeOK
    <3> QED BY <3>2, <3>3
  <2> QED BY <1>4, <1>5, <2>3, <2>4, <2>7, <2>8
<1>7. CASE ~Acceptable(e)
  <2>1. blocked_pulls_' = [blocked_pulls_ EXCEPT ![e] = @ \cup {req}] /\ UNCHANGED pulled
    BY <1>3, <1>7
  <2>2. e > min_clock_ /\ e \in Clock
    BY <1>1, <1>7 DEF Acceptable, Clock
  <2>3. TypeOK'
    BY <1>2, <1>3, <2>1, <2>2 DEF env, TypeOK
  <2>4. BucketsAhead'
    <3>1. SUFFICES ASSUME NEW k \in Clock, NEW r \in blocked_pulls_'[k]
                   PROVE  /\ k > min_clock_
                          /\ r.id = <<epoch, r.src, k + Staleness>>
                          /\ k + Staleness <= worker_progress_[r.src]
      BY <1>1, <1>3 DEF env, BucketsAhead
    <3>2. CASE r \in blocked_pulls_[k]
      BY <1>1, <3>2 DEF BucketsAhead
    <3>3. CASE r \notin blocked_pulls_[k]
      <4>1. k = e /\ r = req
        BY <2>1, <2>2, <3>1, <3>3 DEF TypeOK
      <4>2. r.src = w /\ r.id = <<epoch, w, p>>
        BY <4>1
      <4>3. p = k + Staleness
        BY <1>1, <4>1 DEF Clock
      <4>4. k > min_clock_
        BY <2>2, <4>1
      <4>5. k + Staleness <= worker_progress_[r.src]
        BY <1>1, <4>2, <4>3 DEF Clock
      <4> QED BY <4>2, <4>3, <4>4, <4>5
    <3> QED BY <3>2, <3>3
  <2>5. ReadsDue' /\ BoundedStaleness'
    BY <1>3, <2>1 DEF env, ReadsDue, BoundedStaleness
  <2> QED BY <1>4, <1>5, <2>3, <2>4, <2>5
<1> QED BY <1>6, <1>7

\* A push preserves the invariant, whether it is blocked, applied, or applied
\* as the last one of min_clock_, which releases the bucket that waits for it.
LEMMA PushStep ==
  ASSUME Inv, NEW w \in Workers, NEW data \in BOOLEAN, Push(w, data)
  PROVE  Inv'
<1> USE DEF Inv
<1> DEFINE p == worker_progress_[w]
           id == <<epoch, w, p>>
           req == [src |-> w, id |-> id, data |-> data]
           e == expected_min_clock(p)
           count == [clock_count_ EXCEPT ![p] = @ + 1]
           next == min_clock_ + 1
\* What holds in every case.
<1>1. /\ w \in inited /\ w \in members /\ inited # {} /\ p \in Clock /\ p < MaxClock
      /\ e \in Int /\ e = p - Staleness /\ epoch \in Epoch
      /\ min_clock_ \in Clock /\ Staleness \in Nat /\ MaxClock \in Nat
  <2>1. w \in inited /\ p < MaxPushes[epoch]
    BY DEF Push
  <2>2. epoch \in 1 .. MaxEpoch /\ p \in 0 .. MaxClock
    BY <2>1 DEF TypeOK, Epoch, Clock
  <2>3. MaxPushes[epoch] \in 0 .. MaxClock
    BY <2>2, PushesAssumption
  <2> QED BY <2>1, <2>2, <2>3, SSPAssumption DEF TypeOK, expected_min_clock, Clock, Epoch
<1>2. id \in Id /\ req \in Request /\ {req} \in SUBSET Request
  BY <1>1 DEF Request, Id
<1>3. /\ UNCHANGED <<members, inited, epoch, num_workers_, init_count_>>
      /\ worker_progress_' = [worker_progress_ EXCEPT ![w] = @ + 1]
      /\ clock_count_' = count
      /\ sent' = IF data THEN sent \cup {id} ELSE sent
      /\ IF Acceptable(e)
           THEN process_push(req, count)
           ELSE /\ blocked_pushes_' = [blocked_pushes_ EXCEPT ![e] = @ \cup {req}]
                /\ UNCHANGED <<min_clock_, blocked_pulls_, store_, pulled>>
  BY DEF Push, ProcessPush, env
<1>4. /\ worker_progress_' \in [Workers -> Clock] /\ clock_count_' \in [Clock -> Nat]
      /\ sent' \in SUBSET Id /\ worker_progress_'[w] = p + 1
      /\ \A v \in Workers : /\ worker_progress_[v] \in Nat /\ worker_progress_'[v] \in Nat
                            /\ worker_progress_'[v] >= worker_progress_[v]
      /\ \A v \in Workers : v # w => worker_progress_'[v] = worker_progress_[v]
  <2>1. p + 1 \in Clock
    BY <1>1 DEF Clock
  <2>2. worker_progress_' \in [Workers -> Clock] /\ worker_progress_'[w] = p + 1
    BY <1>3, <2>1 DEF TypeOK
  <2>3. \A v \in Workers : v # w => worker_progress_'[v] = worker_progress_[v]
    BY <1>3 DEF TypeOK
  <2>4. \A v \in Workers : /\ worker_progress_[v] \in Nat /\ worker_progress_'[v] \in Nat
                          /\ worker_progress_'[v] >= worker_progress_[v]
    <3>1. \A v \in Workers : worker_progress_[v] \in Nat /\ worker_progress_'[v] \in Nat
      BY <1>1, <2>2 DEF TypeOK, Clock
    <3>2. ASSUME NEW v \in Workers PROVE worker_progress_'[v] >= worker_progress_[v]
      <4>1. CASE v = w
        BY <2>2, <3>1, <4>1
      <4>2. CASE v # w
        BY <2>3, <3>1, <4>2
      <4> QED BY <4>1, <4>2
    <3> QED BY <3>1, <3>2
  <2>5. clock_count_' \in [Clock -> Nat]
    BY <1>1, <1>3 DEF TypeOK
  <2>6. sent' \in SUBSET Id
    BY <1>2, <1>3 DEF TypeOK
  <2> QED BY <2>2, <2>3, <2>4, <2>5, <2>6
<1>5. InitsCounted' /\ SizeKnown'
  BY <1>3 DEF InitsCounted, SizeKnown
<1>6. CountsExact'
  BY <1>1, <1>3, PushCounted
<1>7. /\ \A v \in members : worker_progress_[v] >= min_clock_
      /\ \E v \in members : worker_progress_[v] = min_clock_
  BY <1>1 DEF MinClockExact
<1>8. Collected(count) <=> \A v \in members : worker_progress_'[v] > min_clock_
  <2>1. IsFiniteSet(members) /\ num_workers_ = Cardinality(members)
    BY <1>1, MembersSize DEF TypeOK, SizeKnown
  <2>2. count[min_clock_] = Cardinality({v \in members : worker_progress_'[v] > min_clock_})
    BY <1>1, <1>3, <1>6 DEF CountsExact, Past
  <2> QED BY <2>1, <2>2, FullCount DEF Collected
<1>9. ASSUME NEW v \in Workers, pulled'[v] = pulled[v], NEW q \in sent',
             q[1] = epoch, q[3] < pulled'[v].clock - Staleness
      PROVE  q \in pulled'[v].view
  <2>1. CASE q \in sent
    BY <1>9, <2>1 DEF BoundedStaleness
  <2>2. CASE q \notin sent
    <3>1. q[3] = p
      BY <1>3, <2>2
    <3>2. min_clock_ <= p /\ pulled[v].clock - Staleness <= min_clock_
      BY <1>1, <1>7 DEF ReadsDue
    <3>3. pulled[v].clock \in Int
      BY DEF TypeOK, Reply, Clock, NoClock
    <3> QED BY <1>1, <1>9, <3>1, <3>2, <3>3 DEF Clock
  <2> QED BY <2>1, <2>2
<1>10. CASE ~Acceptable(e)
  <2>1. /\ blocked_pushes_' = [blocked_pushes_ EXCEPT ![e] = @ \cup {req}]
        /\ UNCHANGED <<min_clock_, blocked_pulls_, store_, pulled>>
    BY <1>3, <1>10
  <2>2. e > min_clock_ /\ e \in Clock /\ p > min_clock_
    BY <1>1, <1>10 DEF Acceptable, Clock
  <2>3. TypeOK'
    BY <1>2, <1>3, <1>4, <2>1, <2>2 DEF TypeOK
  <2>4. MinClockExact'
    <3>1. PICK v \in members : worker_progress_[v] = min_clock_
      BY <1>7
    <3>2. v # w /\ v \in Workers
      BY <1>1, <2>2, <3>1 DEF Clock, TypeOK
    <3>3. worker_progress_'[v] = min_clock_
      BY <1>4, <3>1, <3>2
    <3>4. \A u \in members : worker_progress_'[u] >= min_clock_
      BY <1>1, <1>4, <1>7 DEF TypeOK, Clock
    <3> QED BY <1>3, <2>1, <3>3, <3>4 DEF MinClockExact
  <2>5. BucketsAhead'
    <3>1. ASSUME NEW k \in Clock, NEW r \in blocked_pushes_'[k]
          PROVE  /\ k > min_clock_
                 /\ r.id = <<epoch, r.src, k + Staleness>>
                 /\ k + Staleness < worker_progress_'[r.src]
      <4>1. CASE r \in blocked_pushes_[k]
        <5>1. /\ k > min_clock_ /\ r.id = <<epoch, r.src, k + Staleness>>
              /\ k + Staleness < worker_progress_[r.src]
          BY <1>1, <4>1 DEF BucketsAhead
        <5>2. r.src \in Workers
          BY <4>1 DEF TypeOK, Request
        <5>3. k + Staleness < worker_progress_'[r.src]
          BY <1>1, <1>4, <5>1, <5>2 DEF Clock
        <5> QED BY <5>1, <5>3
      <4>2. CASE r \notin blocked_pushes_[k]
        <5>1. k = e /\ r = req
          BY <2>1, <2>2, <3>1, <4>2 DEF TypeOK
        <5>2. r.src = w /\ r.id = <<epoch, w, p>>
          BY <5>1
        <5>3. p = k + Staleness
          BY <1>1, <5>1 DEF Clock
        <5>4. k > min_clock_
          BY <2>2, <5>1
        <5>5. k + Staleness < worker_progress_'[r.src]
          BY <1>1, <1>4, <5>2, <5>3 DEF Clock
        <5> QED BY <5>2, <5>3, <5>4, <5>5
      <4> QED BY <4>1, <4>2
    <3>2. ASSUME NEW k \in Clock, NEW r \in blocked_pulls_[k]
          PROVE  /\ k > min_clock_
                 /\ r.id = <<epoch, r.src, k + Staleness>>
                 /\ k + Staleness <= worker_progress_'[r.src]
      <4>1. /\ k > min_clock_ /\ r.id = <<epoch, r.src, k + Staleness>>
            /\ k + Staleness <= worker_progress_[r.src]
        BY <1>1, <3>2 DEF BucketsAhead
      <4>2. r.src \in Workers
        BY DEF TypeOK, Request
      <4>3. k + Staleness <= worker_progress_'[r.src]
        BY <1>1, <1>4, <4>1, <4>2 DEF Clock
      <4> QED BY <4>1, <4>3
    <3> QED BY <1>3, <2>1, <3>1, <3>2 DEF BucketsAhead
  <2>6. ReadsDue'
    BY <1>1, <1>3, <2>1 DEF ReadsDue
  <2>7. BoundedStaleness'
    BY <1>3, <1>9, <2>1 DEF BoundedStaleness
  <2>8. PushesKept'
    <3>1. SUFFICES ASSUME NEW q \in sent'
                   PROVE  /\ q[1] <= epoch
                          /\ q[3] # NoClock
                          /\ q[1] = epoch =>
                               /\ q[3] < worker_progress_'[q[2]]
                               /\ \/ store_[q] > 0
                                  \/ \E k \in Clock : /\ q[3] = k + Staleness
                                       /\ \E r \in blocked_pushes_'[k] : r.id = q /\ r.data
      BY <1>1, <1>3, <2>1 DEF PushesKept
    <3>2. CASE q \in sent
      <4>1. q \in Id /\ q[2] \in Workers /\ q[3] \in Int
        BY <3>2 DEF TypeOK, Id, Clock, NoClock
      <4>2. \A k \in Clock : blocked_pushes_[k] \subseteq blocked_pushes_'[k]
        BY <2>1, <2>2 DEF TypeOK
      <4>3. q[3] < worker_progress_[q[2]] => q[3] < worker_progress_'[q[2]]
        BY <1>4, <4>1
      <4> QED BY <3>2, <4>2, <4>3 DEF PushesKept
    <3>3. CASE q \notin sent
      <4>1. q = id /\ data
        BY <1>3, <3>3
      <4>2. q[1] = epoch /\ q[2] = w /\ q[3] = p
        BY <4>1
      <4>3. req \in blocked_pushes_'[e] /\ req.id = q /\ req.data
        BY <2>1, <2>2, <4>1 DEF TypeOK
      <4>4. p = e + Staleness /\ p < worker_progress_'[w]
        BY <1>1, <1>4 DEF Clock
      <4> QED BY <1>1, <2>2, <4>2, <4>3, <4>4 DEF Clock, NoClock, Epoch
    <3> QED BY <3>2, <3>3
  <2> QED BY <1>5, <1>6, <2>3, <2>4, <2>5, <2>6, <2>7, <2>8
<1>11. CASE Acceptable(e) /\ ~Collected(count)
  <2>1. store_' = Update(store_, {req} \cup {}) /\ UNCHANGED <<min_clock_, blocked_pushes_, blocked_pulls_, pulled>>
    BY <1>3, <1>11 DEF process_push
  <2>2. /\ store_' \in [Id -> Nat] /\ \A q \in Id : store_[q] > 0 => store_'[q] > 0
        /\ data => store_'[id] > 0
    <3>1. {req} \cup {} \in SUBSET Request /\ store_ \in [Id -> Nat]
      BY <1>2 DEF TypeOK
    <3>2. \A r \in {req} \cup {} : r.data => store_'[r.id] > 0
      BY <2>1, <3>1, UpdateAdds
    <3> QED BY <2>1, <3>1, <3>2, UpdateAdds
  <2>3. TypeOK'
    BY <1>2, <1>3, <1>4, <2>1, <2>2 DEF TypeOK
  <2>4. MinClockExact'
    <3>1. PICK v \in members : ~(worker_progress_'[v] > min_clock_)
      BY <1>8, <1>11
    <3>2. \A u \in members : worker_progress_'[u] >= min_clock_
      BY <1>1, <1>4, <1>7 DEF TypeOK, Clock
    <3>3. worker_progress_'[v] = min_clock_
      BY <1>1, <1>4, <3>1, <3>2 DEF TypeOK, Clock
    <3> QED BY <1>3, <2>1, <3>2, <3>3 DEF MinClockExact
  <2>5. BucketsAhead'
    <3>1. ASSUME NEW k \in Clock, NEW r \in blocked_pushes_[k] \cup blocked_pulls_[k]
          PROVE  worker_progress_[r.src] \in Nat /\ worker_progress_'[r.src] \in Nat
                 /\ worker_progress_'[r.src] >= worker_progress_[r.src]
      BY <1>4 DEF TypeOK, Request
    <3> QED BY <1>1, <1>3, <2>1, <3>1 DEF BucketsAhead, Clock
  <2>6. ReadsDue'
    BY <1>1, <1>3, <2>1 DEF ReadsDue
  <2>7. BoundedStaleness'
    BY <1>3, <1>9, <2>1 DEF BoundedStaleness
  <2>8. PushesKept'
    <3>1. SUFFICES ASSUME NEW q \in sent'
                   PROVE  /\ q[1] <= epoch
                          /\ q[3] # NoClock
                          /\ q[1] = epoch =>
                               /\ q[3] < worker_progress_'[q[2]]
                               /\ \/ store_'[q] > 0
                                  \/ \E k \in Clock : /\ q[3] = k + Staleness
                                       /\ \E r \in blocked_pushes_[k] : r.id = q /\ r.data
      BY <1>1, <1>3, <2>1 DEF PushesKept
    <3>2. CASE q \in sent
      <4>1. q \in Id /\ q[2] \in Workers /\ q[3] \in Int
        BY <3>2 DEF TypeOK, Id, Clock, NoClock
      <4>2. q[3] < worker_progress_[q[2]] => q[3] < worker_progress_'[q[2]]
        BY <1>4, <4>1
      <4> QED BY <2>2, <3>2, <4>1, <4>2 DEF PushesKept
    <3>3. CASE q \notin sent
      <4>1. q = id /\ data
        BY <1>3, <3>3
      <4>2. q[1] = epoch /\ q[2] = w /\ q[3] = p
        BY <4>1
      <4>3. p < worker_progress_'[w]
        BY <1>1, <1>4 DEF Clock
      <4> QED BY <1>1, <2>2, <4>1, <4>2, <4>3 DEF Clock, NoClock, Epoch
    <3> QED BY <3>2, <3>3
  <2> QED BY <1>5, <1>6, <2>3, <2>4, <2>5, <2>6, <2>7, <2>8
<1>12. CASE Acceptable(e) /\ Collected(count)
  <2> DEFINE released == {req} \cup blocked_pushes_[next]
  <2>1. /\ store_' = Update(store_, released)
        /\ min_clock_' = next
        /\ blocked_pushes_' = [blocked_pushes_ EXCEPT ![next] = {}]
        /\ blocked_pulls_' = [blocked_pulls_ EXCEPT ![next] = {}]
        /\ pulled' = Respond(blocked_pulls_[next], store_', next)
    BY <1>3, <1>12 DEF process_push
  \* The slowest worker is the one that pushes.
  <2>2. \A v \in members : worker_progress_'[v] >= next
    <3>1. SUFFICES ASSUME NEW v \in members PROVE worker_progress_'[v] >= next
      OBVIOUS
    <3>2. v \in Workers /\ worker_progress_'[v] > min_clock_
      BY <1>8, <1>12 DEF TypeOK
    <3> QED BY <1>1, <1>4, <3>2 DEF Clock
  <2>3. p = min_clock_ /\ worker_progress_'[w] = next /\ next \in Clock
    <3>1. PICK v \in members : worker_progress_[v] = min_clock_
      BY <1>7
    <3>2. worker_progress_'[v] > min_clock_ /\ v \in Workers
      BY <1>8, <1>12 DEF TypeOK
    <3>3. v = w
      BY <1>1, <1>4, <3>1, <3>2 DEF Clock
    <3> QED BY <1>1, <1>4, <3>1, <3>3 DEF Clock
  <2>4. /\ released \in SUBSET Request /\ blocked_pulls_[next] \in SUBSET Request
    BY <1>2, <2>3 DEF TypeOK
  <2>5. /\ store_' \in [Id -> Nat] /\ \A q \in Id : store_[q] > 0 => store_'[q] > 0
        /\ \A r \in released : r.data => store_'[r.id] > 0
    BY <2>1, <2>4, UpdateAdds DEF TypeOK
  <2>6. /\ blocked_pushes_' \in [Clock -> SUBSET Request]
        /\ blocked_pulls_' \in [Clock -> SUBSET Request]
        /\ blocked_pushes_'[next] = {} /\ blocked_pulls_'[next] = {}
        /\ \A k \in Clock : k # next => /\ blocked_pushes_'[k] = blocked_pushes_[k]
                                       /\ blocked_pulls_'[k] = blocked_pulls_[k]
    BY <2>1, <2>3 DEF TypeOK
  <2>7. pulled' \in [Workers -> Reply]
    BY <2>1, <2>3, <2>4, <2>5, RespondType DEF TypeOK
  <2>8. TypeOK'
    BY <1>2, <1>3, <1>4, <2>1, <2>3, <2>5, <2>6, <2>7 DEF TypeOK
  <2>9. MinClockExact'
    BY <1>1, <1>3, <2>1, <2>2, <2>3 DEF MinClockExact
  <2>10. BucketsAhead'
    <3>1. ASSUME NEW k \in Clock, NEW r \in blocked_pushes_'[k]
          PROVE  /\ k > next
                 /\ r.id = <<epoch, r.src, k + Staleness>>
                 /\ k + Staleness < worker_progress_'[r.src]
      <4>1. k # next /\ r \in blocked_pushes_[k]
        BY <2>6, <3>1
      <4>2. /\ k > min_clock_ /\ r.id = <<epoch, r.src, k + Staleness>>
            /\ k + Staleness < worker_progress_[r.src]
        BY <1>1, <4>1 DEF BucketsAhead
      <4>3. r.src \in Workers
        BY <4>1 DEF TypeOK, Request
      <4>4. k > next /\ k + Staleness < worker_progress_'[r.src]
        BY <1>1, <1>4, <4>1, <4>2, <4>3 DEF Clock
      <4> QED BY <4>2, <4>4
    <3>2. ASSUME NEW k \in Clock, NEW r \in blocked_pulls_'[k]
          PROVE  /\ k > next
                 /\ r.id = <<epoch, r.src, k + Staleness>>
                 /\ k + Staleness <= worker_progress_'[r.src]
      <4>1. k # next /\ r \in blocked_pulls_[k]
        BY <2>6, <3>2
      <4>2. /\ k > min_clock_ /\ r.id = <<epoch, r.src, k + Staleness>>
            /\ k + Staleness <= worker_progress_[r.src]
        BY <1>1, <4>1 DEF BucketsAhead
      <4>3. r.src \in Workers
        BY <4>1 DEF TypeOK, Request
      <4>4. /\ worker_progress_'[r.src] >= worker_progress_[r.src]
            /\ worker_progress_[r.src] \in Nat /\ worker_progress_'[r.src] \in Nat
        BY <1>4, <4>3
      <4>5. k \in Nat /\ min_clock_ \in Nat /\ Staleness \in Nat
        BY <1>1 DEF Clock
      <4>6. k + Staleness <= worker_progress_'[r.src]
        BY <4>2, <4>4, <4>5
      <4>7. k > next
        BY <4>1, <4>2, <4>5
      <4> QED BY <4>2, <4>6, <4>7
    <3> QED BY <1>3, <2>1, <3>1, <3>2 DEF BucketsAhead
  <2>11. PushesKept'
    <3>1. SUFFICES ASSUME NEW q \in sent'
                   PROVE  /\ q[1] <= epoch
                          /\ q[3] # NoClock
                          /\ q[1] = epoch =>
                               /\ q[3] < worker_progress_'[q[2]]
                               /\ \/ store_'[q] > 0
                                  \/ \E k \in Clock : /\ q[3] = k + Staleness
                                       /\ \E r \in blocked_pushes_'[k] : r.id = q /\ r.data
      BY <1>1, <1>3 DEF PushesKept
    <3>2. CASE q \in sent
      <4>1. q \in Id /\ q[2] \in Workers /\ q[3] \in Int
        BY <3>2 DEF TypeOK, Id, Clock, NoClock
      <4>2. q[3] < worker_progress_[q[2]] => q[3] < worker_progress_'[q[2]]
        BY <1>4, <4>1
      <4>3. \A k \in Clock : \A r \in blocked_pushes_[k] :
              r.id = q /\ r.data => store_'[q] > 0 \/ r \in blocked_pushes_'[k]
        BY <2>5, <2>6
      <4> QED BY <2>5, <3>2, <4>1, <4>2, <4>3 DEF PushesKept
    <3>3. CASE q \notin sent
      <4>1. q = id /\ data
        BY <1>3, <3>3
      <4>2. q[1] = epoch /\ q[2] = w /\ q[3] = p
        BY <4>1
      <4>3. p < worker_progress_'[w]
        BY <1>1, <1>4 DEF Clock
      <4>4. req \in released /\ req.data /\ req.id = q
        BY <4>1
      <4>5. store_'[q] > 0
        BY <2>5, <4>4
      <4> QED BY <1>1, <4>2, <4>3, <4>5 DEF Clock, NoClock, Epoch
    <3> QED BY <3>2, <3>3
  <2>12. ASSUME NEW v \in Workers, pulled'[v] # pulled[v]
         PROVE  /\ pulled'[v].clock = next + Staleness
                /\ pulled'[v].view = Retrieve(store_')
                /\ pulled'[v].min_clock = next
    <3> DEFINE reqs == blocked_pulls_[next]
    <3>1. pulled'[v] = Respond(reqs, store_', next)[v]
      BY <2>1
    <3>2. reqs \in SUBSET Request /\ store_' \in [Id -> Nat] /\ next \in Clock
      BY <2>3, <2>4, <2>5
    <3> HIDE DEF reqs, next
    <3>3. PICK r \in reqs : /\ pulled'[v].clock = r.id[3]
                            /\ pulled'[v].view = Retrieve(store_')
                            /\ pulled'[v].min_clock = next
      BY <2>12, <3>1, <3>2, RespondAnswers
    <3> USE DEF reqs, next
    <3>4. r.id = <<epoch, r.src, next + Staleness>>
      BY <1>1, <2>3 DEF BucketsAhead
    <3> QED BY <3>3, <3>4
  <2>13. ReadsDue'
    <3>1. SUFFICES ASSUME NEW v \in Workers
                   PROVE  pulled'[v].min_clock <= next /\ pulled'[v].clock - Staleness <= next
      BY <1>1, <1>3, <2>1 DEF ReadsDue
    <3>2. CASE pulled'[v] = pulled[v]
      <4>1. pulled[v].clock \in Int /\ pulled[v].min_clock \in Int
        BY DEF TypeOK, Reply, Clock, NoClock
      <4>2. pulled[v].min_clock <= min_clock_ /\ pulled[v].clock - Staleness <= min_clock_
        BY DEF ReadsDue
      <4> QED BY <1>1, <3>2, <4>1, <4>2 DEF Clock
    <3>3. CASE pulled'[v] # pulled[v]
      BY <1>1, <2>12, <3>3 DEF Clock
    <3> QED BY <3>2, <3>3
  <2>14. BoundedStaleness'
    <3>1. SUFFICES ASSUME NEW v \in Workers, NEW q \in sent',
                          q[1] = epoch, q[3] < pulled'[v].clock - Staleness
                   PROVE  q \in pulled'[v].view
      BY <1>3 DEF BoundedStaleness
    <3>2. CASE pulled'[v] = pulled[v]
      BY <1>9, <3>1, <3>2
    <3>3. CASE pulled'[v] # pulled[v]
      <4>1. q \in Id /\ q[3] \in Int
        BY <1>4 DEF Id, Clock, NoClock
      <4>2. q[3] < next
        BY <1>1, <2>12, <3>1, <3>3, <4>1 DEF Clock
      <4>3. ~ \E k \in Clock : /\ q[3] = k + Staleness
                               /\ \E r \in blocked_pushes_'[k] : r.id = q /\ r.data
        BY <1>1, <1>3, <2>1, <2>10, <4>1, <4>2 DEF BucketsAhead, Clock
      <4>4. store_'[q] > 0
        BY <1>3, <2>11, <3>1, <4>3 DEF PushesKept
      <4> QED BY <2>5, <2>12, <3>3, <4>1, <4>4 DEF Retrieve
    <3> QED BY <3>2, <3>3
  <2> QED BY <1>5, <1>6, <2>8, <2>9, <2>10, <2>11, <2>13, <2>14
<1> QED BY <1>10, <1>11, <1>12

\* A new server satisfies the invariant.
LEMMA InitialInv == Init => Inv
<1> SUFFICES ASSUME Init PROVE Inv
  OBVIOUS
<1>1. /\ Cardinality(members) \in 1 .. Cardinality(Workers) /\ Cardinality(Workers) \in Nat
      /\ members # {}
  BY MembersSize, FS_CardinalityType, SSPAssumption DEF Init
<1>2. TypeOK
  <2>1. NoReply \in Reply
    BY SSPAssumption DEF NoReply, Reply, Clock
  <2> QED BY <1>1, <2>1, SSPAssumption
      DEF Init, TypeOK, Clock, Epoch, ZeroProgress, ZeroCounts, EmptyBuckets
<1>3. CountsExact
  <2>1. \A k \in Clock : Past(k) = {}
    BY DEF Init, Past, ZeroProgress, Clock
  <2> QED BY <2>1, FS_EmptySet DEF Init, CountsExact, ZeroCounts
<1>4. InitsCounted /\ SizeKnown /\ MinClockExact
  BY <1>1 DEF Init, InitsCounted, SizeKnown, MinClockExact, ZeroProgress
<1>5. BucketsAhead /\ PushesKept /\ BoundedStaleness
  BY DEF Init, BucketsAhead, PushesKept, BoundedStaleness, EmptyBuckets
<1>6. ReadsDue
  BY <1>1, SSPAssumption DEF Init, ReadsDue, NoReply
<1> QED BY <1>2, <1>3, <1>4, <1>5, <1>6 DEF Inv

\* Every step of the server and of its workers preserves the invariant.
LEMMA NextInv == Inv /\ [Next]_vars => Inv'
<1>1. ASSUME Inv, UNCHANGED vars PROVE Inv'
  BY <1>1 DEF Inv, vars, env, control, TypeOK, InitsCounted, SizeKnown, CountsExact, Past,
     MinClockExact, BucketsAhead, PushesKept, ReadsDue, BoundedStaleness
<1>2. ASSUME Inv, Next PROVE Inv'
  BY <1>2, InitStep, NewEpochStep, PushStep, PullStep, PushOffStep DEF Next
<1> QED BY <1>1, <1>2

------------------------------------------------------------------------------
(* The results.                                                            *)

\* The invariant holds in every state the server can reach.
THEOREM Invariance == Spec => []Inv
BY InitialInv, NextInv, PTL DEF Spec

\* Every variable keeps its type; min_clock_ and the bucket indices in
\* particular stay inside the vectors they index.
THEOREM TypeCorrect == Spec => []TypeOK
<1>1. Inv => TypeOK
  BY DEF Inv
<1> QED BY <1>1, Invariance, PTL

\* min_clock_ is always the progress of the slowest worker of the instance.
THEOREM ClockCorrect == Spec => []MinClockExact
<1>1. Inv => MinClockExact
  BY DEF Inv
<1> QED BY <1>1, Invariance, PTL

\* A read at clock c holds every push made before clock c - staleness_.
THEOREM StalenessBounded == Spec => []BoundedStaleness
<1>1. Inv => BoundedStaleness
  BY DEF Inv
<1> QED BY <1>1, Invariance, PTL

\* No bucket that min_clock_ has reached holds a request.
THEOREM NoneStranded == Spec => []NothingStranded
<1>1. Inv => NothingStranded
  BY SSPAssumption DEF Inv, TypeOK, BucketsAhead, NothingStranded, Clock
<1> QED BY <1>1, Invariance, PTL

\* The slowest worker is never blocked: blocked workers never all wait for
\* one another.
THEOREM NoMutualWait == Spec => []SlowestNotBlocked
<1>1. ASSUME Inv PROVE SlowestNotBlocked
  <2>1. SUFFICES ASSUME NEW w \in inited, worker_progress_[w] = min_clock_, NEW k \in Clock,
                        NEW r \in blocked_pushes_[k] \cup blocked_pulls_[k], r.src = w
                 PROVE  FALSE
    BY DEF SlowestNotBlocked
  <2>2. k > min_clock_ /\ k + Staleness <= worker_progress_[r.src]
    <3>1. worker_progress_[r.src] \in Int /\ k + Staleness \in Int
      BY <1>1, <2>1, SSPAssumption DEF Inv, TypeOK, Clock
    <3> QED BY <1>1, <2>1, <3>1 DEF Inv, BucketsAhead
  <2> QED BY <1>1, <2>1, <2>2, SSPAssumption DEF Inv, TypeOK, Clock
<1> QED BY <1>1, Invariance, PTL

\* Neither does a request wait in a bucket that has been opened already, nor
\* do all workers wait for one another.
THEOREM NeverStuck == Spec => []Unblocked
<1>1. SlowestNotBlocked /\ NothingStranded => Unblocked
  BY DEF Unblocked
<1> QED BY <1>1, NoneStranded, NoMutualWait, PTL

------------------------------------------------------------------------------
(***************************************************************************)
(* SSPServer implements StaleStore, for every set of workers, staleness    *)
(* and bound.                                                              *)
(*                                                                         *)
(* A push or a pull, whatever it releases, comes down to a set of requests *)
(* that are added to the store and a set of pulls that are answered        *)
(* afterwards (Summary).  The invariant says that the former were not in   *)
(* the store before, and that the latter were made at the current clock of *)
(* their worker, within the staleness of the new min_clock_.  That is all  *)
(* the abstract store asks of a step.                                      *)
(***************************************************************************)

\* The requests with data in `applied' are added in this step.
Applies(applied) ==
  /\ applied \in SUBSET Request
  /\ store_' = Update(store_, applied)
  /\ \A r \in applied : r.data =>
       /\ r.id \in sent' /\ store_[r.id] = 0
       /\ r.id[1] = epoch /\ r.id[3] - Staleness <= min_clock_'

\* The pulls with data in `answered' are answered in this step.
AnswersTo(answered) ==
  /\ answered \in SUBSET Request
  /\ pulled' = Respond(answered, store_', min_clock_')
  /\ \A r \in answered : r.data =>
       /\ r.src \in members
       /\ r.id[3] = worker_progress_'[r.src]
       /\ r.id[3] - Staleness <= min_clock_'

Summary ==
  /\ \E applied \in SUBSET Request : Applies(applied)
  /\ \E answered \in SUBSET Request : AnswersTo(answered)

------------------------------------------------------------------------------
(* Facts about the operators and the state.                                *)

\* update() adds one for every request with data, and nothing else.
LEMMA UpdateExact ==
  ASSUME NEW store \in [Id -> Nat], NEW reqs \in SUBSET Request
  PROVE  /\ Update(store, reqs) \in [Id -> Nat]
         /\ \A q \in Id : (\E r \in reqs : r.data /\ r.id = q) => Update(store, reqs)[q] = store[q] + 1
         /\ \A q \in Id : ~(\E r \in reqs : r.data /\ r.id = q) => Update(store, reqs)[q] = store[q]
BY DEF Update

\* With nothing to answer, the answers stay as they are.
LEMMA RespondNone ==
  ASSUME NEW reqs, NEW store, NEW clock, pulled \in [Workers -> Reply], reqs = {}
  PROVE  Respond(reqs, store, clock) = pulled
BY DEF Respond

\* The parts of an Id.
LEMMA IdParts ==
  ASSUME NEW q \in Id
  PROVE  /\ q[1] \in Int /\ q[2] \in Workers /\ q[3] \in Int
         /\ q = <<q[1], q[2], q[3]>>
         /\ q[3] # NoClock => q \in Controlled
BY SSPAssumption DEF Id, Epoch, Clock, NoClock, Controlled

\* A push that was made is one under consistency control.
LEMMA SentControlled ==
  ASSUME TypeOK, PushesKept
  PROVE  sent \subseteq Controlled
BY IdParts DEF TypeOK, PushesKept

\* A controlled push is an Id.
LEMMA ControlledId == Controlled \subseteq Id
BY DEF Controlled, Id

\* A push outside consistency control changes no controlled push.
LEMMA OffElsewhere ==
  ASSUME NEW store \in [Id -> Nat], NEW r, r.id[3] = NoClock,
         NEW q \in Controlled
  PROVE  Update(store, {r})[q] = store[q]
<1>1. q \in Id /\ q # r.id
  BY ControlledId, SSPAssumption DEF Controlled, Clock, NoClock
<1> QED BY <1>1 DEF Update

\* The pushes a worker makes are new.
LEMMA PushIsNew ==
  ASSUME StoreInv, NEW w \in inited
  PROVE  /\ <<epoch, w, worker_progress_[w]>> \in Controlled
         /\ <<epoch, w, worker_progress_[w]>> \notin sent
         /\ store_[<<epoch, w, worker_progress_[w]>>] = 0
<1> DEFINE id == <<epoch, w, worker_progress_[w]>>
<1>1. id \in Controlled /\ id \in Id
  BY ControlledId DEF StoreInv, Inv, TypeOK, Controlled
<1>2. id \notin sent
  <2>1. SUFFICES ASSUME id \in sent PROVE FALSE
    OBVIOUS
  <2>2. id[3] < worker_progress_[id[2]]
    BY <2>1 DEF StoreInv, Inv, PushesKept
  <2> QED BY <1>1, <2>2, SSPAssumption DEF Controlled, Clock
<1>3. store_[id] \in Nat /\ store_[id] <= 1 /\ store_[id] # 1
  BY <1>1, <1>2 DEF StoreInv, Inv, TypeOK, StoredOnce
<1> QED BY <1>1, <1>2, <1>3
------------------------------------------------------------------------------
(* The summary of a push and of a pull.                                    *)

\* A push adds itself and the pushes it releases, or is blocked; it answers
\* the pulls it releases.
LEMMA PushSummary ==
  ASSUME StoreInv, Inv', NEW w \in Workers, NEW data \in BOOLEAN, Push(w, data)
  PROVE  Summary
<1> DEFINE p == worker_progress_[w]
           id == <<epoch, w, p>>
           req == [src |-> w, id |-> id, data |-> data]
           e == expected_min_clock(p)
           count == [clock_count_ EXCEPT ![p] = @ + 1]
           next == min_clock_ + 1
<1>1. /\ w \in inited /\ w \in members /\ inited # {} /\ p \in Clock
      /\ e = p - Staleness /\ Staleness \in Nat /\ min_clock_ \in Clock
      /\ MaxClock \in Nat /\ min_clock_ \in Nat /\ p \in Nat
  <2>1. w \in inited
    BY DEF Push
  <2>2. w \in members /\ inited # {} /\ p \in Clock /\ min_clock_ \in Clock
    BY <2>1 DEF StoreInv, Inv, TypeOK
  <2> QED BY <2>1, <2>2, SSPAssumption DEF expected_min_clock, Clock
<1>2. /\ id \in Controlled /\ id \notin sent /\ store_[id] = 0 /\ id \in Id /\ req \in Request
  BY <1>1, PushIsNew, ControlledId DEF Request
<1>3. /\ sent' = IF data THEN sent \cup {id} ELSE sent
      /\ worker_progress_' = [worker_progress_ EXCEPT ![w] = @ + 1]
      /\ IF Acceptable(e) THEN process_push(req, count)
           ELSE /\ blocked_pushes_' = [blocked_pushes_ EXCEPT ![e] = @ \cup {req}]
                /\ UNCHANGED <<min_clock_, blocked_pulls_, store_, pulled>>
      /\ UNCHANGED env
  BY DEF Push, ProcessPush
<1>4. pulled \in [Workers -> Reply] /\ store_ \in [Id -> Nat]
  BY DEF StoreInv, Inv, TypeOK
<1>5. {} \in SUBSET Request /\ Update(store_, {}) = store_
  BY <1>4 DEF Update
<1>6. CASE ~Acceptable(e)
  <2>1. UNCHANGED <<min_clock_, blocked_pulls_, store_, pulled>>
    BY <1>3, <1>6
  <2>2. Applies({})
    BY <1>5, <2>1 DEF Applies
  <2>3. AnswersTo({})
    BY <1>4, <1>5, <2>1, RespondNone DEF AnswersTo
  <2> QED BY <1>5, <2>2, <2>3 DEF Summary
<1>7. CASE Acceptable(e) /\ ~Collected(count)
  <2>1. store_' = Update(store_, {req}) /\ UNCHANGED <<min_clock_, blocked_pulls_, pulled>>
    BY <1>3, <1>7 DEF process_push
  <2>2. p - Staleness <= min_clock_'
    BY <1>1, <1>7, <2>1 DEF Acceptable
  <2>3. Applies({req})
    BY <1>2, <1>3, <2>1, <2>2 DEF Applies
  <2>4. AnswersTo({})
    BY <1>4, <1>5, <2>1, RespondNone DEF AnswersTo
  <2> QED BY <1>2, <1>5, <2>3, <2>4 DEF Summary
<1>8. CASE Acceptable(e) /\ Collected(count)
  <2> DEFINE applied == {req} \cup blocked_pushes_[next]
             answered == blocked_pulls_[next]
  <2>1. /\ store_' = Update(store_, applied) /\ min_clock_' = next
        /\ pulled' = Respond(answered, store_', next)
    BY <1>3, <1>8 DEF process_push
  <2>2. next \in Clock
    BY <2>1 DEF Inv, TypeOK
  <2>3. applied \in SUBSET Request /\ answered \in SUBSET Request
    BY <1>2, <2>2 DEF StoreInv, Inv, TypeOK
  <2>4. ASSUME NEW r \in applied, r.data
        PROVE  /\ r.id \in sent' /\ store_[r.id] = 0
               /\ r.id[1] = epoch /\ r.id[3] - Staleness <= min_clock_'
    <3>1. CASE r = req
      BY <1>1, <1>2, <1>3, <1>8, <2>1, <2>4, <3>1 DEF Acceptable
    <3>2. CASE r \in blocked_pushes_[next]
      <4>1. r.id \in sent /\ store_[r.id] = 0
        BY <2>2, <2>4, <3>2 DEF StoreInv, BlockedOutside
      <4>2. r.id = <<epoch, r.src, next + Staleness>>
        BY <1>1, <2>2, <3>2 DEF StoreInv, Inv, BucketsAhead
      <4> QED BY <1>1, <1>3, <2>1, <4>1, <4>2
    <3> QED BY <3>1, <3>2
  <2>5. ASSUME NEW r \in answered, r.data
        PROVE  /\ r.src \in members
               /\ r.id[3] = worker_progress_'[r.src]
               /\ r.id[3] - Staleness <= min_clock_'
    <3>1. r.id = <<epoch, r.src, next + Staleness>>
      BY <1>1, <2>2, <2>5 DEF StoreInv, Inv, BucketsAhead
    <3>2. r.src \in members /\ worker_progress_[r.src] = next + Staleness
      BY <2>2, <2>5 DEF StoreInv, PullersStay
    <3>3. r.src # w
      BY <2>2, <2>5 DEF Push, Waiting
    <3>4. r.src \in Workers /\ worker_progress_ \in [Workers -> Clock]
      BY <3>2 DEF StoreInv, Inv, TypeOK
    <3>5. worker_progress_'[r.src] = worker_progress_[r.src]
      BY <1>3, <3>3, <3>4
    <3> QED BY <1>1, <2>1, <3>1, <3>2, <3>5
  <2>6. Applies(applied)
    BY <2>1, <2>3, <2>4 DEF Applies
  <2>7. AnswersTo(answered)
    BY <2>1, <2>3, <2>5 DEF AnswersTo
  <2> QED BY <2>3, <2>6, <2>7 DEF Summary
<1> QED BY <1>6, <1>7, <1>8

\* A pull adds nothing; it is answered or blocked.
LEMMA PullSummary ==
  ASSUME StoreInv, NEW w \in Workers, NEW data \in BOOLEAN, Pull(w, data)
  PROVE  Summary
<1> DEFINE p == worker_progress_[w]
           req == [src |-> w, id |-> <<epoch, w, p>>, data |-> data]
           e == expected_min_clock(p)
<1>1. /\ w \in inited /\ w \in members /\ p \in Clock /\ e = p - Staleness
      /\ Staleness \in Nat /\ req \in Request /\ epoch \in Epoch
  BY SSPAssumption DEF Pull, StoreInv, Inv, TypeOK, expected_min_clock, Request, Id
<1>2. UNCHANGED <<store_, worker_progress_, min_clock_>>
  BY DEF Pull, ProcessPull
<1>3. IF Acceptable(e) THEN pulled' = Respond({req}, store_, min_clock_) ELSE pulled' = pulled
  BY DEF Pull, ProcessPull
<1>4. pulled \in [Workers -> Reply] /\ store_ \in [Id -> Nat]
  BY DEF StoreInv, Inv, TypeOK
<1>5. {} \in SUBSET Request /\ {req} \in SUBSET Request /\ Update(store_, {}) = store_
  BY <1>1, <1>4 DEF Update
<1>6. Applies({})
  BY <1>2, <1>5 DEF Applies
<1>7. CASE Acceptable(e)
  BY <1>1, <1>2, <1>3, <1>5, <1>6, <1>7 DEF AnswersTo, Acceptable, Summary
<1>8. CASE ~Acceptable(e)
  <2>1. AnswersTo({})
    BY <1>2, <1>3, <1>4, <1>5, <1>8, RespondNone DEF AnswersTo
  <2> QED BY <1>5, <1>6, <2>1 DEF Summary
<1> QED BY <1>7, <1>8
------------------------------------------------------------------------------
(* Every step preserves the invariant.                                     *)

\* What is added is added once, and in time.
LEMMA SummaryStores ==
  ASSUME StoreInv, Inv', Summary, epoch' = epoch, min_clock_ <= min_clock_',
         sent \subseteq sent', \A q \in sent' \ sent : q[1] = epoch
  PROVE  /\ StoredOnce' /\ EarlierStored' /\ StoredDue'
         /\ \A q \in Id : store_[q] <= store_'[q]
<1>1. PICK applied \in SUBSET Request : Applies(applied)
  BY DEF Summary
<1>2. /\ store_ \in [Id -> Nat] /\ sent \in SUBSET Id /\ sent' \in SUBSET Id
      /\ min_clock_ \in Int /\ min_clock_' \in Int /\ Staleness \in Int
  <2>1. store_ \in [Id -> Nat] /\ sent \in SUBSET Id /\ min_clock_ \in Clock
    BY DEF StoreInv, Inv, TypeOK
  <2>2. sent' \in SUBSET Id /\ min_clock_' \in Clock
    BY DEF Inv, TypeOK
  <2> QED BY <2>1, <2>2, SSPAssumption DEF Clock
<1>3. /\ store_' \in [Id -> Nat]
      /\ \A q \in Id : (\E r \in applied : r.data /\ r.id = q) => store_'[q] = store_[q] + 1
      /\ \A q \in Id : ~(\E r \in applied : r.data /\ r.id = q) => store_'[q] = store_[q]
  BY <1>1, <1>2, UpdateExact DEF Applies
<1>4. \A r \in applied : r.data =>
        /\ r.id \in sent' /\ store_[r.id] = 0
        /\ r.id[1] = epoch /\ r.id[3] - Staleness <= min_clock_'
  BY <1>1 DEF Applies
<1>5. \A q \in Id : store_[q] <= store_'[q]
  BY <1>2, <1>3
<1>6. StoredOnce'
  <2>1. SUFFICES ASSUME NEW q \in Controlled
                 PROVE  store_'[q] <= 1 /\ (store_'[q] = 1 => q \in sent')
    BY DEF StoredOnce
  <2>2. q \in Id /\ store_[q] \in Nat /\ store_[q] <= 1 /\ (store_[q] = 1 => q \in sent)
    BY <1>2, <2>1, ControlledId DEF StoreInv, StoredOnce
  <2>3. CASE \E r \in applied : r.data /\ r.id = q
    BY <1>3, <1>4, <2>2, <2>3
  <2>4. CASE ~ \E r \in applied : r.data /\ r.id = q
    BY <1>3, <2>2, <2>4
  <2> QED BY <2>3, <2>4
<1>7. EarlierStored'
  <2>1. SUFFICES ASSUME NEW q \in sent', q[1] < epoch PROVE store_'[q] = 1
    BY DEF EarlierStored
  <2>2. q \in sent /\ q \in Id /\ q[1] \in Int
    BY <1>2, <2>1, IdParts
  <2>3. store_[q] = 1
    BY <2>1, <2>2 DEF StoreInv, EarlierStored
  <2>4. ~ \E r \in applied : r.data /\ r.id = q
    BY <1>4, <2>3
  <2> QED BY <1>3, <2>2, <2>3, <2>4
<1>8. StoredDue'
  <2>1. SUFFICES ASSUME NEW q \in sent', q[1] = epoch, store_'[q] = 1
                 PROVE  q[3] - Staleness <= min_clock_'
    BY DEF StoredDue
  <2>2. q \in Id /\ q[3] \in Int /\ q \in Controlled
    <3>1. sent' \subseteq Controlled
      <4>1. \A r \in sent' : r \in Id /\ r[3] # NoClock
        BY <1>2 DEF Inv, PushesKept
      <4> QED BY <4>1, IdParts
    <3> QED BY <1>2, <3>1, IdParts
  <2>3. CASE \E r \in applied : r.data /\ r.id = q
    BY <1>4, <2>3
  <2>4. CASE ~ \E r \in applied : r.data /\ r.id = q
    <3>1. store_[q] = 1 /\ q \in sent
      BY <1>3, <2>1, <2>2, <2>4 DEF StoreInv, StoredOnce
    <3>2. q[3] - Staleness <= min_clock_
      BY <2>1, <3>1 DEF StoreInv, StoredDue
    <3> QED BY <1>2, <2>2, <3>2
  <2> QED BY <2>3, <2>4
<1> QED BY <1>5, <1>6, <1>7, <1>8

\* A push preserves the invariant.
LEMMA PushKeeps ==
  ASSUME StoreInv, NEW w \in Workers, NEW data \in BOOLEAN, Push(w, data)
  PROVE  StoreInv' /\ Summary /\ \A q \in Id : store_[q] <= store_'[q]
<1> DEFINE p == worker_progress_[w]
           id == <<epoch, w, p>>
           req == [src |-> w, id |-> id, data |-> data]
           e == expected_min_clock(p)
           count == [clock_count_ EXCEPT ![p] = @ + 1]
           next == min_clock_ + 1
<1>1. Inv'
  BY PushStep DEF StoreInv
<1>2. Summary
  BY <1>1, PushSummary
<1>3. /\ w \in inited /\ id \in Controlled /\ id \in Id /\ id \notin sent /\ store_[id] = 0
      /\ p \in Int /\ inited # {} /\ w \in members /\ min_clock_ \in Int
  <2>1. w \in inited
    BY DEF Push
  <2>2. w \in members /\ p \in Clock /\ min_clock_ \in Clock
    BY <2>1 DEF StoreInv, Inv, TypeOK
  <2> QED BY <2>1, <2>2, PushIsNew, ControlledId, SSPAssumption DEF Clock
<1>4. /\ sent' = IF data THEN sent \cup {id} ELSE sent
      /\ worker_progress_' = [worker_progress_ EXCEPT ![w] = @ + 1]
      /\ UNCHANGED <<members, inited, epoch>>
      /\ IF Acceptable(e) THEN process_push(req, count)
           ELSE /\ blocked_pushes_' = [blocked_pushes_ EXCEPT ![e] = @ \cup {req}]
                /\ UNCHANGED <<min_clock_, blocked_pulls_, store_, pulled>>
  BY DEF Push, ProcessPush, env
<1>5. \/ min_clock_' = min_clock_
      \/ min_clock_' = next
  BY <1>4 DEF process_push
<1>6. /\ StoredOnce' /\ EarlierStored' /\ StoredDue'
      /\ \A q \in Id : store_[q] <= store_'[q]
  <2>1. \A q \in sent' \ sent : q[1] = epoch
    BY <1>4
  <2>2. min_clock_ <= min_clock_' /\ sent \subseteq sent'
    BY <1>3, <1>4, <1>5
  <2> QED BY <1>1, <1>2, <1>4, <2>1, <2>2, SummaryStores
<1>7. \A k \in Clock : blocked_pulls_'[k] \subseteq blocked_pulls_[k]
  BY <1>4 DEF process_push, StoreInv, Inv, TypeOK
<1>8. PullersStay'
  <2>1. SUFFICES ASSUME NEW k \in Clock, NEW r \in blocked_pulls_[k], r.data
                 PROVE  r.src \in members /\ worker_progress_'[r.src] = k + Staleness
    BY <1>3, <1>4, <1>7 DEF PullersStay
  <2>2. r.src \in members /\ worker_progress_[r.src] = k + Staleness
    BY <2>1 DEF StoreInv, PullersStay
  <2>3. r.src # w
    BY <2>1 DEF Push, Waiting
  <2>4. r.src \in Workers /\ worker_progress_ \in [Workers -> Clock]
    BY <2>2 DEF StoreInv, Inv, TypeOK
  <2> QED BY <1>4, <2>2, <2>3, <2>4
<1>9. BlockedOutside'
  <2>1. SUFFICES ASSUME NEW k \in Clock, NEW r \in blocked_pushes_'[k], r.data
                 PROVE  r.id \in sent' /\ store_'[r.id] = 0
    BY DEF BlockedOutside
  <2>2. ASSUME r \in blocked_pushes_[k]
        PROVE  /\ r.id \in sent /\ r.id \in Id /\ store_[r.id] = 0 /\ r.id # id
               /\ r.id = <<epoch, r.src, k + Staleness>>
    <3>1. r.id \in sent /\ store_[r.id] = 0
      BY <2>1, <2>2 DEF StoreInv, BlockedOutside
    <3>2. r.id = <<epoch, r.src, k + Staleness>>
      BY <1>3, <2>2 DEF StoreInv, Inv, BucketsAhead
    <3> QED BY <1>3, <3>1, <3>2 DEF StoreInv, Inv, TypeOK
  <2>3. CASE ~Acceptable(e)
    <3>1. store_' = store_ /\ blocked_pushes_' = [blocked_pushes_ EXCEPT ![e] = @ \cup {req}]
      BY <1>4, <2>3
    <3>2. r \in blocked_pushes_[k] \/ r = req
      BY <2>1, <3>1 DEF StoreInv, Inv, TypeOK
    <3>3. CASE r = req
      BY <1>3, <1>4, <2>1, <3>1, <3>3
    <3> QED BY <1>4, <2>2, <3>1, <3>2, <3>3
  <2>4. CASE Acceptable(e) /\ ~Collected(count)
    <3>1. store_' = Update(store_, {req}) /\ blocked_pushes_' = blocked_pushes_
      BY <1>4, <2>4 DEF process_push
    <3>2. r.id \in sent /\ r.id \in Id /\ store_[r.id] = 0 /\ r.id # id
      BY <2>1, <2>2, <3>1
    <3>3. store_'[r.id] = store_[r.id]
      BY <3>1, <3>2 DEF Update, StoreInv, Inv, TypeOK
    <3> QED BY <1>4, <3>2, <3>3
  <2>5. CASE Acceptable(e) /\ Collected(count)
    <3> DEFINE applied == {req} \cup blocked_pushes_[next]
    <3>1. /\ store_' = Update(store_, applied)
          /\ blocked_pushes_' = [blocked_pushes_ EXCEPT ![next] = {}]
          /\ min_clock_' = next
      BY <1>4, <2>5 DEF process_push
    <3>2. next \in Clock
      BY <1>1, <3>1 DEF Inv, TypeOK
    <3>3. k # next /\ r \in blocked_pushes_[k]
      BY <2>1, <3>1, <3>2 DEF StoreInv, Inv, TypeOK
    <3>4. /\ r.id \in sent /\ r.id \in Id /\ store_[r.id] = 0 /\ r.id # id
          /\ r.id = <<epoch, r.src, k + Staleness>>
      BY <2>2, <3>3
    <3>5. ASSUME NEW s \in blocked_pushes_[next], s.id = r.id PROVE FALSE
      <4>1. s.id = <<epoch, s.src, next + Staleness>>
        BY <1>3, <3>2 DEF StoreInv, Inv, BucketsAhead
      <4>2. next + Staleness = k + Staleness
        BY <3>4, <3>5, <4>1
      <4> QED BY <3>2, <3>3, <4>2, SSPAssumption DEF Clock
    <3>6. ~ \E s \in applied : s.data /\ s.id = r.id
      BY <3>4, <3>5
    <3>7. store_'[r.id] = store_[r.id]
      BY <3>1, <3>4, <3>6 DEF Update, StoreInv, Inv, TypeOK
    <3> QED BY <1>4, <3>4, <3>7
  <2> QED BY <2>3, <2>4, <2>5
<1> QED BY <1>1, <1>2, <1>6, <1>8, <1>9 DEF StoreInv

\* A pull preserves the invariant.
LEMMA PullKeeps ==
  ASSUME StoreInv, NEW w \in Workers, NEW data \in BOOLEAN, Pull(w, data)
  PROVE  StoreInv' /\ Summary
<1> DEFINE p == worker_progress_[w]
           req == [src |-> w, id |-> <<epoch, w, p>>, data |-> data]
           e == expected_min_clock(p)
<1>1. Inv'
  BY PullStep DEF StoreInv
<1>2. Summary
  BY PullSummary
<1>3. UNCHANGED <<members, inited, epoch, sent, store_, worker_progress_, min_clock_, blocked_pushes_>>
  BY DEF Pull, ProcessPull, env
<1>4. /\ w \in inited /\ w \in members /\ e = p - Staleness /\ p \in Clock /\ inited # {}
  BY DEF Pull, StoreInv, Inv, TypeOK, expected_min_clock
<1>5. \A k \in Clock : \A r \in blocked_pulls_'[k] : r \in blocked_pulls_[k] \/ (r = req /\ k = e)
  BY DEF Pull, ProcessPull, StoreInv, Inv, TypeOK
<1>6. PullersStay'
  <2>1. SUFFICES ASSUME NEW k \in Clock, NEW r \in blocked_pulls_'[k], r.data
                 PROVE  r.src \in members /\ worker_progress_[r.src] = k + Staleness
    BY <1>3, <1>4 DEF PullersStay
  <2>2. CASE r \in blocked_pulls_[k]
    BY <2>1, <2>2 DEF StoreInv, PullersStay
  <2>3. CASE r = req /\ k = e
    BY <1>4, <2>3, SSPAssumption DEF Clock
  <2> QED BY <1>5, <2>2, <2>3
<1>7. StoredOnce' /\ EarlierStored' /\ StoredDue' /\ BlockedOutside'
  BY <1>3 DEF StoreInv, StoredOnce, EarlierStored, StoredDue, BlockedOutside
<1> QED BY <1>1, <1>2, <1>6, <1>7 DEF StoreInv

\* The other steps preserve the invariant.
LEMMA OtherKeeps ==
  ASSUME StoreInv,
         \/ NewEpoch
         \/ \E w \in Workers : InitForConsistencyControl(w) \/ PushOff(w)
         \/ UNCHANGED vars
  PROVE  StoreInv'
<1>1. CASE NewEpoch
  <2>1. Inv'
    BY <1>1, NewEpochStep DEF StoreInv
  <2>2. /\ epoch' = epoch + 1 /\ ~SomeoneWaits
        /\ UNCHANGED <<store_, sent, blocked_pushes_, blocked_pulls_, min_clock_>>
    BY <1>1 DEF NewEpoch, control
  <2>3. \A k \in Clock : /\ \A r \in blocked_pushes_[k] : ~r.data
                        /\ \A r \in blocked_pulls_[k] : ~r.data
    BY <2>2 DEF SomeoneWaits
  <2>4. StoredOnce' /\ BlockedOutside' /\ PullersStay'
    BY <2>2, <2>3 DEF StoreInv, StoredOnce, BlockedOutside, PullersStay
  <2>5. ASSUME NEW q \in sent
        PROVE  q[1] < epoch + 1 /\ store_[q] = 1
    <3>1. /\ q \in Controlled /\ q \in Id /\ q[1] \in Int /\ epoch \in Int
          /\ q[1] <= epoch
      <4>1. q \in Controlled /\ q \in Id /\ epoch \in Epoch /\ q[1] <= epoch
        BY SentControlled, ControlledId DEF StoreInv, Inv, TypeOK, PushesKept
      <4> QED BY <4>1, IdParts, SSPAssumption DEF Epoch
    <3>2. CASE q[1] < epoch
      BY <3>1, <3>2 DEF StoreInv, EarlierStored
    <3>3. CASE q[1] = epoch
      <4>1. store_[q] > 0
        BY <2>3, <3>3 DEF StoreInv, Inv, PushesKept
      <4>2. store_[q] <= 1 /\ store_[q] \in Nat
        BY <3>1 DEF StoreInv, StoredOnce, Inv, TypeOK
      <4> QED BY <3>1, <3>3, <4>1, <4>2
    <3> QED BY <3>1, <3>2, <3>3
  <2>6. EarlierStored'
    BY <2>2, <2>5 DEF EarlierStored
  <2>7. StoredDue'
    <3>1. \A q \in sent : q[1] # epoch + 1
      <4>1. \A q \in sent : q \in Id /\ q[1] \in Int
        BY IdParts DEF StoreInv, Inv, TypeOK
      <4>2. epoch \in Int
        BY SSPAssumption DEF StoreInv, Inv, TypeOK, Epoch
      <4> QED BY <2>5, <4>1, <4>2
    <3> QED BY <2>2, <3>1 DEF StoredDue
  <2> QED BY <2>1, <2>4, <2>6, <2>7 DEF StoreInv
<1>2. ASSUME NEW w \in Workers, InitForConsistencyControl(w)
      PROVE  StoreInv'
  <2>1. Inv'
    BY <1>2, InitStep DEF StoreInv
  <2>2. /\ UNCHANGED <<members, epoch, sent, store_>> /\ inited' # {}
    BY <1>2 DEF InitForConsistencyControl, ProcessInit
  <2>3. \/ /\ init_count_ = 0 /\ min_clock_' = 0
           /\ blocked_pushes_' = EmptyBuckets /\ blocked_pulls_' = EmptyBuckets
        \/ UNCHANGED <<min_clock_, worker_progress_, blocked_pushes_, blocked_pulls_>>
    BY <1>2 DEF InitForConsistencyControl, ProcessInit
  <2>4. init_count_ = 0 => inited = {}
    <3>1. inited # members /\ IsFiniteSet(inited)
      BY <1>2, MembersSize, FS_Subset DEF InitForConsistencyControl, StoreInv, Inv, TypeOK
    <3> QED BY <3>1, FS_EmptySet DEF StoreInv, Inv, InitsCounted
  <2>5. StoredOnce' /\ EarlierStored'
    BY <2>2 DEF StoreInv, StoredOnce, EarlierStored
  <2>6. BlockedOutside' /\ PullersStay'
    <3>1. CASE blocked_pushes_' = EmptyBuckets /\ blocked_pulls_' = EmptyBuckets
      BY <3>1 DEF BlockedOutside, PullersStay, EmptyBuckets
    <3>2. CASE UNCHANGED <<min_clock_, worker_progress_, blocked_pushes_, blocked_pulls_>>
      BY <2>2, <3>2 DEF StoreInv, BlockedOutside, PullersStay
    <3> QED BY <2>3, <3>1, <3>2
  <2>7. StoredDue'
    <3>1. CASE init_count_ = 0
      <4>1. \A q \in sent : q[1] # epoch
        BY <2>4, <3>1 DEF StoreInv, Inv, PushesKept
      <4> QED BY <2>2, <4>1 DEF StoredDue
    <3>2. CASE UNCHANGED <<min_clock_, worker_progress_, blocked_pushes_, blocked_pulls_>>
      BY <2>2, <3>2 DEF StoreInv, StoredDue
    <3> QED BY <2>3, <3>1, <3>2
  <2> QED BY <2>1, <2>5, <2>6, <2>7 DEF StoreInv
<1>3. ASSUME NEW w \in Workers, PushOff(w)
      PROVE  StoreInv'
  <2> DEFINE req == [src |-> w, id |-> <<epoch, w, NoClock>>, data |-> TRUE]
  <2>1. Inv'
    BY <1>3, PushOffStep DEF StoreInv
  <2>2. /\ UNCHANGED <<members, inited, epoch, sent, min_clock_, worker_progress_,
                       blocked_pushes_, blocked_pulls_>>
        /\ store_' = Update(store_, {req})
    BY <1>3 DEF PushOff, ProcessPushOff, env, control
  <2>3. \A q \in Controlled : store_'[q] = store_[q]
    BY <2>2, OffElsewhere DEF StoreInv, Inv, TypeOK
  <2>4. sent \subseteq Controlled
    BY SentControlled DEF StoreInv, Inv
  <2>5. StoredOnce' /\ EarlierStored' /\ StoredDue' /\ PullersStay' /\ BlockedOutside'
    BY <2>2, <2>3, <2>4
    DEF StoreInv, StoredOnce, EarlierStored, StoredDue, PullersStay, BlockedOutside
  <2> QED BY <2>1, <2>5 DEF StoreInv
<1>4. CASE UNCHANGED vars
  <2>1. Inv'
    BY <1>4, NextInv DEF StoreInv
  <2>2. StoredOnce' /\ EarlierStored' /\ StoredDue' /\ PullersStay' /\ BlockedOutside'
    BY <1>4 DEF vars, env, control, StoreInv, StoredOnce, EarlierStored, StoredDue,
       PullersStay, BlockedOutside
  <2> QED BY <2>1, <2>2 DEF StoreInv
<1> QED BY <1>1, <1>2, <1>3, <1>4

\* A new server satisfies the invariant, and every step preserves it.
LEMMA StoreInvInductive == (Init => StoreInv) /\ (StoreInv /\ [Next]_vars => StoreInv')
<1>1. ASSUME Init PROVE StoreInv
  <2>1. Inv
    BY <1>1, InitialInv
  <2>2. StoredOnce
    BY <1>1, ControlledId DEF Init, StoredOnce
  <2> QED BY <1>1, <2>1, <2>2 DEF Init, StoreInv, BlockedOutside, EarlierStored, PullersStay,
       StoredDue, EmptyBuckets
<1>2. ASSUME StoreInv, [Next]_vars PROVE StoreInv'
  BY <1>2, PushKeeps, PullKeeps, OtherKeeps DEF Next
<1> QED BY <1>1, <1>2
------------------------------------------------------------------------------
(* Every step is one of the abstract store.                                *)

\* What a push or a pull adds, the abstract store may absorb.
LEMMA SummaryAbsorbed ==
  ASSUME StoreInv, StoreInv', \A q \in Id : store_[q] <= store_'[q]
  PROVE  StaleStoreOf!Absorb
<1>1. ASSUME NEW q \in Controlled
      PROVE  store_[q] <= store_'[q] /\ store_'[q] <= IF q \in sent' THEN 1 ELSE 0
  <2>1. q \in Id /\ store_[q] <= store_'[q]
    BY ControlledId
  <2>2. store_'[q] \in Nat
    BY <2>1 DEF StoreInv, Inv, TypeOK
  <2>3. store_'[q] <= 1 /\ (store_'[q] = 1 => q \in sent')
    BY DEF StoreInv, StoredOnce
  <2> QED BY <2>1, <2>2, <2>3
<1> QED BY <1>1 DEF StaleStoreOf!Absorb

\* A controlled push has been read exactly if it is in the store.
ReadIsStored ==
  Retrieve(store_) \cap Controlled = {q \in Controlled : store_[q] = 1}

\* A read at clock c within the staleness of min_clock_ finds what it needs in
\* the store: the pushes of earlier epochs, those below the bound or the
\* label, and the reader's own.
Needed(q, w, c) ==
  \/ q[1] < epoch
  \/ q[1] = epoch /\ (q[3] < c - Staleness \/ q[3] < min_clock_)
  \/ q[1] = epoch /\ q[3] < c /\ q[2] = w
NeededIsStored ==
  \A w \in Workers, c \in Nat, q \in sent :
    c - Staleness <= min_clock_ /\ Needed(q, w, c) => q \in Controlled /\ store_[q] = 1

\* The invariant has these two consequences,
LEMMA StoreReadable == StoreInv => ReadIsStored /\ NeededIsStored
<1> SUFFICES ASSUME StoreInv PROVE ReadIsStored /\ NeededIsStored
  OBVIOUS
<1>1. store_ \in [Id -> Nat]
  BY DEF StoreInv, Inv, TypeOK
<1>2. \A q \in Controlled : q \in Id /\ store_[q] \in Nat /\ store_[q] <= 1
  BY <1>1, ControlledId DEF StoreInv, StoredOnce
<1>3. ReadIsStored
  BY <1>1, <1>2 DEF Retrieve, ReadIsStored
<1>4. ASSUME NEW w \in Workers, NEW c \in Nat, NEW q \in sent,
             c - Staleness <= min_clock_, Needed(q, w, c)
      PROVE  q \in Controlled /\ store_[q] = 1
  <2>1. /\ q \in Controlled /\ q \in Id /\ q[1] \in Int /\ q[3] \in Int
        /\ epoch \in Int /\ min_clock_ \in Int /\ Staleness \in Nat
    <3>1. q \in Controlled /\ q \in Id
      BY SentControlled, ControlledId DEF StoreInv, Inv
    <3>2. epoch \in Epoch /\ min_clock_ \in Clock
      BY DEF StoreInv, Inv, TypeOK
    <3> QED BY <3>1, <3>2, IdParts, SSPAssumption DEF Epoch, Clock
  <2>2. store_[q] \in Nat /\ store_[q] <= 1
    BY <2>1 DEF StoreInv, StoredOnce, Inv, TypeOK
  <2>3. CASE q[1] < epoch
    BY <2>1, <2>3 DEF StoreInv, EarlierStored
  <2>4. CASE q[1] = epoch /\ q[3] < c
    <3>1. inited # {}
      BY <2>4 DEF StoreInv, Inv, PushesKept
    <3>2. ASSUME NEW k \in Clock, q[3] = k + Staleness, NEW r \in blocked_pushes_[k]
          PROVE  FALSE
      <4>1. k > min_clock_
        BY <3>1, <3>2 DEF StoreInv, Inv, BucketsAhead
      <4> QED BY <1>4, <2>1, <2>4, <3>2, <4>1 DEF Clock
    <3>3. store_[q] > 0
      BY <2>4, <3>2 DEF StoreInv, Inv, PushesKept
    <3> QED BY <2>1, <2>2, <3>3
  <2>5. CASE q[1] = epoch /\ q[3] <= min_clock_
    <3>1. store_[q] > 0
      BY <2>5, AppliedBelow DEF StoreInv, Inv
    <3> QED BY <2>1, <2>2, <3>1
  <2> QED BY <1>4, <2>1, <2>3, <2>4, <2>5 DEF Needed
<1> QED BY <1>3, <1>4 DEF NeededIsStored

\* in every state.
LEMMA StoreReadableNext == StoreInv' => ReadIsStored' /\ NeededIsStored'
BY StoreReadable, PTL

\* What a push or a pull answers, the abstract store permits.
LEMMA SummaryPermitted ==
  ASSUME StoreInv, StoreInv', Summary, inited # {}, \A q \in Id : store_[q] <= store_'[q],
         UNCHANGED <<members, inited, epoch>>
  PROVE  StaleStoreOf!Answers
<1>1. PICK answered \in SUBSET Request : AnswersTo(answered)
  BY DEF Summary
<1>2. ReadIsStored' /\ NeededIsStored'
  BY StoreReadableNext
<1>3. ASSUME NEW w \in Workers, pulled'[w] # pulled[w]
      PROVE  /\ w \in members /\ pulled'[w].clock = worker_progress_'[w]
             /\ pulled'[w].clock - Staleness <= min_clock_'
             /\ pulled'[w].view = Retrieve(store_') /\ pulled'[w].min_clock = min_clock_'
  <2>1. \E r \in answered : r.data /\ r.src = w
    BY <1>1, <1>3 DEF AnswersTo, Respond
  <2>2. PICK r \in answered : /\ r.data /\ r.src = w
          /\ pulled'[w] = [clock |-> r.id[3], view |-> Retrieve(store_'), min_clock |-> min_clock_']
    BY <1>1, <2>1 DEF AnswersTo, Respond
  <2>3. /\ r.src \in members /\ r.id[3] = worker_progress_'[r.src]
        /\ r.id[3] - Staleness <= min_clock_'
    BY <1>1, <2>2 DEF AnswersTo
  <2> QED BY <2>2, <2>3
<1> DEFINE c(w) == pulled'[w].clock
           view(w) == pulled'[w].view \cap Controlled
<1>4. ASSUME NEW w \in Workers, pulled'[w] # pulled[w]
      PROVE  /\ {q \in Controlled : store_[q] = 1} \subseteq view(w)
             /\ view(w) \subseteq {q \in Controlled : store_'[q] = 1}
             /\ \A v \in members : /\ worker_progress_'[v] >= c(w) - Staleness
                                   /\ worker_progress_'[v] >= min_clock_'
             /\ \A q \in sent' :
                  \/ q[1] < epoch
                  \/ q[1] = epoch /\ (q[3] < c(w) - Staleness \/ q[3] < min_clock_')
                  \/ q[1] = epoch /\ q[3] < c(w) /\ q[2] = w
                  => q \in view(w)
             /\ \A q \in view(w) : q[1] = epoch => q[3] < c(w) + (Staleness + 1)
  <2>1. /\ w \in members /\ c(w) = worker_progress_'[w] /\ c(w) - Staleness <= min_clock_'
        /\ view(w) = {q \in Controlled : store_'[q] = 1}
    BY <1>2, <1>3, <1>4 DEF ReadIsStored
  <2>2. /\ c(w) \in Nat /\ min_clock_' \in Nat /\ Staleness \in Nat
        /\ worker_progress_' \in [Workers -> Nat] /\ members \subseteq Workers
    <3>1. /\ worker_progress_' \in [Workers -> Clock] /\ min_clock_' \in Clock
          /\ members \subseteq Workers
      BY DEF StoreInv, Inv, TypeOK
    <3> QED BY <2>1, <3>1, SSPAssumption DEF Clock
  <2>3. \A v \in members : worker_progress_'[v] >= min_clock_'
    BY DEF StoreInv, Inv, MinClockExact
  <2>4. \A v \in members : /\ worker_progress_'[v] >= c(w) - Staleness
                           /\ worker_progress_'[v] >= min_clock_'
    BY <2>1, <2>2, <2>3
  <2>5. ASSUME NEW q \in Controlled, store_[q] = 1 PROVE store_'[q] = 1
    <3>1. q \in Id /\ store_[q] <= store_'[q]
      BY ControlledId
    <3>2. store_'[q] \in Nat /\ store_'[q] <= 1
      BY <3>1 DEF StoreInv, StoredOnce, Inv, TypeOK
    <3> QED BY <2>5, <3>1, <3>2
  <2>6. ASSUME NEW q \in sent',
               \/ q[1] < epoch
               \/ q[1] = epoch /\ (q[3] < c(w) - Staleness \/ q[3] < min_clock_')
               \/ q[1] = epoch /\ q[3] < c(w) /\ q[2] = w
        PROVE  q \in view(w)
    <3>1. q \in Controlled /\ store_'[q] = 1
      BY <1>2, <2>1, <2>2, <2>6 DEF NeededIsStored, Needed
    <3> QED BY <2>1, <3>1
  <2>7. ASSUME NEW q \in view(w), q[1] = epoch PROVE q[3] < c(w) + (Staleness + 1)
    <3>1. q \in Id /\ q[3] \in Int /\ store_'[q] = 1 /\ q \in sent'
      BY <2>1, ControlledId, IdParts DEF StoreInv, StoredOnce
    <3>2. q[3] - Staleness <= min_clock_'
      BY <2>7, <3>1 DEF StoreInv, StoredDue
    <3>3. min_clock_' <= c(w)
      BY <2>1, <2>3
    <3> QED BY <2>2, <3>1, <3>2, <3>3
  <2> QED BY <2>1, <2>4, <2>5, <2>6, <2>7
<1>5. (IF inited = {} THEN ZeroProgress ELSE worker_progress_)' = worker_progress_'
  OBVIOUS
<1>6. ASSUME NEW w \in Workers
      PROVE  /\ [v \in Workers |-> [clock |-> pulled[v].clock, view |-> pulled[v].view \cap Controlled,
                                    label |-> pulled[v].min_clock]][w] =
                [clock |-> pulled[w].clock, view |-> pulled[w].view \cap Controlled,
                 label |-> pulled[w].min_clock]
             /\ ([v \in Workers |-> [clock |-> pulled[v].clock, view |-> pulled[v].view \cap Controlled,
                                    label |-> pulled[v].min_clock]]')[w] =
                [clock |-> pulled'[w].clock, view |-> pulled'[w].view \cap Controlled,
                 label |-> pulled'[w].min_clock]
  OBVIOUS
<1>7. \A q \in Controlled : /\ [r \in Controlled |-> store_[r]][q] = store_[q]
                            /\ ([r \in Controlled |-> store_[r]]')[q] = store_'[q]
  OBVIOUS
<1> QED BY <1>3, <1>4, <1>5, <1>6, <1>7 DEF StaleStoreOf!Answers, StaleStoreOf!Permitted
\* Without an answer there is nothing to permit.
LEMMA NoAnswerPermitted ==
  ASSUME pulled' = pulled
  PROVE  StaleStoreOf!Answers
<1>1. [v \in Workers |-> [clock |-> pulled[v].clock, view |-> pulled[v].view \cap Controlled,
                          label |-> pulled[v].min_clock]]' =
      [v \in Workers |-> [clock |-> pulled[v].clock, view |-> pulled[v].view \cap Controlled,
                          label |-> pulled[v].min_clock]]
  OBVIOUS
<1> QED BY <1>1 DEF StaleStoreOf!Answers

\* A push is a push of the abstract store.
LEMMA PushTaken ==
  ASSUME StoreInv, NEW w \in Workers, NEW data \in BOOLEAN, Push(w, data)
  PROVE  StaleStoreOf!TakePush(w)
<1>1. /\ w \in inited /\ w \in members /\ inited # {}
      /\ worker_progress_' = [worker_progress_ EXCEPT ![w] = @ + 1]
      /\ sent' = IF data THEN sent \cup {<<epoch, w, worker_progress_[w]>>} ELSE sent
      /\ UNCHANGED <<members, inited, epoch>>
  BY DEF Push, ProcessPush, env, StoreInv, Inv, TypeOK
<1>2. StoreInv' /\ Summary /\ \A q \in Id : store_[q] <= store_'[q]
  BY PushKeeps
<1>3. StaleStoreOf!Absorb /\ StaleStoreOf!Answers
  BY <1>1, <1>2, SummaryAbsorbed, SummaryPermitted
<1>4. /\ (IF inited = {} THEN ZeroProgress ELSE worker_progress_) = worker_progress_
      /\ (IF inited = {} THEN ZeroProgress ELSE worker_progress_)' = worker_progress_'
  BY <1>1
<1> QED BY <1>1, <1>3, <1>4 DEF StaleStoreOf!TakePush

\* A pull, an Init message and an uncontrolled push only let the store catch up.
LEMMA OthersCatchUp ==
  ASSUME StoreInv, StoreInv', NEW w \in Workers,
         \/ \E data \in BOOLEAN : Pull(w, data)
         \/ InitForConsistencyControl(w)
         \/ PushOff(w)
  PROVE  StaleStoreOf!CatchUp
<1>1. ASSUME NEW data \in BOOLEAN, Pull(w, data) PROVE StaleStoreOf!CatchUp
  <2>1. /\ inited # {} /\ UNCHANGED <<members, inited, epoch, sent, store_, worker_progress_>>
    BY <1>1 DEF Pull, ProcessPull, env
  <2>2. \A q \in Id : store_[q] <= store_'[q]
    BY <2>1 DEF StoreInv, Inv, TypeOK
  <2>3. StaleStoreOf!Absorb /\ StaleStoreOf!Answers
    BY <1>1, <2>1, <2>2, PullKeeps, SummaryAbsorbed, SummaryPermitted
  <2>4. UNCHANGED (IF inited = {} THEN ZeroProgress ELSE worker_progress_)
    BY <2>1
  <2> QED BY <2>1, <2>3, <2>4 DEF StaleStoreOf!CatchUp
<1>2. CASE InitForConsistencyControl(w)
  <2>1. UNCHANGED <<members, epoch, sent, store_, pulled>> /\ inited' # {}
    BY <1>2 DEF InitForConsistencyControl, ProcessInit
  <2>2. \/ init_count_ = 0 /\ worker_progress_' = ZeroProgress
        \/ init_count_ # 0 /\ UNCHANGED worker_progress_
    BY <1>2 DEF InitForConsistencyControl, ProcessInit
  <2>3. init_count_ = 0 <=> inited = {}
    <3>1. inited # members /\ IsFiniteSet(inited)
      BY <1>2, MembersSize, FS_Subset DEF InitForConsistencyControl, StoreInv, Inv, TypeOK
    <3> QED BY <3>1, FS_EmptySet DEF StoreInv, Inv, InitsCounted
  <2>4. UNCHANGED (IF inited = {} THEN ZeroProgress ELSE worker_progress_)
    BY <2>1, <2>2, <2>3
  <2>5. \A q \in Id : store_[q] <= store_'[q]
    BY <2>1 DEF StoreInv, Inv, TypeOK
  <2>6. StaleStoreOf!Absorb /\ StaleStoreOf!Answers
    BY <2>1, <2>5, SummaryAbsorbed, NoAnswerPermitted
  <2> QED BY <2>1, <2>4, <2>6 DEF StaleStoreOf!CatchUp
<1>3. CASE PushOff(w)
  <2> DEFINE req == [src |-> w, id |-> <<epoch, w, NoClock>>, data |-> TRUE]
  <2>1. /\ UNCHANGED <<members, inited, epoch, sent, worker_progress_, pulled>>
        /\ store_' = Update(store_, {req})
    BY <1>3 DEF PushOff, ProcessPushOff, env, control
  <2>2. req \in Request /\ store_ \in [Id -> Nat]
    BY DEF Request, Id, StoreInv, Inv, TypeOK
  <2>3. \A q \in Id : store_'[q] = store_[q] + 1 \/ store_'[q] = store_[q]
    BY <2>1, <2>2, UpdateExact
  <2>4. \A q \in Id : store_[q] <= store_'[q]
    BY <2>2, <2>3
  <2>5. StaleStoreOf!Absorb /\ StaleStoreOf!Answers
    BY <2>1, <2>4, SummaryAbsorbed, NoAnswerPermitted
  <2>6. UNCHANGED (IF inited = {} THEN ZeroProgress ELSE worker_progress_)
    BY <2>1
  <2> QED BY <2>1, <2>5, <2>6 DEF StaleStoreOf!CatchUp
<1> QED BY <1>1, <1>2, <1>3

\* The next instance starts with every push of the last one in the store.
LEMMA NewEpochComplete ==
  ASSUME StoreInv, StoreInv', NewEpoch
  PROVE  StaleStoreOf!NewInstance
<1>1. /\ epoch' = epoch + 1 /\ members' \in (SUBSET Workers) \ {{}} /\ inited' = {}
      /\ pulled' = [v \in Workers |-> NoReply] /\ UNCHANGED <<store_, sent>>
  BY DEF NewEpoch
<1>2. \A q \in sent : q \in Controlled /\ store_[q] = 1
  <2>1. \A q \in sent : q \in Controlled
    BY SentControlled DEF StoreInv, Inv
  <2>2. ASSUME NEW q \in sent PROVE store_[q] = 1
    <3>1. q \in Id /\ q[1] \in Int /\ epoch \in Int /\ q[1] <= epoch
      <4>1. q \in Id /\ epoch \in Epoch /\ q[1] <= epoch
        BY DEF StoreInv, Inv, TypeOK, PushesKept
      <4> QED BY <4>1, IdParts, SSPAssumption DEF Epoch
    <3>2. q \in sent' /\ q[1] < epoch' /\ store_'[q] = store_[q]
      BY <1>1, <3>1
    <3> QED BY <3>2 DEF StoreInv, EarlierStored
  <2> QED BY <2>1, <2>2
<1>3. (IF inited = {} THEN ZeroProgress ELSE worker_progress_)' = [v \in Workers |-> 0]
  BY <1>1 DEF ZeroProgress
<1>4. [v \in Workers |-> [clock |-> pulled[v].clock, view |-> pulled[v].view \cap Controlled,
                          label |-> pulled[v].min_clock]]' =
      [v \in Workers |-> [clock |-> 0, view |-> {}, label |-> 0]]
  <2>1. \A v \in Workers : /\ pulled'[v].clock = 0 /\ pulled'[v].min_clock = 0
                           /\ pulled'[v].view \cap Controlled = {}
    BY <1>1 DEF NoReply
  <2> QED BY <2>1
<1> QED BY <1>1, <1>2, <1>3, <1>4
    DEF StaleStoreOf!NewInstance, StaleStoreOf!Zero, StaleStoreOf!NoAnswer

\* Initial states map to initial states, and steps to steps or stuttering.
LEMMA StoreSteps ==
  /\ Init => StaleStoreOf!StoreInit
  /\ StoreInv /\ StoreInv' /\ [Next]_vars
       => [StaleStoreOf!StoreNext]_(StaleStoreOf!storeVars)
<1>1. ASSUME Init PROVE StaleStoreOf!StoreInit
  <2>1. /\ members \in (SUBSET Workers) \ {{}} /\ epoch = 1 /\ sent = {}
        /\ worker_progress_ = ZeroProgress /\ store_ = [q \in Id |-> 0]
        /\ pulled = [w \in Workers |-> NoReply]
    BY <1>1 DEF Init
  <2>2. (IF inited = {} THEN ZeroProgress ELSE worker_progress_) = [w \in Workers |-> 0]
    BY <2>1 DEF ZeroProgress
  <2>3. [q \in Controlled |-> store_[q]] = [q \in Controlled |-> 0]
    BY <2>1, ControlledId
  <2>4. [v \in Workers |-> [clock |-> pulled[v].clock, view |-> pulled[v].view \cap Controlled,
                            label |-> pulled[v].min_clock]] =
        [v \in Workers |-> [clock |-> 0, view |-> {}, label |-> 0]]
    <3>1. \A v \in Workers : /\ pulled[v].clock = 0 /\ pulled[v].min_clock = 0
                             /\ pulled[v].view \cap Controlled = {}
      BY <2>1 DEF NoReply
    <3> QED BY <3>1
  <2> QED BY <2>1, <2>2, <2>3, <2>4
      DEF StaleStoreOf!StoreInit, StaleStoreOf!Zero, StaleStoreOf!NoAnswer
<1>2. ASSUME StoreInv, StoreInv', Next PROVE StaleStoreOf!StoreNext
  BY <1>2, PushTaken, OthersCatchUp, NewEpochComplete DEF Next, StaleStoreOf!StoreNext
<1>3. ASSUME UNCHANGED vars PROVE UNCHANGED StaleStoreOf!storeVars
  BY <1>3 DEF vars, env, control, StaleStoreOf!storeVars
<1> QED BY <1>1, <1>2, <1>3

------------------------------------------------------------------------------
(* The results.                                                            *)

\* Every push is added at most once and not before its time, and one that is
\* blocked has not been added: the invariant of the refinement holds in every
\* state the server can reach.
THEOREM StoreInvariance == Spec => []StoreInv
BY StoreInvInductive, PTL DEF Spec

\* The server implements the abstract store: whatever it blocks and releases,
\* every push is taken in exactly once, and every answer holds what the
\* staleness promises, the reader's own pushes and everything below its label,
\* and nothing from too far ahead.
THEOREM Refinement == Spec => ImplementsStaleStore
<1>1. StaleStoreOf!StoreInit /\ [][StaleStoreOf!StoreNext]_(StaleStoreOf!storeVars)
        => ImplementsStaleStore
  BY DEF ImplementsStaleStore, StaleStoreOf!StoreSpec
<1> QED BY <1>1, StoreInvariance, StoreSteps, PTL DEF Spec
==============================================================================
