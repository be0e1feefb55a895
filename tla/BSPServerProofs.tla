--------------------------- MODULE BSPServerProofs ---------------------------
(***************************************************************************)
(* Proofs about BSPServer for every set of workers and every bound.        *)
(*                                                                         *)
(* The argument is about the last request of a phase.  The counts of an    *)
(* iteration are the workers past it (CountsExact), so a phase closes when *)
(* no worker is at its iteration any more.  The worker that closes it was  *)
(* the last one there, and since its calls alternate (Alternate) and the   *)
(* phases do too (PhasesAlternate), it has not made the request that the   *)
(* next phase waits for: that phase can be closed in turn (SomeoneAwaited, *)
(* PhaseCanEnd).                                                           *)
(***************************************************************************)
EXTENDS BSPServer, FiniteSetTheorems, TLAPS

------------------------------------------------------------------------------
(* Facts about the operators.                                              *)

\* The size of an instance is between 1 and the size of the cluster.
LEMMA MembersSize ==
  ASSUME NEW S \in (SUBSET Workers) \ {{}}
  PROVE  /\ IsFiniteSet(S)
         /\ Cardinality(S) \in 1 .. Cardinality(Workers)
<1>1. IsFiniteSet(S) /\ Cardinality(S) <= Cardinality(Workers)
  BY FS_Subset, BSPAssumption
<1>2. Cardinality(S) \in Nat /\ Cardinality(S) # 0
  BY <1>1, FS_CardinalityType, FS_EmptySet
<1>3. Cardinality(Workers) \in Nat
  BY FS_CardinalityType, BSPAssumption
<1> QED BY <1>1, <1>2, <1>3

\* update() adds one for every request with data, and nothing else.
LEMMA UpdateExact ==
  ASSUME NEW store \in [Id -> Nat], NEW reqs \in SUBSET Request
  PROVE  /\ Update(store, reqs) \in [Id -> Nat]
         /\ \A q \in Id : (\E r \in reqs : r.data /\ r.id = q) => Update(store, reqs)[q] = store[q] + 1
         /\ \A q \in Id : ~(\E r \in reqs : r.data /\ r.id = q) => Update(store, reqs)[q] = store[q]
BY DEF Update

\* Response() yields answers of the right type.
LEMMA RespondType ==
  ASSUME NEW reqs \in SUBSET Request, NEW store \in [Id -> Nat],
         pulled \in [Workers -> Reply]
  PROVE  Respond(reqs, store) \in [Workers -> Reply]
<1>1. ASSUME NEW w \in Workers PROVE Respond(reqs, store)[w] \in Reply
  <2>1. CASE Respond(reqs, store)[w] = pulled[w]
    BY <2>1
  <2>2. ASSUME NEW r \in reqs,
               Respond(reqs, store)[w] = [iter |-> r.id[3], view |-> Retrieve(store)]
        PROVE  Respond(reqs, store)[w] \in Reply
    <3>1. r.id[3] \in Iter \cup {NoIter}
      BY DEF Request, Id
    <3>2. Retrieve(store) \in SUBSET Id
      BY DEF Retrieve
    <3> QED BY <2>2, <3>1, <3>2 DEF Reply
  <2>3. \/ Respond(reqs, store)[w] = pulled[w]
        \/ \E r \in reqs : Respond(reqs, store)[w] = [iter |-> r.id[3], view |-> Retrieve(store)]
    BY DEF Respond
  <2> QED BY <2>1, <2>2, <2>3
<1> QED BY <1>1 DEF Respond

\* A request at iteration p is counted at p and nowhere else.
LEMMA RequestCounted ==
  ASSUME TypeOK, NEW progress \in [Workers -> Iter], NEW count \in [Iter -> Nat],
         \A k \in Iter : count[k] = Cardinality(Past(progress, k)),
         NEW w \in members, progress[w] < MaxIter
  PROVE  \A k \in Iter : [count EXCEPT ![progress[w]] = @ + 1][k]
                         = Cardinality(Past([progress EXCEPT ![w] = @ + 1], k))
<1> DEFINE p == progress[w]
           after == [progress EXCEPT ![w] = @ + 1]
<1>1. w \in Workers /\ p \in Iter /\ members \subseteq Workers /\ MaxIter \in Nat
  BY BSPAssumption DEF TypeOK
<1>2. SUFFICES ASSUME NEW k \in Iter
               PROVE  [count EXCEPT ![p] = @ + 1][k] = Cardinality(Past(after, k))
  OBVIOUS
<1>3. count[k] = Cardinality(Past(progress, k))
  OBVIOUS
<1>4. CASE k = p
  <2>1. Past(after, k) = Past(progress, k) \cup {w} /\ w \notin Past(progress, k)
    BY <1>1, <1>4 DEF Past, Iter
  <2>2. IsFiniteSet(Past(progress, k))
    BY FS_Subset, MembersSize DEF Past, TypeOK
  <2>3. Cardinality(Past(after, k)) = Cardinality(Past(progress, k)) + 1
    BY <2>1, <2>2, FS_AddElement
  <2> QED BY <1>1, <1>3, <1>4, <2>3
<1>5. CASE k # p
  <2>1. Past(after, k) = Past(progress, k)
    BY <1>1, <1>5 DEF Past, Iter
  <2> QED BY <1>1, <1>3, <1>5, <2>1
<1> QED BY <1>4, <1>5

\* A count is full exactly when every worker is past the iteration.
LEMMA FullCount ==
  ASSUME TypeOK, NEW progress, NEW k
  PROVE  /\ Cardinality(Past(progress, k)) \in Nat
         /\ Cardinality(Past(progress, k)) <= Cardinality(members)
         /\ Cardinality(Past(progress, k)) = Cardinality(members)
              <=> \A w \in members : progress[w] > k
<1>1. IsFiniteSet(members) /\ Past(progress, k) \subseteq members
  BY MembersSize DEF TypeOK, Past
<1>2. /\ IsFiniteSet(Past(progress, k))
      /\ Cardinality(Past(progress, k)) <= Cardinality(members)
      /\ Cardinality(Past(progress, k)) = Cardinality(members) => Past(progress, k) = members
  BY <1>1, FS_Subset
<1>3. Cardinality(Past(progress, k)) \in Nat
  BY <1>2, FS_CardinalityType
<1>4. Past(progress, k) = members <=> \A w \in members : progress[w] > k
  BY DEF Past
<1> QED BY <1>2, <1>3, <1>4

------------------------------------------------------------------------------
(* Every step preserves the invariant.                                     *)

\* An InitForConsistencyControl message, the first of its epoch or a later
\* one, preserves the invariant: after the first one nobody is anywhere yet.
LEMMA InitStep ==
  ASSUME Inv, NEW w \in Workers, InitForConsistencyControl(w)
  PROVE  Inv'
<1> USE DEF Inv
<1>1. PICK n \in NextNumWorkers : ProcessInit(n)
  BY DEF InitForConsistencyControl
<1>2. /\ w \in members \ inited /\ inited' = inited \cup {w}
      /\ UNCHANGED <<members, epoch, init_reply_phase_, sent, store_, pulled>>
  BY <1>1 DEF InitForConsistencyControl, ProcessInit
<1>3. /\ IsFiniteSet(members) /\ Cardinality(members) \in 1 .. Cardinality(Workers)
      /\ IsFiniteSet(inited) /\ Cardinality(inited) \in Nat
      /\ Cardinality(Workers) \in Nat
  <2>1. IsFiniteSet(members) /\ Cardinality(members) \in 1 .. Cardinality(Workers)
    BY MembersSize DEF TypeOK
  <2>2. IsFiniteSet(inited)
    BY <2>1, FS_Subset DEF TypeOK
  <2> QED BY <2>1, <2>2, FS_CardinalityType, BSPAssumption
<1>4. init_count_ = Cardinality(inited) /\ (init_count_ = 0 <=> inited = {})
  BY <1>2, <1>3, FS_EmptySet DEF InitsCounted
<1>5. num_workers_' = Cardinality(members)
  <2>1. n = Cardinality(members) \/ num_workers_ = Cardinality(members)
    BY DEF NextNumWorkers
  <2>2. init_count_ # 0 => num_workers_ = Cardinality(members)
    BY <1>4 DEF SizeKnown
  <2>3. n # -1 => n = Cardinality(members)
    BY DEF NextNumWorkers
  <2> QED BY <1>1, <2>1, <2>2, <2>3, <1>3 DEF ProcessInit, NextNumWorkers
<1>6. /\ Cardinality(inited') = init_count_ + 1
      /\ Cardinality(inited') <= Cardinality(members)
      /\ inited' = members <=> init_count_ + 1 = Cardinality(members)
  <2>1. Cardinality(inited') = init_count_ + 1
    BY <1>2, <1>3, <1>4, FS_AddElement
  <2>2. inited' \in SUBSET members
    BY <1>2 DEF TypeOK
  <2> QED BY <2>1, <2>2, <1>3, FS_Subset
<1>7. init_count_' = IF init_count_ + 1 = Cardinality(members) THEN 0 ELSE init_count_ + 1
  BY <1>1, <1>5 DEF ProcessInit, NextInitCount
<1>8. InitsCounted' /\ SizeKnown'
  BY <1>2, <1>5, <1>6, <1>7 DEF InitsCounted, SizeKnown
<1>9. init_count_' \in 0 .. Cardinality(Workers) - 1
  BY <1>3, <1>4, <1>6, <1>7
<1>10. CASE init_count_ = 0
  <2>1. /\ push_iter_' = 0 /\ pull_iter_' = 0
        /\ push_count_' = ZeroCounts /\ pull_count_' = ZeroCounts
        /\ push_progress_' = ZeroProgress /\ pull_progress_' = ZeroProgress
        /\ blocked_pushes_' = EmptyBuckets /\ blocked_pulls_' = EmptyBuckets
        /\ reply_phase_' = init_reply_phase_
    BY <1>1, <1>10 DEF ProcessInit
  <2>2. TypeOK'
    <3>1. init_reply_phase_' \in BOOLEAN /\ reply_phase_' \in BOOLEAN
      BY <1>2, <2>1, Zenon DEF TypeOK
    <3>2. /\ push_progress_' \in [Workers -> Iter] /\ pull_progress_' \in [Workers -> Iter]
          /\ push_count_' \in [Iter -> Nat] /\ pull_count_' \in [Iter -> Nat]
          /\ push_iter_' \in Iter /\ pull_iter_' \in Iter
          /\ blocked_pushes_' \in [Iter -> SUBSET Request]
          /\ blocked_pulls_' \in [Iter -> SUBSET Request]
      BY <2>1, BSPAssumption DEF Iter, ZeroProgress, ZeroCounts, EmptyBuckets
    <3> QED BY <1>2, <1>3, <1>5, <1>9, <3>1, <3>2 DEF TypeOK
  <2>3. CountsExact'
    <3>1. \A k \in Iter : Past(push_progress_, k)' = {} /\ Past(pull_progress_, k)' = {}
      BY <1>2, <2>1 DEF Past, ZeroProgress, Iter, TypeOK
    <3> QED BY <2>1, <3>1, FS_EmptySet DEF CountsExact, ZeroCounts
  <2>4. \A v \in members' : push_progress_'[v] = 0 /\ pull_progress_'[v] = 0
    BY <1>2, <2>1 DEF ZeroProgress, TypeOK
  <2>5. Alternate' /\ NoneBehind'
    BY <2>1, <2>4 DEF Alternate, NoneBehind
  <2>6. PhasesAlternate'
    BY <1>2, <2>1 DEF PhasesAlternate
  <2>7. SomeoneAwaited'
    BY <1>2, <2>1, <2>4 DEF SomeoneAwaited
  <2> QED BY <1>8, <2>2, <2>3, <2>5, <2>6, <2>7
<1>11. CASE init_count_ # 0
  <2>1. UNCHANGED <<pushState, pullState, reply_phase_>>
    BY <1>1, <1>11 DEF ProcessInit
  <2>2. inited # {} /\ inited' # {}
    BY <1>2, <1>4, <1>11
  <2>3. TypeOK'
    BY <1>2, <1>3, <1>5, <1>9, <2>1 DEF TypeOK, pushState, pullState
  <2>4. CountsExact'
    BY <1>2, <2>1, <2>2 DEF CountsExact, Past, pushState, pullState
  <2>5. Alternate' /\ NoneBehind'
    BY <1>2, <2>1, <2>2 DEF Alternate, NoneBehind, pushState, pullState
  <2>6. PhasesAlternate' /\ SomeoneAwaited'
    BY <1>2, <2>1, <2>2 DEF PhasesAlternate, SomeoneAwaited, pushState, pullState
  <2> QED BY <1>8, <2>3, <2>4, <2>5, <2>6
<1> QED BY <1>10, <1>11

\* Starting the next instance preserves the invariant.
LEMMA NewEpochStep ==
  ASSUME Inv, NewEpoch
  PROVE  Inv'
<1> USE DEF Inv
<1>1. /\ epoch' = epoch + 1 /\ epoch < MaxEpoch /\ inited' = {} /\ inited = members
      /\ members' \in (SUBSET Workers) \ {{}}
      /\ pulled' = [v \in Workers |-> NoReply]
      /\ UNCHANGED <<control, init_reply_phase_, store_, sent>>
  BY DEF NewEpoch
<1>2. TypeOK'
  <2>1. NoReply \in Reply
    BY DEF NoReply, Reply
  <2> QED BY <1>1, <2>1, BSPAssumption DEF TypeOK, Epoch, control, pushState, pullState
<1>3. InitsCounted'
  BY <1>1, FS_EmptySet DEF InitsCounted, control
<1>4. /\ SizeKnown' /\ CountsExact' /\ Alternate' /\ PhasesAlternate' /\ NoneBehind'
      /\ SomeoneAwaited'
  BY <1>1 DEF SizeKnown, CountsExact, Alternate, PhasesAlternate, NoneBehind, SomeoneAwaited
<1> QED BY <1>2, <1>3, <1>4

\* A push outside consistency control preserves the invariant.
LEMMA PushOffStep ==
  ASSUME Inv, NEW w \in Workers, PushOff(w)
  PROVE  Inv'
<1> USE DEF Inv
<1> DEFINE req == [src |-> w, id |-> <<epoch, w, NoIter>>, data |-> TRUE]
<1>1. store_' = Update(store_, {req}) /\ UNCHANGED <<env, control, sent, pulled>>
  BY DEF PushOff, ProcessPushOff
<1>2. {req} \in SUBSET Request
  BY DEF Request, Id, TypeOK
<1>3. store_' \in [Id -> Nat]
  BY <1>1, <1>2, UpdateExact DEF TypeOK
<1>4. TypeOK'
  BY <1>1, <1>3 DEF TypeOK, env, control, pushState, pullState
<1> QED
  BY <1>1, <1>4 DEF env, control, pushState, pullState, InitsCounted, SizeKnown, CountsExact,
     Past, Alternate, PhasesAlternate, NoneBehind, SomeoneAwaited

\* A push, processed or buffered, preserves the invariant.  If it closes the
\* push phase, its sender is awaited in the reply phase that follows.
LEMMA PushStep ==
  ASSUME Inv, NEW w \in Workers, NEW data \in BOOLEAN, Push(w, data)
  PROVE  Inv'
<1> USE DEF Inv
<1> DEFINE p == push_progress_[w]
           id == <<epoch, w, p>>
           req == [src |-> w, id |-> id, data |-> data]
           count == [push_count_ EXCEPT ![p] = @ + 1]
<1>1. /\ w \in inited /\ w \in members /\ inited # {} /\ p \in Iter /\ p < MaxIter
      /\ epoch \in Epoch /\ push_iter_ \in Iter /\ pull_iter_ \in Iter /\ MaxIter \in Nat
      /\ pull_progress_[w] \in Iter /\ members \subseteq Workers
      /\ push_progress_ \in [Workers -> Iter] /\ pull_progress_ \in [Workers -> Iter]
      /\ push_count_ \in [Iter -> Nat]
  BY BSPAssumption DEF Push, TypeOK
<1>2. id \in Id /\ req \in Request
  BY <1>1 DEF Request, Id
<1>3. /\ push_count_' = count
      /\ push_progress_' = [push_progress_ EXCEPT ![w] = @ + 1]
      /\ sent' = IF data THEN sent \cup {id} ELSE sent
      /\ UNCHANGED <<members, inited, epoch, init_reply_phase_, num_workers_, init_count_,
                     pull_iter_, pull_count_, pull_progress_>>
      /\ IF BuffersPush(p)
           THEN /\ blocked_pushes_' = [blocked_pushes_ EXCEPT ![p] = @ \cup {req}]
                /\ UNCHANGED <<push_iter_, reply_phase_, blocked_pulls_, store_, pulled>>
           ELSE /\ store_' = Update(store_, {req})
                /\ UNCHANGED blocked_pushes_
                /\ IF CollectedAll(count, push_iter_)
                     THEN /\ pulled' = Respond(blocked_pulls_[pull_iter_], Update(store_, {req}))
                          /\ blocked_pulls_' = [blocked_pulls_ EXCEPT ![pull_iter_] = {}]
                          /\ reply_phase_' = TRUE
                          /\ push_iter_' = push_iter_ + 1
                     ELSE UNCHANGED <<push_iter_, reply_phase_, blocked_pulls_, pulled>>
  BY DEF Push, ProcessPush, env
<1>4. /\ push_progress_' \in [Workers -> Iter]
      /\ push_progress_'[w] = p + 1
      /\ \A v \in Workers : v # w => push_progress_'[v] = push_progress_[v]
      /\ \A v \in Workers : push_progress_'[v] >= push_progress_[v]
  <2>1. push_progress_' = [push_progress_ EXCEPT ![w] = @ + 1]
    BY <1>3
  <2>2. p + 1 \in Iter /\ p \in Int /\ \A v \in Workers : push_progress_[v] \in Int
    BY <1>1 DEF Iter
  <2> QED BY <1>1, <2>1, <2>2
<1>5. sent' \in SUBSET Id /\ push_count_' \in [Iter -> Nat]
  BY <1>1, <1>2, <1>3 DEF TypeOK
<1>6. InitsCounted' /\ SizeKnown'
  BY <1>3 DEF InitsCounted, SizeKnown
<1>7. CountsExact'
  <2>1. /\ \A k \in Iter : push_count_[k] = Cardinality(Past(push_progress_, k))
        /\ \A k \in Iter : pull_count_[k] = Cardinality(Past(pull_progress_, k))
    BY <1>1 DEF CountsExact
  <2>2. \A k \in Iter : count[k] = Cardinality(Past([push_progress_ EXCEPT ![w] = @ + 1], k))
    BY <1>1, <2>1, RequestCounted
  <2>3. \A k \in Iter : /\ Past(push_progress_, k)' = Past([push_progress_ EXCEPT ![w] = @ + 1], k)
                        /\ Past(pull_progress_, k)' = Past(pull_progress_, k)
    BY <1>3 DEF Past
  <2> QED BY <1>3, <2>1, <2>2, <2>3 DEF CountsExact
\* The call before was a pull of this iteration, or of the one before.
<1>8. IF init_reply_phase_ THEN pull_progress_[w] = p + 1 ELSE pull_progress_[w] = p
  <2>1. ~NextIsPull(w)
    BY DEF Push
  <2> QED BY <1>1, <2>1 DEF NextIsPull, Alternate, Iter
<1>9. Alternate'
  BY <1>1, <1>3, <1>4, <1>8 DEF Alternate, Iter
<1>10. \A v \in members : push_iter_ <= push_progress_[v] /\ pull_iter_ <= pull_progress_[v]
  BY <1>1 DEF NoneBehind
<1>11. CASE BuffersPush(p)
  <2>1. /\ blocked_pushes_' = [blocked_pushes_ EXCEPT ![p] = @ \cup {req}]
        /\ UNCHANGED <<push_iter_, reply_phase_, blocked_pulls_, store_, pulled>>
    BY <1>3, <1>11
  <2>2. blocked_pushes_' \in [Iter -> SUBSET Request]
    BY <1>1, <1>2, <2>1 DEF TypeOK
  <2>3. TypeOK'
    BY <1>3, <1>4, <1>5, <2>1, <2>2 DEF TypeOK
  <2>4. PhasesAlternate'
    BY <1>3, <2>1 DEF PhasesAlternate
  <2>5. NoneBehind'
    <3>1. \A v \in members : /\ push_progress_[v] \in Int /\ push_progress_'[v] \in Int
                             /\ push_progress_'[v] >= push_progress_[v] /\ push_iter_ \in Int
      BY <1>1, <1>4 DEF Iter
    <3>2. \A v \in members : push_iter_ <= push_progress_'[v]
      BY <1>10, <3>1
    <3> QED BY <1>3, <1>10, <2>1, <3>2 DEF NoneBehind
  <2>6. SomeoneAwaited'
    <3>1. CASE reply_phase_
      BY <1>1, <1>3, <2>1, <3>1 DEF SomeoneAwaited
    <3>2. CASE ~reply_phase_
      <4>1. PICK v \in members : push_progress_[v] = push_iter_
        BY <1>1, <3>2 DEF SomeoneAwaited
      <4>2. v # w
        BY <1>11, <3>2, <4>1 DEF BuffersPush
      <4>3. push_progress_'[v] = push_iter_' /\ v \in members'
        BY <1>1, <1>3, <1>4, <2>1, <4>1, <4>2
      <4> QED BY <2>1, <3>2, <4>3 DEF SomeoneAwaited
    <3> QED BY <3>1, <3>2
  <2> QED BY <1>6, <1>7, <1>9, <2>3, <2>4, <2>5, <2>6
<1>12. CASE ~BuffersPush(p)
  <2>1. ~reply_phase_ /\ p = push_iter_ /\ UNCHANGED blocked_pushes_
    BY <1>3, <1>12 DEF BuffersPush
  <2>2. store_' = Update(store_, {req}) /\ store_' \in [Id -> Nat]
    <3>1. store_' = Update(store_, {req}) /\ {req} \in SUBSET Request
      BY <1>2, <1>3, <1>12
    <3> QED BY <3>1, UpdateExact DEF TypeOK
  <2>3. CollectedAll(count, push_iter_) <=> \A v \in members : push_progress_'[v] > push_iter_
    <3>1. num_workers_ = Cardinality(members)
      BY <1>1 DEF SizeKnown
    <3>2. count[push_iter_] = Cardinality(Past(push_progress_', push_iter_))
      BY <1>1, <1>3, <1>7 DEF CountsExact, Past
    <3> QED BY <3>1, <3>2, FullCount DEF CollectedAll
  <2>4. \A v \in members : push_progress_'[v] \in Int /\ push_iter_ \in Int
                           /\ push_iter_ <= push_progress_'[v]
    <3>1. \A v \in members : /\ push_progress_[v] \in Int /\ push_progress_'[v] \in Int
                             /\ push_progress_'[v] >= push_progress_[v] /\ push_iter_ \in Int
      BY <1>1, <1>4 DEF Iter
    <3> QED BY <1>10, <3>1
  <2>5. CASE CollectedAll(count, push_iter_)
    <3>1. /\ pulled' = Respond(blocked_pulls_[pull_iter_], store_')
          /\ blocked_pulls_' = [blocked_pulls_ EXCEPT ![pull_iter_] = {}]
          /\ reply_phase_' = TRUE
          /\ push_iter_' = push_iter_ + 1
      BY <1>3, <1>12, <2>2, <2>5
    <3>2. blocked_pulls_' \in [Iter -> SUBSET Request] /\ push_iter_' \in Iter
      BY <1>1, <2>1, <3>1 DEF TypeOK, Iter
    <3>3. pulled' \in [Workers -> Reply]
      BY <1>1, <2>2, <3>1, RespondType DEF TypeOK
    <3>4. TypeOK'
      BY <1>3, <1>4, <1>5, <2>1, <2>2, <3>1, <3>2, <3>3 DEF TypeOK
    <3>5. PhasesAlternate'
      BY <1>1, <1>3, <2>1, <3>1 DEF PhasesAlternate, Iter
    <3>6. NoneBehind'
      BY <1>3, <1>10, <2>3, <2>4, <2>5, <3>1 DEF NoneBehind
    <3>7. pull_progress_[w] = pull_iter_
      BY <1>1, <1>8, <2>1 DEF PhasesAlternate, Iter
    <3>8. SomeoneAwaited'
      BY <1>1, <1>3, <3>1, <3>7 DEF SomeoneAwaited
    <3> QED BY <1>6, <1>7, <1>9, <3>4, <3>5, <3>6, <3>8
  <2>6. CASE ~CollectedAll(count, push_iter_)
    <3>1. UNCHANGED <<push_iter_, reply_phase_, blocked_pulls_, pulled>>
      BY <1>3, <1>12, <2>6
    <3>2. TypeOK'
      BY <1>3, <1>4, <1>5, <2>1, <2>2, <3>1 DEF TypeOK
    <3>3. PhasesAlternate'
      BY <1>3, <3>1 DEF PhasesAlternate
    <3>4. NoneBehind'
      BY <1>3, <1>10, <2>4, <3>1 DEF NoneBehind
    <3>5. SomeoneAwaited'
      <4>1. PICK v \in members : ~(push_progress_'[v] > push_iter_)
        BY <2>3, <2>6
      <4>2. push_progress_'[v] = push_iter_
        BY <2>4, <4>1
      <4> QED BY <1>3, <2>1, <3>1, <4>2 DEF SomeoneAwaited
    <3> QED BY <1>6, <1>7, <1>9, <3>2, <3>3, <3>4, <3>5
  <2> QED BY <2>5, <2>6
<1> QED BY <1>11, <1>12

\* A pull, answered or buffered, preserves the invariant.  If it closes the
\* reply phase, its sender is awaited in the push phase that follows.
LEMMA PullStep ==
  ASSUME Inv, NEW w \in Workers, NEW data \in BOOLEAN, Pull(w, data)
  PROVE  Inv'
<1> USE DEF Inv
<1> DEFINE p == pull_progress_[w]
           req == [src |-> w, id |-> <<epoch, w, p>>, data |-> data]
           count == [pull_count_ EXCEPT ![p] = @ + 1]
<1>1. /\ w \in inited /\ w \in members /\ inited # {} /\ p \in Iter /\ p < MaxIter
      /\ epoch \in Epoch /\ push_iter_ \in Iter /\ pull_iter_ \in Iter /\ MaxIter \in Nat
      /\ push_progress_[w] \in Iter /\ members \subseteq Workers
      /\ push_progress_ \in [Workers -> Iter] /\ pull_progress_ \in [Workers -> Iter]
      /\ pull_count_ \in [Iter -> Nat]
  BY BSPAssumption DEF Pull, TypeOK
<1>2. req \in Request
  BY <1>1 DEF Request, Id
<1>3. /\ pull_count_' = count
      /\ pull_progress_' = [pull_progress_ EXCEPT ![w] = @ + 1]
      /\ UNCHANGED <<members, inited, epoch, init_reply_phase_, num_workers_, init_count_,
                     push_iter_, push_count_, push_progress_, sent>>
      /\ IF BuffersPull(p)
           THEN /\ blocked_pulls_' = [blocked_pulls_ EXCEPT ![p] = @ \cup {req}]
                /\ UNCHANGED <<pull_iter_, reply_phase_, blocked_pushes_, store_, pulled>>
           ELSE /\ pulled' = Respond({req}, store_)
                /\ UNCHANGED blocked_pulls_
                /\ IF CollectedAll(count, pull_iter_)
                     THEN /\ store_' = Update(store_, blocked_pushes_[push_iter_])
                          /\ blocked_pushes_' = [blocked_pushes_ EXCEPT ![push_iter_] = {}]
                          /\ reply_phase_' = FALSE
                          /\ pull_iter_' = pull_iter_ + 1
                     ELSE UNCHANGED <<pull_iter_, reply_phase_, blocked_pushes_, store_>>
  BY DEF Pull, ProcessPull, env
<1>4. /\ pull_progress_' \in [Workers -> Iter]
      /\ pull_progress_'[w] = p + 1
      /\ \A v \in Workers : v # w => pull_progress_'[v] = pull_progress_[v]
      /\ \A v \in Workers : pull_progress_'[v] >= pull_progress_[v]
  <2>1. pull_progress_' = [pull_progress_ EXCEPT ![w] = @ + 1]
    BY <1>3
  <2>2. p + 1 \in Iter /\ p \in Int /\ \A v \in Workers : pull_progress_[v] \in Int
    BY <1>1 DEF Iter
  <2> QED BY <1>1, <2>1, <2>2
<1>5. pull_count_' \in [Iter -> Nat]
  BY <1>1, <1>3
<1>6. InitsCounted' /\ SizeKnown'
  BY <1>3 DEF InitsCounted, SizeKnown
<1>7. CountsExact'
  <2>1. /\ \A k \in Iter : push_count_[k] = Cardinality(Past(push_progress_, k))
        /\ \A k \in Iter : pull_count_[k] = Cardinality(Past(pull_progress_, k))
    BY <1>1 DEF CountsExact
  <2>2. \A k \in Iter : count[k] = Cardinality(Past([pull_progress_ EXCEPT ![w] = @ + 1], k))
    BY <1>1, <2>1, RequestCounted
  <2>3. \A k \in Iter : /\ Past(pull_progress_, k)' = Past([pull_progress_ EXCEPT ![w] = @ + 1], k)
                        /\ Past(push_progress_, k)' = Past(push_progress_, k)
    BY <1>3 DEF Past
  <2> QED BY <1>3, <2>1, <2>2, <2>3 DEF CountsExact
\* The call before was a push of the iteration before, or of this one.
<1>8. IF init_reply_phase_ THEN push_progress_[w] = p ELSE push_progress_[w] = p + 1
  <2>1. NextIsPull(w)
    BY DEF Pull
  <2> QED BY <1>1, <2>1 DEF NextIsPull, Alternate, Iter
<1>9. Alternate'
  BY <1>1, <1>3, <1>4, <1>8 DEF Alternate, Iter
<1>10. \A v \in members : push_iter_ <= push_progress_[v] /\ pull_iter_ <= pull_progress_[v]
  BY <1>1 DEF NoneBehind
<1>11. CASE BuffersPull(p)
  <2>1. /\ blocked_pulls_' = [blocked_pulls_ EXCEPT ![p] = @ \cup {req}]
        /\ UNCHANGED <<pull_iter_, reply_phase_, blocked_pushes_, store_, pulled>>
    BY <1>3, <1>11
  <2>2. blocked_pulls_' \in [Iter -> SUBSET Request]
    BY <1>1, <1>2, <2>1 DEF TypeOK
  <2>3. TypeOK'
    BY <1>3, <1>4, <1>5, <2>1, <2>2 DEF TypeOK
  <2>4. PhasesAlternate'
    BY <1>3, <2>1 DEF PhasesAlternate
  <2>5. NoneBehind'
    <3>1. \A v \in members : /\ pull_progress_[v] \in Int /\ pull_progress_'[v] \in Int
                             /\ pull_progress_'[v] >= pull_progress_[v] /\ pull_iter_ \in Int
      BY <1>1, <1>4 DEF Iter
    <3>2. \A v \in members : pull_iter_ <= pull_progress_'[v]
      BY <1>10, <3>1
    <3> QED BY <1>3, <1>10, <2>1, <3>2 DEF NoneBehind
  <2>6. SomeoneAwaited'
    <3>1. CASE ~reply_phase_
      BY <1>1, <1>3, <2>1, <3>1 DEF SomeoneAwaited
    <3>2. CASE reply_phase_
      <4>1. PICK v \in members : pull_progress_[v] = pull_iter_
        BY <1>1, <3>2 DEF SomeoneAwaited
      <4>2. v # w
        BY <1>11, <3>2, <4>1 DEF BuffersPull
      <4>3. pull_progress_'[v] = pull_iter_' /\ v \in members'
        BY <1>1, <1>3, <1>4, <2>1, <4>1, <4>2
      <4> QED BY <2>1, <3>2, <4>3 DEF SomeoneAwaited
    <3> QED BY <3>1, <3>2
  <2> QED BY <1>6, <1>7, <1>9, <2>3, <2>4, <2>5, <2>6
<1>12. CASE ~BuffersPull(p)
  <2>1. reply_phase_ /\ p = pull_iter_ /\ UNCHANGED blocked_pulls_
    BY <1>3, <1>12 DEF BuffersPull
  <2>2. pulled' = Respond({req}, store_) /\ pulled' \in [Workers -> Reply]
    <3>1. pulled' = Respond({req}, store_) /\ {req} \in SUBSET Request
      BY <1>2, <1>3, <1>12
    <3> QED BY <3>1, RespondType DEF TypeOK
  <2>3. CollectedAll(count, pull_iter_) <=> \A v \in members : pull_progress_'[v] > pull_iter_
    <3>1. num_workers_ = Cardinality(members)
      BY <1>1 DEF SizeKnown
    <3>2. count[pull_iter_] = Cardinality(Past(pull_progress_', pull_iter_))
      BY <1>1, <1>3, <1>7 DEF CountsExact, Past
    <3> QED BY <3>1, <3>2, FullCount DEF CollectedAll
  <2>4. \A v \in members : pull_progress_'[v] \in Int /\ pull_iter_ \in Int
                           /\ pull_iter_ <= pull_progress_'[v]
    <3>1. \A v \in members : /\ pull_progress_[v] \in Int /\ pull_progress_'[v] \in Int
                             /\ pull_progress_'[v] >= pull_progress_[v] /\ pull_iter_ \in Int
      BY <1>1, <1>4 DEF Iter
    <3> QED BY <1>10, <3>1
  <2>5. CASE CollectedAll(count, pull_iter_)
    <3>1. /\ store_' = Update(store_, blocked_pushes_[push_iter_])
          /\ blocked_pushes_' = [blocked_pushes_ EXCEPT ![push_iter_] = {}]
          /\ reply_phase_' = FALSE
          /\ pull_iter_' = pull_iter_ + 1
      BY <1>3, <1>12, <2>5
    <3>2. blocked_pushes_' \in [Iter -> SUBSET Request] /\ pull_iter_' \in Iter
      BY <1>1, <2>1, <3>1 DEF TypeOK, Iter
    <3>3. store_' \in [Id -> Nat]
      BY <1>1, <3>1, UpdateExact DEF TypeOK
    <3>4. TypeOK'
      BY <1>3, <1>4, <1>5, <2>1, <2>2, <3>1, <3>2, <3>3 DEF TypeOK
    <3>5. PhasesAlternate'
      BY <1>1, <1>3, <2>1, <3>1 DEF PhasesAlternate, Iter
    <3>6. NoneBehind'
      BY <1>3, <1>10, <2>3, <2>4, <2>5, <3>1 DEF NoneBehind
    <3>7. push_progress_[w] = push_iter_
      BY <1>1, <1>8, <2>1 DEF PhasesAlternate, Iter
    <3>8. SomeoneAwaited'
      BY <1>1, <1>3, <3>1, <3>7 DEF SomeoneAwaited
    <3> QED BY <1>6, <1>7, <1>9, <3>4, <3>5, <3>6, <3>8
  <2>6. CASE ~CollectedAll(count, pull_iter_)
    <3>1. UNCHANGED <<pull_iter_, reply_phase_, blocked_pushes_, store_>>
      BY <1>3, <1>12, <2>6
    <3>2. TypeOK'
      BY <1>3, <1>4, <1>5, <2>1, <2>2, <3>1 DEF TypeOK
    <3>3. PhasesAlternate'
      BY <1>3, <3>1 DEF PhasesAlternate
    <3>4. NoneBehind'
      BY <1>3, <1>10, <2>4, <3>1 DEF NoneBehind
    <3>5. SomeoneAwaited'
      <4>1. PICK v \in members : ~(pull_progress_'[v] > pull_iter_)
        BY <2>3, <2>6
      <4>2. pull_progress_'[v] = pull_iter_
        BY <2>4, <4>1
      <4> QED BY <1>3, <2>1, <3>1, <4>2 DEF SomeoneAwaited
    <3> QED BY <1>6, <1>7, <1>9, <3>2, <3>3, <3>4, <3>5
  <2> QED BY <2>5, <2>6
<1> QED BY <1>11, <1>12

\* A new server satisfies the invariant.
LEMMA InitialInv == Init => Inv
<1> SUFFICES ASSUME Init PROVE Inv
  OBVIOUS
<1>1. /\ Cardinality(members) \in 1 .. Cardinality(Workers) /\ Cardinality(Workers) \in Nat
      /\ members # {} /\ members \subseteq Workers
  BY MembersSize, FS_CardinalityType, BSPAssumption DEF Init
<1>2. TypeOK
  <2>1. NoReply \in Reply
    BY DEF NoReply, Reply
  <2>2. inited \in SUBSET members
    BY DEF Init
  <2> QED BY <1>1, <2>1, <2>2, BSPAssumption
      DEF Init, TypeOK, Iter, Epoch, ZeroProgress, ZeroCounts, EmptyBuckets
<1>3. CountsExact
  <2>1. \A k \in Iter : Past(push_progress_, k) = {} /\ Past(pull_progress_, k) = {}
    BY DEF Init, Past, ZeroProgress, Iter
  <2> QED BY <2>1, FS_EmptySet DEF Init, CountsExact, ZeroCounts
<1>4. InitsCounted /\ SizeKnown
  BY <1>1, FS_EmptySet DEF Init, InitsCounted, SizeKnown
<1>5. \A v \in members : push_progress_[v] = 0 /\ pull_progress_[v] = 0
  BY <1>1 DEF Init, ZeroProgress
<1>6. inited # {} => init_reply_phase_
  BY DEF Init
<1>7. Alternate /\ NoneBehind
  BY <1>5 DEF Init, Alternate, NoneBehind
<1>8. PhasesAlternate
  BY <1>6 DEF Init, PhasesAlternate
<1>9. SomeoneAwaited
  BY <1>1, <1>5 DEF Init, SomeoneAwaited
<1> QED BY <1>2, <1>3, <1>4, <1>7, <1>8, <1>9 DEF Inv

\* Every step of the server and of its workers preserves the invariant.
LEMMA NextInv == Inv /\ [Next]_vars => Inv'
<1>1. ASSUME Inv, UNCHANGED vars PROVE Inv'
  <2> USE <1>1 DEF Inv, vars, env, control, pushState, pullState
  <2>1. TypeOK'
    BY DEF TypeOK
  <2>2. InitsCounted' /\ SizeKnown' /\ CountsExact'
    BY DEF InitsCounted, SizeKnown, CountsExact, Past
  <2>3. Alternate' /\ PhasesAlternate' /\ NoneBehind' /\ SomeoneAwaited'
    BY DEF Alternate, PhasesAlternate, NoneBehind, SomeoneAwaited
  <2> QED BY <2>1, <2>2, <2>3
<1>2. ASSUME Inv, Next PROVE Inv'
  BY <1>2, InitStep, NewEpochStep, PushStep, PullStep, PushOffStep DEF Next
<1> QED BY <1>1, <1>2

------------------------------------------------------------------------------
(* The phases never get stuck.                                             *)

\* The invariant holds in every state the server can reach.
THEOREM Invariance == Spec => []Inv
BY InitialInv, NextInv, PTL DEF Spec

\* Every variable keeps its type; the iterations in particular stay inside
\* the vectors that they index.
THEOREM TypeCorrect == Spec => []TypeOK
<1>1. Inv => TypeOK
  BY DEF Inv
<1> QED BY <1>1, Invariance, PTL

\* A phase never waits for a request that has been buffered already: the
\* count that its end is tested against has not been reached.
THEOREM PhaseEnds == Spec => []PhaseCanEnd
<1>1. ASSUME Inv PROVE PhaseCanEnd
  <2>1. SUFFICES ASSUME inited # {}
                 PROVE  IF reply_phase_ THEN pull_count_[pull_iter_] < num_workers_
                                        ELSE push_count_[push_iter_] < num_workers_
    BY DEF PhaseCanEnd
  <2>2. /\ num_workers_ = Cardinality(members) /\ push_iter_ \in Iter /\ pull_iter_ \in Iter
        /\ num_workers_ \in Int
        /\ push_count_[push_iter_] = Cardinality(Past(push_progress_, push_iter_))
        /\ pull_count_[pull_iter_] = Cardinality(Past(pull_progress_, pull_iter_))
    BY <1>1, <2>1 DEF Inv, TypeOK, SizeKnown, CountsExact
  <2>3. ASSUME NEW progress, NEW k \in Int, NEW v \in members, progress[v] = k
        PROVE  Cardinality(Past(progress, k)) < Cardinality(members)
    <3>1. ~(progress[v] > k)
      BY <2>3
    <3> QED BY <1>1, <2>2, <2>3, <3>1, FullCount DEF Inv
  <2>4. \E v \in members :
          IF reply_phase_ THEN pull_progress_[v] = pull_iter_ ELSE push_progress_[v] = push_iter_
    BY <1>1, <2>1 DEF Inv, SomeoneAwaited
  <2>5. push_iter_ \in Int /\ pull_iter_ \in Int
    BY <2>2, BSPAssumption DEF Iter
  <2> QED BY <2>2, <2>3, <2>4, <2>5
<1> QED BY <1>1, Invariance, PTL

------------------------------------------------------------------------------
(***************************************************************************)
(* BSPServer implements StaleStore with no slack at all, for every set of  *)
(* workers and every bound.                                                *)
(*                                                                         *)
(* A push or a pull adds a set of requests to the store that were not in   *)
(* it (Applies) and answers a set of pulls (AnswersTo), which all happen   *)
(* in the reply phase or as it opens.  In that phase the store holds the   *)
(* pushes of the iterations before push_iter_ and no other (InReplyPhase), *)
(* and push_iter_ is the clock of every worker that is answered.           *)
(***************************************************************************)

\* The requests with data in `applied' are added in this step.
Applies(applied) ==
  /\ applied \in SUBSET Request
  /\ store_' = Update(store_, applied)
  /\ \A r \in applied : r.data =>
       r.id \in sent' /\ store_[r.id] = 0 /\ r.id[1] = epoch

\* The controlled pushes in `store' are those of the epochs and iterations
\* before the current one.
UpTo(store, made, iter) ==
  \A q \in Controlled :
    /\ store[q] \in {0, 1}
    /\ store[q] = 1 <=> q \in made /\ (q[1] < epoch \/ (q[1] = epoch /\ q[3] < iter))

\* The pulls with data in `answered' are answered in this step from `store'.
AnswersTo(answered, store) ==
  /\ answered \in SUBSET Request
  /\ pulled' = Respond(answered, store)
  /\ \A q \in Controlled : q \in DOMAIN store /\ store_[q] <= store[q] /\ store[q] <= store_'[q]
  /\ UpTo(store, sent', push_iter_')
  /\ \A r \in answered : r.data =>
       /\ r.src \in members /\ r.id[3] \in Iter
       /\ push_progress_'[r.src] = push_iter_'
       /\ r.id[3] + (IF init_reply_phase_ THEN 0 ELSE 1) = push_iter_'

------------------------------------------------------------------------------
(* Facts about the operators and the state.                                *)

\* The parts of an Id.
LEMMA IdParts ==
  ASSUME NEW q \in Id
  PROVE  /\ q[1] \in Epoch /\ q[2] \in Workers /\ q[3] \in Iter \cup {NoIter}
         /\ q[1] \in Int /\ q[3] \in Int
         /\ q = <<q[1], q[2], q[3]>>
         /\ q[3] # NoIter => q \in Controlled /\ q[3] \in Iter
BY BSPAssumption DEF Id, Epoch, Iter, NoIter, Controlled

\* A push that was made is one under consistency control.
LEMMA SentControlled ==
  ASSUME TypeOK, PushesPlaced
  PROVE  sent \subseteq Controlled
BY IdParts DEF TypeOK, PushesPlaced

\* A controlled push is an Id.
LEMMA ControlledId == Controlled \subseteq Id
BY DEF Controlled, Id

\* A push outside consistency control changes no controlled push.
LEMMA OffElsewhere ==
  ASSUME NEW store \in [Id -> Nat], NEW r, r.id[3] = NoIter,
         NEW q \in Controlled
  PROVE  Update(store, {r})[q] = store[q]
<1>1. q \in Id /\ q # r.id
  BY ControlledId, BSPAssumption DEF Controlled, Iter, NoIter
<1> QED BY <1>1 DEF Update

\* The pushes a worker makes are new.
LEMMA PushIsNew ==
  ASSUME StoreInv, NEW w \in inited
  PROVE  /\ <<epoch, w, push_progress_[w]>> \in Controlled
         /\ <<epoch, w, push_progress_[w]>> \notin sent
         /\ store_[<<epoch, w, push_progress_[w]>>] = 0
<1> DEFINE id == <<epoch, w, push_progress_[w]>>
<1>1. id \in Controlled /\ id \in Id
  BY ControlledId DEF StoreInv, Inv, TypeOK, Controlled
<1>2. id \notin sent
  <2>1. SUFFICES ASSUME id \in sent PROVE FALSE
    OBVIOUS
  <2>2. id[3] < push_progress_[id[2]]
    BY <2>1 DEF StoreInv, PushesPlaced
  <2> QED BY <1>1, <2>2, BSPAssumption DEF Controlled, Iter
<1>3. store_[id] \in Nat /\ store_[id] <= 1 /\ store_[id] # 1
  BY <1>1, <1>2 DEF StoreInv, Inv, TypeOK, StoredOnce
<1> QED BY <1>1, <1>2, <1>3

\* What is added is added once.
LEMMA AddedOnce ==
  ASSUME StoreInv, Inv', NEW applied, Applies(applied), epoch' = epoch,
         sent \subseteq sent', \A q \in sent' \ sent : q[1] = epoch
  PROVE  /\ StoredOnce' /\ EarlierStored'
         /\ \A q \in Id : store_[q] <= store_'[q]
<1>2. store_ \in [Id -> Nat] /\ sent \in SUBSET Id /\ sent' \in SUBSET Id /\ applied \in SUBSET Request
  BY DEF StoreInv, Inv, TypeOK, Applies
<1>3. /\ store_' \in [Id -> Nat]
      /\ \A q \in Id : (\E r \in applied : r.data /\ r.id = q) => store_'[q] = store_[q] + 1
      /\ \A q \in Id : ~(\E r \in applied : r.data /\ r.id = q) => store_'[q] = store_[q]
  BY <1>2, UpdateExact DEF Applies
<1>4. \A r \in applied : r.data => r.id \in sent' /\ store_[r.id] = 0 /\ r.id[1] = epoch
  BY DEF Applies
<1>5. \A q \in Id : store_[q] <= store_'[q]
  BY <1>2, <1>3
<1>6. StoredOnce'
  <2>1. SUFFICES ASSUME NEW q \in Controlled
                 PROVE  store_'[q] <= 1 /\ (store_'[q] = 1 => q \in sent')
    BY DEF StoredOnce
  <2>2. q \in Id /\ store_[q] \in Nat /\ store_[q] <= 1 /\ (store_[q] = 1 => q \in sent)
    BY <1>2, <2>1, ControlledId DEF StoreInv, StoredOnce
  <2>3. CASE \E r \in applied : r.data /\ r.id = q
    BY <1>3, <1>4, <2>2, <2>3
  <2>4. CASE ~ \E r \in applied : r.data /\ r.id = q
    BY <1>3, <2>2, <2>4
  <2> QED BY <2>3, <2>4
<1>7. EarlierStored'
  <2>1. SUFFICES ASSUME NEW q \in sent', q[1] < epoch PROVE store_'[q] = 1
    BY DEF EarlierStored
  <2>2. q \in sent /\ q \in Id /\ q[1] \in Int
    BY <1>2, <2>1, IdParts
  <2>3. store_[q] = 1
    BY <2>1, <2>2 DEF StoreInv, EarlierStored
  <2>4. ~ \E r \in applied : r.data /\ r.id = q
    BY <1>4, <2>3
  <2> QED BY <1>3, <2>2, <2>3, <2>4
<1> QED BY <1>5, <1>6, <1>7

\* In the reply phase the store holds the iterations before push_iter_.
ReplyStore == inited # {} /\ reply_phase_ => UpTo(store_, sent, push_iter_)

LEMMA InReplyPhase == StoreInv => ReplyStore
<1> SUFFICES ASSUME StoreInv, inited # {}, reply_phase_, NEW q \in Controlled
             PROVE  /\ store_[q] \in {0, 1}
                    /\ store_[q] = 1 <=>
                         q \in sent /\ (q[1] < epoch \/ (q[1] = epoch /\ q[3] < push_iter_))
  BY DEF ReplyStore, UpTo
<1>1. /\ q \in Id /\ store_[q] \in Nat /\ store_[q] <= 1 /\ (store_[q] = 1 => q \in sent)
  BY ControlledId DEF StoreInv, StoredOnce, Inv, TypeOK
<1>2. /\ q[1] \in Int /\ epoch \in Int
  BY <1>1, IdParts, BSPAssumption DEF StoreInv, Inv, TypeOK, Epoch
<1>3. CASE q \notin sent
  BY <1>1, <1>3
<1>4. CASE q \in sent /\ q[1] < epoch
  BY <1>1, <1>4 DEF StoreInv, EarlierStored
<1>5. CASE q \in sent /\ q[1] = epoch
  <2>1. store_[q] = IF q[3] < push_iter_ THEN 1 ELSE 0
    BY <1>5 DEF StoreInv, PushesPlaced, Applied
  <2> QED BY <1>2, <1>5, <2>1
<1>6. q \in sent => q[1] <= epoch
  BY DEF StoreInv, PushesPlaced
<1> QED BY <1>2, <1>3, <1>4, <1>5, <1>6

\* So it does in the next state.
LEMMA InReplyPhaseNext == StoreInv' => ReplyStore'
BY InReplyPhase, PTL

------------------------------------------------------------------------------
(* Every step preserves the invariant.                                     *)

\* A push preserves the invariant: it is placed in the store or its bucket.
LEMMA PushKeeps ==
  ASSUME StoreInv, NEW w \in Workers, NEW data \in BOOLEAN, Push(w, data)
  PROVE  StoreInv' /\ \A q \in Id : store_[q] <= store_'[q]
<1> DEFINE p == push_progress_[w]
           id == <<epoch, w, p>>
           req == [src |-> w, id |-> id, data |-> data]
           count == [push_count_ EXCEPT ![p] = @ + 1]
<1>1. Inv'
  BY PushStep DEF StoreInv
<1>2. /\ w \in inited /\ id \in Controlled /\ id \in Id /\ id \notin sent /\ store_[id] = 0
      /\ inited # {} /\ w \in members /\ p \in Iter /\ p \in Int /\ push_iter_ \in Int
      /\ push_iter_ <= p /\ req \in Request
  <2>1. w \in inited
    BY DEF Push
  <2>2. w \in members /\ p \in Iter /\ push_iter_ \in Iter /\ push_iter_ <= p
    BY <2>1 DEF StoreInv, Inv, TypeOK, NoneBehind
  <2> QED BY <2>1, <2>2, PushIsNew, ControlledId, BSPAssumption DEF Iter, Request
<1>3. /\ push_progress_' = [push_progress_ EXCEPT ![w] = @ + 1]
      /\ sent' = IF data THEN sent \cup {id} ELSE sent
      /\ UNCHANGED <<members, inited, epoch, init_reply_phase_, pull_iter_>>
      /\ IF BuffersPush(p)
           THEN /\ blocked_pushes_' = [blocked_pushes_ EXCEPT ![p] = @ \cup {req}]
                /\ UNCHANGED <<push_iter_, reply_phase_, blocked_pulls_, store_>>
           ELSE /\ store_' = Update(store_, {req})
                /\ UNCHANGED blocked_pushes_
                /\ IF CollectedAll(count, push_iter_)
                     THEN /\ blocked_pulls_' = [blocked_pulls_ EXCEPT ![pull_iter_] = {}]
                          /\ reply_phase_' = TRUE
                          /\ push_iter_' = push_iter_ + 1
                     ELSE UNCHANGED <<push_iter_, reply_phase_, blocked_pulls_>>
  BY DEF Push, ProcessPush, env
<1>4. /\ push_progress_ \in [Workers -> Iter] /\ store_ \in [Id -> Nat] /\ members \subseteq Workers
      /\ blocked_pushes_ \in [Iter -> SUBSET Request] /\ sent \subseteq Id
      /\ blocked_pulls_ \in [Iter -> SUBSET Request]
  BY DEF StoreInv, Inv, TypeOK
<1>5. /\ push_progress_'[w] = p + 1
      /\ \A v \in Workers : v # w => push_progress_'[v] = push_progress_[v]
  BY <1>3, <1>4
\* The phase changes what is due only at its end, and then to the same pushes.
<1>6. \A k \in Iter : Applied(k)' <=> Applied(k)
  <2>1. ASSUME NEW k \in Iter PROVE Applied(k)' <=> Applied(k)
    <3>1. k \in Int
      BY BSPAssumption DEF Iter
    <3>2. CASE UNCHANGED <<push_iter_, reply_phase_>>
      BY <3>2 DEF Applied
    <3>3. CASE ~reply_phase_ /\ reply_phase_' = TRUE /\ push_iter_' = push_iter_ + 1
      BY <1>2, <3>1, <3>3 DEF Applied
    <3> QED BY <1>3, <3>2, <3>3 DEF BuffersPush
  <2> QED BY <2>1
<1>7. Applied(p) <=> ~BuffersPush(p)
  BY <1>2 DEF Applied, BuffersPush
<1>8. /\ \A k \in Iter : \A r \in blocked_pushes_'[k] :
           r \in blocked_pushes_[k] \/ (r = req /\ k = p /\ BuffersPush(p))
      /\ \A k \in Iter : blocked_pushes_[k] \subseteq blocked_pushes_'[k]
      /\ BuffersPush(p) => req \in blocked_pushes_'[p]
      /\ \A k \in Iter : blocked_pulls_'[k] \subseteq blocked_pulls_[k]
  BY <1>2, <1>3, <1>4
<1>9. /\ \A q \in Id : q # id => store_'[q] = store_[q]
      /\ data => store_'[id] = IF BuffersPush(p) THEN 0 ELSE 1
      /\ BuffersPush(p) => store_'[id] = 0
  <2>1. CASE BuffersPush(p)
    BY <1>2, <1>3, <2>1
  <2>2. CASE ~BuffersPush(p)
    <3>1. store_' = Update(store_, {req})
      BY <1>3, <2>2
    <3> QED BY <1>2, <1>4, <2>2, <3>1 DEF Update
  <2> QED BY <2>1, <2>2
<1>10. /\ StoredOnce' /\ EarlierStored' /\ \A q \in Id : store_[q] <= store_'[q]
  <2>1. sent \subseteq sent' /\ epoch' = epoch /\ \A q \in sent' \ sent : q[1] = epoch
    BY <1>3
  <2>2. CASE BuffersPush(p)
    <3>1. Applies({})
      BY <1>3, <1>4, <2>2 DEF Applies, Update
    <3> QED BY <1>1, <2>1, <3>1, AddedOnce
  <2>3. CASE ~BuffersPush(p)
    <3>1. Applies({req})
      BY <1>2, <1>3, <2>3 DEF Applies
    <3> QED BY <1>1, <2>1, <3>1, AddedOnce
  <2> QED BY <2>2, <2>3
<1>11. Buffered'
  <2>1. ASSUME NEW k \in Iter, NEW r \in blocked_pushes_'[k]
        PROVE  /\ ~Applied(k)' /\ r.id = <<epoch, r.src, k>>
               /\ r.data => r.src \in members /\ r.id \in sent' /\ store_'[r.id] = 0
    <3>1. CASE r \in blocked_pushes_[k]
      <4>1. ~Applied(k) /\ r.id = <<epoch, r.src, k>>
        BY <1>2, <3>1 DEF StoreInv, Buffered
      <4>2. r.data => r.src \in members /\ r.id \in sent /\ store_[r.id] = 0
        BY <3>1 DEF StoreInv, Buffered
      <4>3. r.data => r.id # id /\ r.id \in Id /\ r.id \in sent'
        BY <1>2, <1>3, <1>4, <4>2
      <4> QED BY <1>6, <1>9, <4>1, <4>2, <4>3
    <3>2. CASE r = req /\ k = p /\ BuffersPush(p)
      BY <1>2, <1>3, <1>6, <1>7, <1>9, <3>2
    <3> QED BY <1>8, <3>1, <3>2
  <2>2. ASSUME NEW k \in Iter, NEW r \in blocked_pulls_'[k]
        PROVE  /\ r.id = <<epoch, r.src, k>>
               /\ r.data => /\ r.src \in members
                            /\ push_progress_'[r.src] = k + IF init_reply_phase_ THEN 0 ELSE 1
    <3>1. r \in blocked_pulls_[k]
      BY <1>8
    <3>2. r.id = <<epoch, r.src, k>>
      BY <1>2, <3>1 DEF StoreInv, Buffered
    <3>3. ASSUME r.data
          PROVE  r.src \in members /\ push_progress_'[r.src] = k + IF init_reply_phase_ THEN 0 ELSE 1
      <4>1. r.src \in members /\ push_progress_[r.src] = k + IF init_reply_phase_ THEN 0 ELSE 1
        BY <3>1, <3>3 DEF StoreInv, Buffered
      <4>2. r.src # w
        BY <3>1, <3>3 DEF Push, Waiting
      <4>3. push_progress_'[r.src] = push_progress_[r.src]
        BY <1>4, <1>5, <4>1, <4>2
      <4> QED BY <4>1, <4>3
    <3> QED BY <3>2, <3>3
  <2> QED BY <1>2, <1>3, <2>1, <2>2 DEF Buffered
<1>12. PushesPlaced'
  <2>1. SUFFICES ASSUME NEW q \in sent'
                 PROVE  /\ q[1] <= epoch /\ q[3] # NoIter
                        /\ q[1] = epoch =>
                             /\ q[3] < push_progress_'[q[2]]
                             /\ IF Applied(q[3])' THEN store_'[q] = 1
                                ELSE store_'[q] = 0 /\ \E r \in blocked_pushes_'[q[3]] : r.id = q /\ r.data
    BY <1>2, <1>3 DEF PushesPlaced
  <2>2. CASE q \in sent
    <3>1. /\ q \in Id /\ q # id /\ q[3] \in Iter /\ q[2] \in Workers
          /\ store_'[q] = store_[q] /\ q[3] \in Int
      <4>1. q \in Id /\ q # id /\ q[3] # NoIter
        BY <1>2, <1>4, <2>2 DEF StoreInv, PushesPlaced
      <4> QED BY <1>9, <4>1, IdParts
    <3>2. push_progress_'[q[2]] >= push_progress_[q[2]] /\ push_progress_[q[2]] \in Int
          /\ push_progress_'[q[2]] \in Int
      BY <1>2, <1>4, <1>5, <3>1, BSPAssumption DEF Iter
    <3>3. blocked_pushes_[q[3]] \subseteq blocked_pushes_'[q[3]]
      BY <1>8, <3>1
    <3>4. /\ q[1] <= epoch /\ q[3] # NoIter
          /\ q[1] = epoch =>
               /\ q[3] < push_progress_[q[2]]
               /\ IF Applied(q[3]) THEN store_[q] = 1
                  ELSE store_[q] = 0 /\ \E r \in blocked_pushes_[q[3]] : r.id = q /\ r.data
      BY <2>2 DEF StoreInv, PushesPlaced
    <3>5. q[3] < push_progress_[q[2]] => q[3] < push_progress_'[q[2]]
      BY <3>1, <3>2
    <3> QED BY <1>6, <3>1, <3>3, <3>4, <3>5
  <2>3. CASE q = id /\ data
    <3>1. q[1] = epoch /\ q[2] = w /\ q[3] = p /\ epoch \in Int
      BY <2>3, BSPAssumption DEF StoreInv, Inv, TypeOK, Epoch
    <3>2. q[3] # NoIter /\ p < push_progress_'[w]
      BY <1>2, <1>5, <3>1, BSPAssumption DEF Iter, NoIter
    <3>3. BuffersPush(p) => req \in blocked_pushes_'[p] /\ req.id = q /\ req.data
      BY <1>8, <2>3
    <3>4. Applied(q[3])' <=> ~BuffersPush(p)
      <4>1. Applied(q[3])' <=> Applied(q[3])
        BY <1>2, <1>6, <3>1
      <4> QED BY <1>7, <3>1, <4>1
    <3>5. IF Applied(q[3])' THEN store_'[q] = 1
          ELSE store_'[q] = 0 /\ \E r \in blocked_pushes_'[q[3]] : r.id = q /\ r.data
      BY <1>9, <2>3, <3>1, <3>3, <3>4
    <3> QED BY <3>1, <3>2, <3>5
  <2> QED BY <1>3, <2>1, <2>2, <2>3
<1> QED BY <1>1, <1>10, <1>11, <1>12 DEF StoreInv

\* A pull preserves the invariant: the one that closes the reply phase adds the
\* bucket of the iteration that becomes due.
LEMMA PullKeeps ==
  ASSUME StoreInv, NEW w \in Workers, NEW data \in BOOLEAN, Pull(w, data)
  PROVE  StoreInv' /\ \A q \in Id : store_[q] <= store_'[q]
<1> DEFINE p == pull_progress_[w]
           req == [src |-> w, id |-> <<epoch, w, p>>, data |-> data]
           count == [pull_count_ EXCEPT ![p] = @ + 1]
<1>1. Inv'
  BY PullStep DEF StoreInv
<1>2. /\ w \in inited /\ inited # {} /\ w \in members /\ p \in Iter /\ p \in Int
      /\ push_iter_ \in Iter /\ push_iter_ \in Int /\ push_progress_[w] \in Int
  <2>1. w \in inited /\ w \in members /\ p \in Iter /\ push_iter_ \in Iter
        /\ push_progress_[w] \in Iter
    BY DEF Pull, StoreInv, Inv, TypeOK
  <2> QED BY <2>1, BSPAssumption DEF Iter
<1>3. /\ UNCHANGED <<members, inited, epoch, init_reply_phase_, sent, push_iter_, push_progress_>>
      /\ IF BuffersPull(p)
           THEN /\ blocked_pulls_' = [blocked_pulls_ EXCEPT ![p] = @ \cup {req}]
                /\ UNCHANGED <<reply_phase_, blocked_pushes_, store_>>
           ELSE /\ UNCHANGED blocked_pulls_
                /\ IF CollectedAll(count, pull_iter_)
                     THEN /\ store_' = Update(store_, blocked_pushes_[push_iter_])
                          /\ blocked_pushes_' = [blocked_pushes_ EXCEPT ![push_iter_] = {}]
                          /\ reply_phase_' = FALSE
                     ELSE UNCHANGED <<reply_phase_, blocked_pushes_, store_>>
  BY DEF Pull, ProcessPull, env
<1>4. /\ store_ \in [Id -> Nat] /\ sent \subseteq Id
      /\ blocked_pushes_ \in [Iter -> SUBSET Request]
      /\ blocked_pulls_ \in [Iter -> SUBSET Request]
  BY DEF StoreInv, Inv, TypeOK
<1>5. push_progress_[w] = p + IF init_reply_phase_ THEN 0 ELSE 1
  BY <1>2 DEF Pull, NextIsPull, StoreInv, Inv, Alternate
<1>6. ASSUME NEW k \in Iter, NEW r \in blocked_pulls_'[k]
      PROVE  /\ r.id = <<epoch, r.src, k>>
             /\ r.data => /\ r.src \in members
                          /\ push_progress_'[r.src] = k + IF init_reply_phase_ THEN 0 ELSE 1
  <2>1. r \in blocked_pulls_[k] \/ (r = req /\ k = p)
    BY <1>3, <1>4
  <2>2. CASE r \in blocked_pulls_[k]
    BY <1>2, <1>3, <2>2 DEF StoreInv, Buffered
  <2>3. CASE r = req /\ k = p
    BY <1>2, <1>3, <1>5, <2>3
  <2> QED BY <2>1, <2>2, <2>3
<1>7. CASE UNCHANGED <<reply_phase_, blocked_pushes_, store_>>
  <2>1. StoredOnce' /\ EarlierStored' /\ \A q \in Id : store_[q] <= store_'[q]
    BY <1>3, <1>4, <1>7 DEF StoreInv, StoredOnce, EarlierStored
  <2>2. PushesPlaced'
    BY <1>3, <1>7 DEF StoreInv, PushesPlaced, Applied
  <2>3. Buffered'
    <3>1. \A k \in Iter : \A r \in blocked_pushes_[k] :
            /\ inited # {} => ~Applied(k) /\ r.id = <<epoch, r.src, k>>
            /\ r.data => inited # {} /\ r.src \in members /\ r.id \in sent /\ store_[r.id] = 0
      BY DEF StoreInv, Buffered
    <3>2. \A k \in Iter : Applied(k)' <=> Applied(k)
      BY <1>3, <1>7 DEF Applied
    <3> QED BY <1>2, <1>3, <1>6, <1>7, <3>1, <3>2 DEF Buffered
  <2> QED BY <1>1, <2>1, <2>2, <2>3 DEF StoreInv
<1>8. CASE ~BuffersPull(p) /\ CollectedAll(count, pull_iter_)
  <2> DEFINE due == blocked_pushes_[push_iter_]
  <2>1. /\ store_' = Update(store_, due)
        /\ blocked_pushes_' = [blocked_pushes_ EXCEPT ![push_iter_] = {}]
        /\ reply_phase_ /\ reply_phase_' = FALSE
    BY <1>3, <1>8 DEF BuffersPull
  <2>2. due \in SUBSET Request
    BY <1>2, <1>4
  <2>3. \A r \in due : /\ r.id = <<epoch, r.src, push_iter_>>
                       /\ r.data => r.id \in sent /\ store_[r.id] = 0
    BY <1>2 DEF StoreInv, Buffered
  <2>4. /\ \A q \in Id : (\E r \in due : r.data /\ r.id = q) => store_'[q] = store_[q] + 1
        /\ \A q \in Id : ~(\E r \in due : r.data /\ r.id = q) => store_'[q] = store_[q]
    BY <1>4, <2>1, <2>2, UpdateExact
  <2>5. Applies(due)
    BY <1>3, <2>1, <2>2, <2>3 DEF Applies
  <2>6. StoredOnce' /\ EarlierStored' /\ \A q \in Id : store_[q] <= store_'[q]
    BY <1>1, <1>3, <2>5, AddedOnce
  <2>7. Buffered'
    <3>1. ASSUME NEW k \in Iter, NEW r \in blocked_pushes_'[k]
          PROVE  /\ ~Applied(k)' /\ r.id = <<epoch, r.src, k>>
                 /\ r.data => r.src \in members /\ r.id \in sent' /\ store_'[r.id] = 0
      <4>1. k # push_iter_ /\ r \in blocked_pushes_[k] /\ k \in Int
        BY <1>2, <1>4, <2>1, BSPAssumption DEF Iter
      <4>2. ~Applied(k) /\ r.id = <<epoch, r.src, k>>
        BY <1>2, <4>1 DEF StoreInv, Buffered
      <4>3. r.data => r.src \in members /\ r.id \in sent /\ store_[r.id] = 0
        BY <4>1 DEF StoreInv, Buffered
      <4>4. ~Applied(k)'
        BY <1>2, <1>3, <2>1, <4>1, <4>2 DEF Applied
      <4>5. \A s \in due : s.id # r.id
        BY <2>3, <4>1, <4>2
      <4>6. r.data => store_'[r.id] = store_[r.id]
        BY <1>4, <2>4, <4>3, <4>5
      <4> QED BY <1>3, <4>2, <4>3, <4>4, <4>6
    <3> QED BY <1>2, <1>3, <1>6, <3>1 DEF Buffered
  <2>8. PushesPlaced'
    <3>1. SUFFICES ASSUME NEW q \in sent, q[1] = epoch
                   PROVE  IF Applied(q[3])' THEN store_'[q] = 1
                          ELSE store_'[q] = 0 /\ \E r \in blocked_pushes_'[q[3]] : r.id = q /\ r.data
      BY <1>2, <1>3 DEF StoreInv, PushesPlaced
    <3>2. /\ q[3] \in Iter /\ q[3] \in Int /\ q \in Id
          /\ IF Applied(q[3]) THEN store_[q] = 1
             ELSE store_[q] = 0 /\ \E r \in blocked_pushes_[q[3]] : r.id = q /\ r.data
      BY <1>4, <3>1, IdParts DEF StoreInv, PushesPlaced
    <3>3. /\ Applied(q[3]) <=> q[3] < push_iter_
          /\ Applied(q[3])' <=> q[3] <= push_iter_
      BY <1>3, <2>1 DEF Applied
    <3>4. CASE q[3] < push_iter_
      <4>1. ~ \E r \in due : r.data /\ r.id = q
        BY <2>3, <3>2, <3>3, <3>4
      <4> QED BY <1>2, <2>4, <3>2, <3>3, <3>4, <4>1
    <3>5. CASE q[3] = push_iter_
      <4>1. store_[q] = 0 /\ \E r \in due : r.data /\ r.id = q
        BY <1>2, <3>2, <3>3, <3>5
      <4> QED BY <1>2, <2>4, <3>2, <3>3, <3>5, <4>1
    <3>6. CASE q[3] > push_iter_
      <4>1. store_[q] = 0 /\ \E r \in blocked_pushes_[q[3]] : r.id = q /\ r.data
        BY <1>2, <3>2, <3>3, <3>6
      <4>2. blocked_pushes_'[q[3]] = blocked_pushes_[q[3]]
        BY <1>2, <1>4, <2>1, <3>2, <3>6
      <4>3. ~ \E r \in due : r.data /\ r.id = q
        BY <1>2, <2>3, <3>2, <3>6
      <4> QED BY <1>2, <2>4, <3>2, <3>3, <3>6, <4>1, <4>2, <4>3
    <3> QED BY <1>2, <3>2, <3>4, <3>5, <3>6
  <2> QED BY <1>1, <2>6, <2>7, <2>8 DEF StoreInv
<1> QED BY <1>3, <1>7, <1>8

\* So do the other steps.
LEMMA OtherKeeps ==
  ASSUME StoreInv,
         \/ NewEpoch
         \/ \E w \in Workers : InitForConsistencyControl(w) \/ PushOff(w)
         \/ UNCHANGED vars
  PROVE  StoreInv'
<1>1. CASE NewEpoch
  <2>1. Inv'
    BY <1>1, NewEpochStep DEF StoreInv
  <2>2. /\ epoch' = epoch + 1 /\ inited' = {} /\ \A w \in members : ~Waiting(w)
        /\ UNCHANGED <<store_, sent, blocked_pushes_, blocked_pulls_, reply_phase_, push_iter_>>
    BY <1>1 DEF NewEpoch, control, pushState, pullState
  <2>3. \A k \in Iter : \A r \in blocked_pushes_[k] \cup blocked_pulls_[k] : ~r.data
    BY <2>2 DEF StoreInv, Buffered, Waiting
  <2>4. /\ epoch \in Int /\ sent \subseteq Id
        /\ \A q \in sent : q[1] \in Int /\ q[1] <= epoch /\ q[3] # NoIter /\ q[3] \in Iter
    <3>1. epoch \in Epoch /\ sent \subseteq Id
      BY DEF StoreInv, Inv, TypeOK
    <3>2. \A q \in sent : q[1] <= epoch /\ q[3] # NoIter
      BY DEF StoreInv, PushesPlaced
    <3> QED BY <3>1, <3>2, IdParts, BSPAssumption DEF Epoch
  <2>5. Buffered'
    BY <2>2, <2>3 DEF Buffered
  <2>6. PushesPlaced'
    BY <2>2, <2>4 DEF PushesPlaced
  <2>7. EarlierStored'
    <3>1. SUFFICES ASSUME NEW q \in sent PROVE store_[q] = 1
      BY <2>2 DEF EarlierStored
    <3>2. CASE q[1] < epoch
      BY <3>2 DEF StoreInv, EarlierStored
    <3>3. CASE q[1] = epoch
      <4>1. ~ \E r \in blocked_pushes_[q[3]] : r.id = q /\ r.data
        BY <2>3, <2>4
      <4> QED BY <3>3, <4>1 DEF StoreInv, PushesPlaced
    <3> QED BY <2>4, <3>2, <3>3
  <2>8. StoredOnce'
    BY <2>2 DEF StoreInv, StoredOnce
  <2> QED BY <2>1, <2>5, <2>6, <2>7, <2>8 DEF StoreInv
<1>2. ASSUME NEW w \in Workers, InitForConsistencyControl(w)
      PROVE  StoreInv'
  <2>1. Inv'
    BY <1>2, InitStep DEF StoreInv
  <2>2. UNCHANGED <<members, epoch, init_reply_phase_, sent, store_>> /\ inited' # {}
    BY <1>2 DEF InitForConsistencyControl, ProcessInit
  <2>3. \/ init_count_ = 0 /\ blocked_pushes_' = EmptyBuckets /\ blocked_pulls_' = EmptyBuckets
        \/ init_count_ # 0 /\ UNCHANGED <<push_iter_, push_progress_, blocked_pushes_, blocked_pulls_, reply_phase_>>
    BY <1>2 DEF InitForConsistencyControl, ProcessInit, pushState, pullState
  <2>4. init_count_ = 0 <=> inited = {}
    <3>1. inited # members /\ IsFiniteSet(inited)
      BY <1>2, MembersSize, FS_Subset DEF InitForConsistencyControl, StoreInv, Inv, TypeOK
    <3> QED BY <3>1, FS_EmptySet DEF StoreInv, Inv, InitsCounted
  <2>5. StoredOnce' /\ EarlierStored'
    BY <2>2 DEF StoreInv, StoredOnce, EarlierStored
  <2>6. CASE init_count_ = 0
    <3>1. Buffered'
      BY <2>3, <2>6 DEF Buffered, EmptyBuckets
    <3>2. \A q \in sent : q[1] # epoch
      BY <2>4, <2>6 DEF StoreInv, PushesPlaced
    <3>3. PushesPlaced'
      BY <2>2, <3>2 DEF StoreInv, PushesPlaced
    <3> QED BY <2>1, <2>5, <3>1, <3>3 DEF StoreInv
  <2>7. CASE init_count_ # 0
    <3>1. UNCHANGED <<push_iter_, push_progress_, blocked_pushes_, blocked_pulls_, reply_phase_>>
          /\ inited # {}
      BY <2>3, <2>4, <2>7
    <3>2. Buffered'
      BY <2>2, <3>1 DEF StoreInv, Buffered, Applied
    <3>3. PushesPlaced'
      BY <2>2, <3>1 DEF StoreInv, PushesPlaced, Applied
    <3> QED BY <2>1, <2>5, <3>2, <3>3 DEF StoreInv
  <2> QED BY <2>6, <2>7
<1>3. ASSUME NEW w \in Workers, PushOff(w)
      PROVE  StoreInv'
  <2> DEFINE req == [src |-> w, id |-> <<epoch, w, NoIter>>, data |-> TRUE]
  <2>1. Inv'
    BY <1>3, PushOffStep DEF StoreInv
  <2>2. /\ UNCHANGED <<members, inited, epoch, init_reply_phase_, sent, push_iter_, push_progress_,
                       blocked_pushes_, blocked_pulls_, reply_phase_>>
        /\ store_' = Update(store_, {req})
    BY <1>3 DEF PushOff, ProcessPushOff, env, control, pushState, pullState
  <2>3. \A q \in Controlled : store_'[q] = store_[q]
    BY <2>2, OffElsewhere DEF StoreInv, Inv, TypeOK
  <2>4. sent \subseteq Controlled
    BY SentControlled DEF StoreInv, Inv
  <2>5. StoredOnce' /\ EarlierStored'
    BY <2>2, <2>3, <2>4 DEF StoreInv, StoredOnce, EarlierStored
  <2>6. Buffered'
    <3>1. \A k \in Iter : \A r \in blocked_pushes_[k] : r.data => r.id \in Controlled
      BY <2>4 DEF StoreInv, Buffered
    <3> QED BY <2>2, <2>3, <3>1 DEF StoreInv, Buffered, Applied
  <2>7. PushesPlaced'
    BY <2>2, <2>3, <2>4 DEF StoreInv, PushesPlaced, Applied
  <2> QED BY <2>1, <2>5, <2>6, <2>7 DEF StoreInv
<1>4. CASE UNCHANGED vars
  <2>1. Inv'
    BY <1>4, NextInv DEF StoreInv
  <2>2. UNCHANGED <<members, inited, epoch, init_reply_phase_, sent, push_iter_, push_progress_,
                    blocked_pushes_, blocked_pulls_, reply_phase_, store_>>
    BY <1>4 DEF vars, env, control, pushState, pullState
  <2>3. StoredOnce' /\ EarlierStored'
    BY <2>2 DEF StoreInv, StoredOnce, EarlierStored
  <2>4. Buffered' /\ PushesPlaced'
    BY <2>2 DEF StoreInv, Buffered, PushesPlaced, Applied
  <2> QED BY <2>1, <2>3, <2>4 DEF StoreInv
<1> QED BY <1>1, <1>2, <1>3, <1>4

\* A new server satisfies the invariant, and every step preserves it.
LEMMA StoreInvInductive == (Init => StoreInv) /\ (StoreInv /\ [Next]_vars => StoreInv')
<1>1. ASSUME Init PROVE StoreInv
  <2>1. Inv
    BY <1>1, InitialInv
  <2>2. StoredOnce
    BY <1>1, ControlledId DEF Init, StoredOnce
  <2> QED BY <1>1, <2>1, <2>2 DEF Init, StoreInv, Buffered, EarlierStored, PushesPlaced, EmptyBuckets
<1>2. ASSUME StoreInv, [Next]_vars PROVE StoreInv'
  BY <1>2, PushKeeps, PullKeeps, OtherKeeps DEF Next
<1> QED BY <1>1, <1>2
------------------------------------------------------------------------------
(* Every step is one of the abstract store.                                *)

\* What a step adds, the abstract store may absorb.
LEMMA Absorbed ==
  ASSUME StoreInv, StoreInv', \A q \in Id : store_[q] <= store_'[q]
  PROVE  StaleStoreOf!Absorb
<1>1. ASSUME NEW q \in Controlled
      PROVE  store_[q] <= store_'[q] /\ store_'[q] <= IF q \in sent' THEN 1 ELSE 0
  <2>1. q \in Id /\ store_[q] <= store_'[q]
    BY ControlledId
  <2>2. store_'[q] \in Nat
    BY <2>1 DEF StoreInv, Inv, TypeOK
  <2>3. store_'[q] <= 1 /\ (store_'[q] = 1 => q \in sent')
    BY DEF StoreInv, StoredOnce
  <2> QED BY <2>1, <2>2, <2>3
<1> QED BY <1>1 DEF StaleStoreOf!Absorb

\* The push that closes the phase answers the pulls that waited for it from
\* the store it leaves behind; no other push answers anything.
LEMMA PushAnswers ==
  ASSUME StoreInv, StoreInv', NEW w \in Workers, NEW data \in BOOLEAN, Push(w, data),
         \A q \in Id : store_[q] <= store_'[q]
  PROVE  pulled' = pulled \/ \E answered : AnswersTo(answered, store_')
<1> DEFINE p == push_progress_[w]
           req == [src |-> w, id |-> <<epoch, w, p>>, data |-> data]
           count == [push_count_ EXCEPT ![p] = @ + 1]
           answered == blocked_pulls_[pull_iter_]
<1>1. SUFFICES ASSUME pulled' # pulled PROVE AnswersTo(answered, store_')
  OBVIOUS
<1>2. /\ ~reply_phase_ /\ p = push_iter_ /\ inited # {} /\ inited' = inited
      /\ store_' = Update(store_, {req}) /\ pulled' = Respond(answered, Update(store_, {req}))
      /\ reply_phase_' = TRUE /\ push_iter_' = push_iter_ + 1 /\ epoch' = epoch
      /\ push_progress_' = [push_progress_ EXCEPT ![w] = @ + 1]
  BY <1>1 DEF Push, ProcessPush, BuffersPush, env
<1>3. /\ store_' \in [Id -> Nat] /\ store_ \in [Id -> Nat] /\ answered \in SUBSET Request
      /\ pull_iter_ \in Iter /\ push_iter_ \in Iter /\ pull_iter_ \in Int /\ push_iter_ \in Int
      /\ push_progress_ \in [Workers -> Iter] /\ members \subseteq Workers
  <2>1. /\ store_ \in [Id -> Nat] /\ answered \in SUBSET Request
        /\ pull_iter_ \in Iter /\ push_iter_ \in Iter
        /\ push_progress_ \in [Workers -> Iter] /\ members \subseteq Workers
    BY DEF StoreInv, Inv, TypeOK
  <2>2. store_' \in [Id -> Nat]
    BY DEF StoreInv, Inv, TypeOK
  <2> QED BY <2>1, <2>2, BSPAssumption DEF Iter
<1>4. \A q \in Controlled : q \in DOMAIN store_' /\ store_[q] <= store_'[q] /\ store_'[q] <= store_'[q]
  BY <1>3, ControlledId
<1>5. UpTo(store_', sent', push_iter_')
  <2>1. ReplyStore'
    BY InReplyPhaseNext
  <2> QED BY <1>2, <2>1 DEF ReplyStore, UpTo
<1>6. pull_iter_ + (IF init_reply_phase_ THEN 0 ELSE 1) = push_iter_'
  BY <1>2, <1>3 DEF StoreInv, Inv, PhasesAlternate
<1>7. ASSUME NEW r \in answered, r.data
      PROVE  /\ r.src \in members /\ r.id[3] \in Iter
             /\ push_progress_'[r.src] = push_iter_'
             /\ r.id[3] + (IF init_reply_phase_ THEN 0 ELSE 1) = push_iter_'
  <2>1. r.id = <<epoch, r.src, pull_iter_>>
    BY <1>2, <1>3 DEF StoreInv, Buffered
  <2>2. r.src \in members /\ push_progress_[r.src] = pull_iter_ + IF init_reply_phase_ THEN 0 ELSE 1
    BY <1>3, <1>7 DEF StoreInv, Buffered
  <2>3. r.src # w
    BY <1>3, <1>7 DEF Push, Waiting
  <2>4. push_progress_'[r.src] = push_progress_[r.src]
    BY <1>2, <1>3, <2>2, <2>3
  <2> QED BY <1>3, <1>6, <2>1, <2>2, <2>4
<1> QED BY <1>2, <1>3, <1>4, <1>5, <1>7 DEF AnswersTo

\* A pull is answered from the store it finds, before the buffered pushes of
\* the next phase are added.
LEMMA PullAnswers ==
  ASSUME StoreInv, NEW w \in Workers, NEW data \in BOOLEAN, Pull(w, data),
         \A q \in Id : store_[q] <= store_'[q]
  PROVE  pulled' = pulled \/ \E answered : AnswersTo(answered, store_)
<1> DEFINE p == pull_progress_[w]
           req == [src |-> w, id |-> <<epoch, w, p>>, data |-> data]
<1>1. SUFFICES ASSUME pulled' # pulled PROVE AnswersTo({req}, store_)
  OBVIOUS
<1>2. /\ reply_phase_ /\ p = pull_iter_ /\ w \in inited /\ inited # {} /\ inited' = inited
      /\ pulled' = Respond({req}, store_) /\ NextIsPull(w)
      /\ UNCHANGED <<push_iter_, push_progress_, epoch, sent>>
  BY <1>1 DEF Pull, ProcessPull, BuffersPull, env
<1>3. /\ store_ \in [Id -> Nat] /\ req \in Request /\ w \in members
      /\ p \in Iter /\ p \in Int /\ push_iter_ \in Int /\ push_progress_[w] \in Int
  <2>1. /\ store_ \in [Id -> Nat] /\ w \in members /\ epoch \in Epoch
        /\ p \in Iter /\ push_iter_ \in Iter /\ push_progress_[w] \in Iter
    BY <1>2 DEF StoreInv, Inv, TypeOK
  <2> QED BY <2>1, BSPAssumption DEF Iter, Request, Id
<1>4. \A q \in Controlled : q \in DOMAIN store_ /\ store_[q] <= store_[q] /\ store_[q] <= store_'[q]
  BY <1>3, ControlledId
<1>5. UpTo(store_, sent', push_iter_')
  BY <1>2, InReplyPhase DEF ReplyStore
<1>6. p + (IF init_reply_phase_ THEN 0 ELSE 1) = push_iter_
  BY <1>2, <1>3 DEF StoreInv, Inv, PhasesAlternate
<1>7. push_progress_[w] = p + (IF init_reply_phase_ THEN 0 ELSE 1)
  BY <1>2, <1>3 DEF NextIsPull, StoreInv, Inv, Alternate
<1> QED BY <1>2, <1>3, <1>4, <1>5, <1>6, <1>7 DEF AnswersTo

\* What is answered, the abstract store permits with no slack.
LEMMA AnswersPermitted ==
  ASSUME StoreInv, StoreInv', NEW answered, NEW store, AnswersTo(answered, store), inited # {},
         UNCHANGED <<members, inited, epoch, init_reply_phase_>>
  PROVE  StaleStoreOf!Answers
<1> DEFINE c == push_iter_'
           view == Retrieve(store) \cap Controlled
           first == IF init_reply_phase_ THEN 0 ELSE 1
<1>1. ASSUME NEW w \in Workers, pulled'[w] # pulled[w]
      PROVE  /\ w \in members /\ push_progress_'[w] = c /\ pulled'[w] # NoReply
             /\ pulled'[w].iter + first = c /\ pulled'[w].view \cap Controlled = view
  <2>1. \E r \in answered : r.data /\ r.src = w
    BY <1>1 DEF AnswersTo, Respond
  <2>2. PICK r \in answered : /\ r.data /\ r.src = w
          /\ pulled'[w] = [iter |-> r.id[3], view |-> Retrieve(store)]
    BY <2>1 DEF AnswersTo, Respond
  <2>3. /\ r.src \in members /\ r.id[3] \in Iter /\ push_progress_'[r.src] = c
        /\ r.id[3] + first = c
    BY <2>2 DEF AnswersTo
  <2>4. pulled'[w] # NoReply
    BY <2>2, <2>3, BSPAssumption DEF NoReply, Iter, NoIter
  <2> QED BY <2>2, <2>3, <2>4
<1>2. c \in Nat /\ members \subseteq Workers /\ push_progress_' \in [Workers -> Nat]
  <2>1. c \in Iter /\ members \subseteq Workers /\ push_progress_' \in [Workers -> Iter]
    BY DEF StoreInv, Inv, TypeOK
  <2> QED BY <2>1, BSPAssumption DEF Iter
<1>3. \A q \in Controlled :
        /\ q \in DOMAIN store /\ store_[q] <= store[q] /\ store[q] <= store_'[q]
        /\ store[q] \in {0, 1} /\ store_[q] \in Nat /\ store_'[q] \in Nat /\ store_'[q] <= 1
        /\ store[q] = 1 <=> q \in sent' /\ (q[1] < epoch \/ (q[1] = epoch /\ q[3] < c))
  <2>1. \A q \in Controlled : store_[q] \in Nat /\ store_'[q] \in Nat /\ store_'[q] <= 1
    BY ControlledId DEF StoreInv, StoredOnce, Inv, TypeOK
  <2> QED BY <2>1 DEF AnswersTo, UpTo
<1>4. view = {q \in Controlled : store[q] = 1}
  BY <1>3 DEF Retrieve
<1>5. /\ {q \in Controlled : store_[q] = 1} \subseteq view
      /\ view \subseteq {q \in Controlled : store_'[q] = 1}
  BY <1>3, <1>4
<1>6. \A v \in members : push_progress_'[v] >= c - 0 /\ push_progress_'[v] >= 0
  <2>1. \A v \in members : push_iter_' <= push_progress_'[v]
    BY DEF StoreInv, Inv, NoneBehind
  <2> QED BY <1>2, <2>1
<1>7. ASSUME NEW q \in sent', q[1] < epoch \/ (q[1] = epoch /\ q[3] < c)
      PROVE  q \in view
  <2>1. sent' \subseteq Controlled
    <3>1. \A r \in sent' : r \in Id /\ r[3] # NoIter
      BY DEF StoreInv, Inv, TypeOK, PushesPlaced
    <3> QED BY <3>1, IdParts
  <2> QED BY <1>3, <1>4, <1>7, <2>1
<1>8. ASSUME NEW q \in view, q[1] = epoch PROVE q[3] < c + 0
  <2>1. q[1] \in Int /\ q[3] \in Int /\ epoch \in Int
    BY <1>4, ControlledId, IdParts, BSPAssumption DEF StoreInv, Inv, TypeOK, Epoch
  <2> QED BY <1>2, <1>3, <1>4, <1>8, <2>1
<1>9. \A q \in sent' :
        \/ q[1] < epoch
        \/ q[1] = epoch /\ (q[3] < c - 0 \/ q[3] < 0)
        => q \in view
  <2>1. ASSUME NEW q \in sent' PROVE q[3] \in Int
    BY IdParts DEF StoreInv, Inv, TypeOK
  <2> QED BY <1>2, <1>7, <2>1
<1>10. (IF inited = {} THEN ZeroProgress ELSE push_progress_)' = push_progress_'
  OBVIOUS
<1>11. \A q \in Controlled : /\ [r \in Controlled |-> store_[r]][q] = store_[q]
                             /\ ([r \in Controlled |-> store_[r]]')[q] = store_'[q]
  OBVIOUS
<1> DEFINE shown == [w \in Workers |->
             IF pulled[w] = NoReply THEN [clock |-> 0, view |-> {}, label |-> 0]
             ELSE [clock |-> pulled[w].iter + IF init_reply_phase_ THEN 0 ELSE 1,
                   view |-> pulled[w].view \cap Controlled, label |-> 0]]
<1>12. ASSUME NEW w \in Workers, shown'[w] # shown[w]
       PROVE  /\ pulled'[w] # pulled[w]
              /\ shown'[w] = [clock |-> pulled'[w].iter + first,
                              view |-> pulled'[w].view \cap Controlled, label |-> 0]
  <2>1. pulled'[w] # pulled[w]
    BY <1>12
  <2>2. pulled'[w] # NoReply
    BY <1>1, <2>1
  <2> QED BY <2>1, <2>2
<1>13. ASSUME NEW w \in Workers, shown'[w] # shown[w]
       PROVE  /\ w \in members /\ push_progress_'[w] = c
              /\ shown'[w].clock = c /\ shown'[w].view = view /\ shown'[w].label = 0
  BY <1>1, <1>12, <1>13
<1> HIDE DEF c, view, first, shown
<1>14. ASSUME NEW w \in Workers, shown'[w] # shown[w]
       PROVE  /\ w \in members /\ shown'[w].clock = push_progress_'[w]
              /\ {q \in Controlled : store_[q] = 1} \subseteq shown'[w].view
              /\ shown'[w].view \subseteq {q \in Controlled : store_'[q] = 1}
              /\ \A v \in members : /\ push_progress_'[v] >= shown'[w].clock - 0
                                    /\ push_progress_'[v] >= shown'[w].label
              /\ \A q \in sent' :
                   \/ q[1] < epoch
                   \/ q[1] = epoch /\ (q[3] < shown'[w].clock - 0 \/ q[3] < shown'[w].label)
                   \/ q[1] = epoch /\ q[3] < shown'[w].clock /\ q[2] = w
                   => q \in shown'[w].view
              /\ \A q \in shown'[w].view : q[1] = epoch => q[3] < shown'[w].clock + 0
  BY <1>5, <1>6, <1>7, <1>8, <1>9, <1>13, <1>14
<1> QED BY <1>10, <1>11, <1>14 DEF StaleStoreOf!Answers, StaleStoreOf!Permitted, shown

\* Without an answer there is nothing to permit.
LEMMA NoAnswerPermitted ==
  ASSUME pulled' = pulled, init_reply_phase_' = init_reply_phase_
  PROVE  StaleStoreOf!Answers
<1>1. [w \in Workers |->
         IF pulled[w] = NoReply THEN [clock |-> 0, view |-> {}, label |-> 0]
         ELSE [clock |-> pulled[w].iter + IF init_reply_phase_ THEN 0 ELSE 1,
               view |-> pulled[w].view \cap Controlled, label |-> 0]]' =
      [w \in Workers |->
         IF pulled[w] = NoReply THEN [clock |-> 0, view |-> {}, label |-> 0]
         ELSE [clock |-> pulled[w].iter + IF init_reply_phase_ THEN 0 ELSE 1,
               view |-> pulled[w].view \cap Controlled, label |-> 0]]
  OBVIOUS
<1> QED BY <1>1 DEF StaleStoreOf!Answers

\* A push is a push of the abstract store.
LEMMA PushTaken ==
  ASSUME StoreInv, NEW w \in Workers, NEW data \in BOOLEAN, Push(w, data)
  PROVE  StaleStoreOf!TakePush(w)
<1>1. /\ w \in inited /\ w \in members /\ inited # {}
      /\ push_progress_' = [push_progress_ EXCEPT ![w] = @ + 1]
      /\ sent' = IF data THEN sent \cup {<<epoch, w, push_progress_[w]>>} ELSE sent
      /\ UNCHANGED <<members, inited, epoch, init_reply_phase_>>
  BY DEF Push, ProcessPush, env, StoreInv, Inv, TypeOK
<1>2. StoreInv' /\ \A q \in Id : store_[q] <= store_'[q]
  BY PushKeeps
<1>3. StaleStoreOf!Absorb
  BY <1>2, Absorbed
<1>4. pulled' = pulled \/ \E answered : AnswersTo(answered, store_')
  BY <1>2, PushAnswers
<1>5. StaleStoreOf!Answers
  BY <1>1, <1>2, <1>4, AnswersPermitted, NoAnswerPermitted
<1>6. /\ (IF inited = {} THEN ZeroProgress ELSE push_progress_) = push_progress_
      /\ (IF inited = {} THEN ZeroProgress ELSE push_progress_)' = push_progress_'
  BY <1>1
<1> QED BY <1>1, <1>3, <1>5, <1>6 DEF StaleStoreOf!TakePush

\* A pull, an Init message and an uncontrolled push only let the store catch up.
LEMMA OthersCatchUp ==
  ASSUME StoreInv, StoreInv', NEW w \in Workers,
         \/ \E data \in BOOLEAN : Pull(w, data)
         \/ InitForConsistencyControl(w)
         \/ PushOff(w)
  PROVE  StaleStoreOf!CatchUp
<1>1. ASSUME NEW data \in BOOLEAN, Pull(w, data) PROVE StaleStoreOf!CatchUp
  <2>1. /\ inited # {}
        /\ UNCHANGED <<members, inited, epoch, init_reply_phase_, sent, push_progress_>>
    BY <1>1 DEF Pull, ProcessPull, env
  <2>2. \A q \in Id : store_[q] <= store_'[q]
    BY <1>1, PullKeeps
  <2>3. pulled' = pulled \/ \E answered : AnswersTo(answered, store_)
    BY <1>1, <2>2, PullAnswers
  <2>4. StaleStoreOf!Absorb /\ StaleStoreOf!Answers
    BY <2>1, <2>2, <2>3, Absorbed, AnswersPermitted, NoAnswerPermitted
  <2>5. UNCHANGED (IF inited = {} THEN ZeroProgress ELSE push_progress_)
    BY <2>1
  <2> QED BY <2>1, <2>4, <2>5 DEF StaleStoreOf!CatchUp
<1>2. CASE InitForConsistencyControl(w)
  <2>1. UNCHANGED <<members, epoch, init_reply_phase_, sent, store_, pulled>> /\ inited' # {}
    BY <1>2 DEF InitForConsistencyControl, ProcessInit
  <2>2. \/ init_count_ = 0 /\ push_progress_' = ZeroProgress
        \/ init_count_ # 0 /\ UNCHANGED push_progress_
    BY <1>2 DEF InitForConsistencyControl, ProcessInit, pushState
  <2>3. init_count_ = 0 <=> inited = {}
    <3>1. inited # members /\ IsFiniteSet(inited)
      BY <1>2, MembersSize, FS_Subset DEF InitForConsistencyControl, StoreInv, Inv, TypeOK
    <3> QED BY <3>1, FS_EmptySet DEF StoreInv, Inv, InitsCounted
  <2>4. UNCHANGED (IF inited = {} THEN ZeroProgress ELSE push_progress_)
    BY <2>1, <2>2, <2>3
  <2>5. \A q \in Id : store_[q] <= store_'[q]
    BY <2>1 DEF StoreInv, Inv, TypeOK
  <2>6. StaleStoreOf!Absorb /\ StaleStoreOf!Answers
    BY <2>1, <2>5, Absorbed, NoAnswerPermitted
  <2> QED BY <2>1, <2>4, <2>6 DEF StaleStoreOf!CatchUp
<1>3. CASE PushOff(w)
  <2> DEFINE req == [src |-> w, id |-> <<epoch, w, NoIter>>, data |-> TRUE]
  <2>1. /\ UNCHANGED <<members, inited, epoch, init_reply_phase_, sent, push_progress_, pulled>>
        /\ store_' = Update(store_, {req})
    BY <1>3 DEF PushOff, ProcessPushOff, env, control, pushState
  <2>2. req \in Request /\ store_ \in [Id -> Nat]
    BY DEF Request, Id, StoreInv, Inv, TypeOK
  <2>3. \A q \in Id : store_'[q] = store_[q] + 1 \/ store_'[q] = store_[q]
    BY <2>1, <2>2, UpdateExact
  <2>4. \A q \in Id : store_[q] <= store_'[q]
    BY <2>2, <2>3
  <2>5. StaleStoreOf!Absorb /\ StaleStoreOf!Answers
    BY <2>1, <2>4, Absorbed, NoAnswerPermitted
  <2>6. UNCHANGED (IF inited = {} THEN ZeroProgress ELSE push_progress_)
    BY <2>1
  <2> QED BY <2>1, <2>5, <2>6 DEF StaleStoreOf!CatchUp
<1> QED BY <1>1, <1>2, <1>3

\* The next instance starts with every push of the last one in the store.
LEMMA NewEpochComplete ==
  ASSUME StoreInv, StoreInv', NewEpoch
  PROVE  StaleStoreOf!NewInstance
<1>1. /\ epoch' = epoch + 1 /\ members' \in (SUBSET Workers) \ {{}} /\ inited' = {}
      /\ pulled' = [v \in Workers |-> NoReply] /\ UNCHANGED <<store_, sent>>
  BY DEF NewEpoch
<1>2. \A q \in sent : q \in Controlled /\ store_[q] = 1
  <2>1. \A q \in sent : q \in Controlled
    BY SentControlled DEF StoreInv, Inv
  <2>2. ASSUME NEW q \in sent PROVE store_[q] = 1
    <3>1. q \in Id /\ q[1] \in Int /\ epoch \in Int /\ q[1] <= epoch
      <4>1. q \in Id /\ epoch \in Epoch /\ q[1] <= epoch
        BY DEF StoreInv, Inv, TypeOK, PushesPlaced
      <4> QED BY <4>1, IdParts, BSPAssumption DEF Epoch
    <3>2. q \in sent' /\ q[1] < epoch' /\ store_'[q] = store_[q]
      BY <1>1, <3>1
    <3> QED BY <3>2 DEF StoreInv, EarlierStored
  <2> QED BY <2>1, <2>2
<1>3. (IF inited = {} THEN ZeroProgress ELSE push_progress_)' = [v \in Workers |-> 0]
  BY <1>1 DEF ZeroProgress
<1>4. [w \in Workers |->
         IF pulled[w] = NoReply THEN [clock |-> 0, view |-> {}, label |-> 0]
         ELSE [clock |-> pulled[w].iter + IF init_reply_phase_ THEN 0 ELSE 1,
               view |-> pulled[w].view \cap Controlled, label |-> 0]]' =
      [v \in Workers |-> [clock |-> 0, view |-> {}, label |-> 0]]
  BY <1>1
<1> QED BY <1>1, <1>2, <1>3, <1>4
    DEF StaleStoreOf!NewInstance, StaleStoreOf!Zero, StaleStoreOf!NoAnswer

\* Initial states map to initial states, and steps to steps or stuttering.
LEMMA StoreSteps ==
  /\ Init => StaleStoreOf!StoreInit
  /\ StoreInv /\ StoreInv' /\ [Next]_vars
       => [StaleStoreOf!StoreNext]_(StaleStoreOf!storeVars)
<1>1. ASSUME Init PROVE StaleStoreOf!StoreInit
  <2>1. /\ members \in (SUBSET Workers) \ {{}} /\ epoch = 1 /\ sent = {}
        /\ push_progress_ = ZeroProgress /\ store_ = [q \in Id |-> 0]
        /\ pulled = [w \in Workers |-> NoReply]
    BY <1>1 DEF Init
  <2>2. (IF inited = {} THEN ZeroProgress ELSE push_progress_) = [w \in Workers |-> 0]
    BY <2>1 DEF ZeroProgress
  <2>3. [q \in Controlled |-> store_[q]] = [q \in Controlled |-> 0]
    BY <2>1, ControlledId
  <2>4. [w \in Workers |->
           IF pulled[w] = NoReply THEN [clock |-> 0, view |-> {}, label |-> 0]
           ELSE [clock |-> pulled[w].iter + IF init_reply_phase_ THEN 0 ELSE 1,
                 view |-> pulled[w].view \cap Controlled, label |-> 0]] =
        [v \in Workers |-> [clock |-> 0, view |-> {}, label |-> 0]]
    BY <2>1
  <2> QED BY <2>1, <2>2, <2>3, <2>4
      DEF StaleStoreOf!StoreInit, StaleStoreOf!Zero, StaleStoreOf!NoAnswer
<1>2. ASSUME StoreInv, StoreInv', Next PROVE StaleStoreOf!StoreNext
  BY <1>2, PushTaken, OthersCatchUp, NewEpochComplete DEF Next, StaleStoreOf!StoreNext
<1>3. ASSUME UNCHANGED vars PROVE UNCHANGED StaleStoreOf!storeVars
  BY <1>3 DEF vars, env, control, pushState, StaleStoreOf!storeVars
<1> QED BY <1>1, <1>2, <1>3

------------------------------------------------------------------------------
(* The results.                                                            *)

\* Every push is in the store exactly when its iteration is due, and waits in
\* the bucket of its iteration until then: the invariant of the refinement
\* holds in every state the server can reach.
THEOREM StoreInvariance == Spec => []StoreInv
BY StoreInvInductive, PTL DEF Spec

\* The server implements the abstract store with no slack: every push is taken
\* in exactly once, and every answer holds the pushes of the iterations before
\* it and no other push of its epoch, whatever the order of the requests.
THEOREM Refinement == Spec => ImplementsStaleStore
<1>1. StaleStoreOf!StoreInit /\ [][StaleStoreOf!StoreNext]_(StaleStoreOf!storeVars)
        => ImplementsStaleStore
  BY DEF ImplementsStaleStore, StaleStoreOf!StoreSpec
<1> QED BY <1>1, StoreInvariance, StoreSteps, PTL DEF Spec
==============================================================================
