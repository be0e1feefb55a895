--------------------------- MODULE KVWorkerProofs ---------------------------
(***************************************************************************)
(* Proofs about KVWorker for every number of servers, every set of         *)
(* key-value stores and every sequence of calls.                           *)
(*                                                                         *)
(* The argument follows the answers.  Each slice of a request is in one    *)
(* place: still to be sent, with its server, in the mailbox or in the      *)
(* hands of the receiving thread (OnePlace); the counter of the request    *)
(* has counted exactly the others (CountersExact).  So the receiving       *)
(* thread, which looks at the counter before it stores an answer and       *)
(* counts it afterwards, is right about the last one (LastKnown), and runs *)
(* the callback once, with all slices stored (CallbackTracked,             *)
(* PullsCollected), before the count lets Wait return.                     *)
(***************************************************************************)
EXTENDS KVWorker, FiniteSetTheorems, SequenceTheorems, TLAPS

------------------------------------------------------------------------------
(* Sorting.                                                                *)

\* Distinct keys can be put in order: each goes to the place that the number
\* of keys up to it gives.
LEMMA OrderExists ==
  ASSUME NEW n \in Nat, NEW key \in [1 .. n -> Int],
         \A i, j \in 1 .. n : key[i] = key[j] => i = j
  PROVE  \E p \in Bijection(1 .. n, 1 .. n) :
           \A i, j \in 1 .. n : i < j => key[p[i]] < key[p[j]]
<1> DEFINE D == 1 .. n
           Upto(i) == {j \in D : key[j] <= key[i]}
           rank == [i \in D |-> Cardinality(Upto(i))]
           p == [k \in D |-> CHOOSE i \in D : rank[i] = k]
<1>1. IsFiniteSet(D) /\ Cardinality(D) = n
  BY FS_Interval
<1>2. ASSUME NEW i \in D
      PROVE  IsFiniteSet(Upto(i)) /\ rank[i] \in D
  <2>1. IsFiniteSet(Upto(i)) /\ Cardinality(Upto(i)) <= n
    BY <1>1, FS_Subset
  <2>2. i \in Upto(i)
    OBVIOUS
  <2>3. Cardinality(Upto(i)) \in Nat /\ Cardinality(Upto(i)) # 0
    BY <2>1, <2>2, FS_CardinalityType, FS_EmptySet
  <2> QED BY <2>1, <2>3
<1>3. ASSUME NEW i \in D, NEW j \in D, key[i] < key[j]
      PROVE  rank[i] < rank[j]
  <2>1. Upto(i) \subseteq Upto(j)
    BY <1>3
  <2>2. j \in Upto(j) /\ j \notin Upto(i)
    BY <1>3
  <2>3. Cardinality(Upto(i)) <= Cardinality(Upto(j)) /\ Cardinality(Upto(i)) # Cardinality(Upto(j))
    BY <1>2, <2>1, <2>2, FS_Subset
  <2>4. Cardinality(Upto(i)) \in Nat /\ Cardinality(Upto(j)) \in Nat
    BY <1>2, FS_CardinalityType
  <2>5. rank[i] = Cardinality(Upto(i)) /\ rank[j] = Cardinality(Upto(j))
    OBVIOUS
  <2> HIDE DEF Upto, rank
  <2> QED BY <2>3, <2>4, <2>5
<1> HIDE DEF rank
<1>4. \A i, j \in D : rank[i] = rank[j] => i = j
  <2>1. SUFFICES ASSUME NEW i \in D, NEW j \in D, rank[i] = rank[j], i # j PROVE FALSE
    OBVIOUS
  <2>2. key[i] < key[j] \/ key[j] < key[i]
    BY <2>1
  <2>3. \A k \in D : k \in Int
    OBVIOUS
  <2>4. rank[i] \in Int /\ rank[j] \in Int
    <3> HIDE DEF D
    <3> QED BY <1>2, <2>3
  <2> HIDE DEF D, Upto
  <2> QED BY <1>3, <2>1, <2>2, <2>4
<1>5. rank \in Injection(D, D)
  BY <1>2, <1>4 DEF Injection, IsInjective, rank
<1>6. rank \in Surjection(D, D)
  BY <1>1, <1>5, FS_Injection
<1>7. ASSUME NEW k \in D PROVE p[k] \in D /\ rank[p[k]] = k
  <2>1. \E i \in D : rank[i] = k
    BY <1>6 DEF Surjection
  <2> QED BY <2>1
<1> HIDE DEF p
<1>8. p \in Bijection(D, D)
  <2>1. p \in [D -> D]
    BY <1>7 DEF p
  <2>2. \A k, l \in D : p[k] = p[l] => k = l
    BY <1>7
  <2>3. \A i \in D : p[rank[i]] = i
    BY <1>2, <1>4, <1>7
  <2>4. \A i \in D : \E k \in D : p[k] = i
    BY <1>2, <2>3
  <2> QED BY <2>1, <2>2, <2>4 DEF Bijection, Injection, Surjection, IsInjective
<1>9. ASSUME NEW i \in D, NEW j \in D, i < j PROVE key[p[i]] < key[p[j]]
  <2>1. p[i] \in D /\ p[j] \in D /\ rank[p[i]] = i /\ rank[p[j]] = j
    BY <1>7
  <2>2. key[p[i]] # key[p[j]]
    BY <1>9, <2>1
  <2>3. ~(key[p[j]] < key[p[i]])
    BY <1>3, <1>9, <2>1
  <2> QED BY <2>1, <2>2, <2>3
<1> QED BY <1>8, <1>9

\* The callbacks put the answers of a pull in key order.
LEMMA SortedByKey ==
  ASSUME NEW kvs \in Seq(Collected), NEW S, Lists(kvs, S), NEW op
  PROVE  /\ Assembled(op, kvs).slices \in Seq(Servers)
         /\ Ordered(Assembled(op, kvs).slices, S)
<1> DEFINE n == Len(kvs)
           D == 1 .. n
           key == [i \in D |-> kvs[i].server]
           Sorts(p) == \A i, j \in D : i < j => kvs[p[i]].server <= kvs[p[j]].server
           order == CHOOSE p \in Bijection(D, D) : Sorts(p)
           slices == [i \in D |-> kvs[order[i]].server]
<1>1. /\ n \in Nat /\ DOMAIN kvs = D /\ \A i \in D : kvs[i] \in Collected
  OBVIOUS
<1>2. key \in [D -> Servers] /\ \A i \in D : key[i] \in Int /\ key[i] = kvs[i].server
  BY <1>1 DEF Collected, Servers
<1>3. \A i, j \in D : key[i] = key[j] => i = j
  BY <1>1, <1>2 DEF Lists
<1>4. PICK p \in Bijection(D, D) : \A i, j \in D : i < j => key[p[i]] < key[p[j]]
  BY <1>1, <1>2, <1>3, OrderExists
<1>5. order \in Bijection(D, D) /\ Sorts(order)
  <2>1. p \in [D -> D]
    BY DEF Bijection, Injection
  <2>2. ASSUME NEW i \in D, NEW j \in D, i < j PROVE kvs[p[i]].server <= kvs[p[j]].server
    <3>1. p[i] \in D /\ p[j] \in D /\ key[p[i]] < key[p[j]]
      BY <1>4, <2>1, <2>2
    <3> HIDE DEF key, D
    <3> QED BY <1>2, <3>1
  <2> QED BY <2>2
<1>6. /\ order \in [D -> D]
      /\ \A i, j \in D : order[i] = order[j] => i = j
      /\ \A i \in D : \E k \in D : order[k] = i
  BY <1>5 DEF Bijection, Injection, Surjection, IsInjective
<1>7. Assembled(op, kvs).slices = slices
  <2>1. InKeyOrder(kvs) = [i \in D |-> kvs[order[i]]]
    BY <1>1 DEF InKeyOrder
  <2>2. Assembled(op, kvs).slices = [i \in DOMAIN InKeyOrder(kvs) |-> InKeyOrder(kvs)[i].server]
    BY DEF Assembled
  <2> QED BY <2>1, <2>2
<1> HIDE DEF order
<1>8. slices \in Seq(Servers) /\ DOMAIN slices = D
  BY <1>1, <1>2, <1>6
<1>9. Range(slices) = S
  <2>1. \A i \in D : slices[i] \in S
    BY <1>1, <1>6 DEF Lists
  <2>2. ASSUME NEW s \in S PROVE \E k \in D : slices[k] = s
    <3>1. PICK i \in D : kvs[i].server = s
      BY <1>1 DEF Lists
    <3> QED BY <1>6, <3>1
  <2> QED BY <1>8, <2>1, <2>2 DEF Range
<1>10. ASSUME NEW i \in D, NEW j \in D, i < j PROVE slices[i] < slices[j]
  <2>1. slices[i] <= slices[j]
    BY <1>5, <1>10
  <2>2. order[i] \in D /\ order[j] \in D
    BY <1>6
  <2>3. order[i] # order[j]
    <3>1. i # j
      BY <1>10
    <3> QED BY <1>6, <3>1
  <2>4. slices[i] = key[order[i]] /\ slices[j] = key[order[j]]
    BY <2>2
  <2> HIDE DEF slices, key, D
  <2>5. slices[i] # slices[j] /\ slices[i] \in Int /\ slices[j] \in Int
    BY <1>2, <1>3, <2>2, <2>3, <2>4
  <2> QED BY <2>1, <2>5
<1> QED BY <1>7, <1>8, <1>9, <1>10 DEF Ordered
------------------------------------------------------------------------------
(* Requests, their slices and where these are.                             *)

\* What TypeOK says of a request that has been made.
LEMMA UsedIds ==
  ASSUME TypeOK, NEW id \in IdsInUse
  PROVE  /\ id \in Ids /\ id[1] \in Kvs /\ id[2] \in 1 .. MaxRequests /\ id = <<id[1], id[2]>>
         /\ id[2] \in 1 .. Len(tracker_[id[1]]) /\ id[2] \in 1 .. Len(requests[id[1]])
         /\ CallOf(id) \in Calls /\ CounterOf(id) \in Counter
         /\ CallOf(id).slices \subseteq Servers /\ IsFiniteSet(CallOf(id).slices)
<1>1. id \in Ids /\ id[1] \in Kvs /\ id[2] \in 1 .. MaxRequests /\ id = <<id[1], id[2]>>
  BY DEF IdsInUse, Ids
<1>2. /\ tracker_[id[1]] \in Seq(Counter) /\ requests[id[1]] \in Seq(Calls)
      /\ Len(tracker_[id[1]]) = Len(requests[id[1]])
  BY <1>1 DEF TypeOK
<1>3. id[2] \in 1 .. Len(tracker_[id[1]]) /\ id[2] \in 1 .. Len(requests[id[1]])
  BY <1>2 DEF IdsInUse
<1>4. CallOf(id) \in Calls /\ CounterOf(id) \in Counter
  BY <1>2, <1>3 DEF CallOf, CounterOf
<1>5. CallOf(id).slices \subseteq Servers
  BY <1>4 DEF Calls, Call
<1>6. IsFiniteSet(Servers)
  BY KVWorkerAssumption, FS_Interval DEF Servers
<1> QED BY <1>1, <1>3, <1>4, <1>5, <1>6, FS_Subset

\* An open slice is a slice of the call, and belongs to a request.
LEMMA OpenSlices ==
  ASSUME TypeOK, MessagesGenuine, NEW id \in Ids
  PROVE  /\ id \in IdsInUse => Open(id) \subseteq CallOf(id).slices
         /\ id \notin IdsInUse => Open(id) = {}
<1>1. ASSUME NEW s \in ToSend(id) PROVE id \in IdsInUse /\ s \in CallOf(id).slices
  <2>1. app.pc \in {"callback", "send"} /\ ThisId = id /\ s \in CallOf(id).slices
    BY DEF ToSend
  <2>2. app \notin {At("idle"), At("join"), At("stopped")}
    BY <2>1 DEF At
  <2> QED BY <2>1, <2>2 DEF TypeOK
<1>2. ASSUME NEW s \in Held(id) PROVE id \in IdsInUse /\ s \in CallOf(id).slices
  BY DEF Held, MessagesGenuine, Addressed, Genuine
<1>3. ASSUME NEW s \in Arriving(id) PROVE id \in IdsInUse /\ s \in CallOf(id).slices
  BY DEF Arriving, MessagesGenuine, Replies, Genuine
<1>4. ASSUME NEW s \in Handling(id) PROVE id \in IdsInUse /\ s \in CallOf(id).slices
  BY DEF Handling, InHand, MessagesGenuine, Replies, Genuine
<1> QED BY <1>1, <1>2, <1>3, <1>4 DEF Open

\* A request is finished when none of its slices is open; one is missing when
\* one slice is.
LEMMA Counting ==
  ASSUME TypeOK, MessagesGenuine, CountersExact, NEW id \in IdsInUse
  PROVE  /\ CounterOf(id).first = CounterOf(id).second <=> Open(id) = {}
         /\ IsLast(CounterOf(id)) <=> \E s : Open(id) = {s}
<1> DEFINE S == CallOf(id).slices
           O == Open(id)
<1>1. IsFiniteSet(S) /\ O \subseteq S
  BY UsedIds, OpenSlices
<1>2. CounterOf(id).first = Cardinality(S) /\ CounterOf(id).second = Cardinality(S \ O)
  BY DEF CountersExact
<1> HIDE DEF S, O
<1>3. IsFiniteSet(O) /\ S \cap O = O
  BY <1>1, FS_Subset
<1>4. Cardinality(S \ O) = Cardinality(S) - Cardinality(O)
  BY <1>1, <1>3, FS_Difference
<1>5. Cardinality(S) \in Nat /\ Cardinality(O) \in Nat
  BY <1>1, <1>3, FS_CardinalityType
<1>6. Cardinality(O) = 0 <=> O = {}
  BY <1>3, FS_EmptySet
<1>7. Cardinality(O) = 1 <=> \E s : O = {s}
  BY <1>3, FS_Singleton
<1>8. CounterOf(id).first = CounterOf(id).second <=> O = {}
  BY <1>2, <1>4, <1>5, <1>6
<1>9. IsLast(CounterOf(id)) <=> Cardinality(O) = 1
  BY <1>2, <1>4, <1>5 DEF IsLast
<1> QED BY <1>7, <1>8, <1>9 DEF O

\* At most one message of a request is for a server.
LEMMA OneMessage ==
  ASSUME TypeOK, MessagesGenuine, NEW m \in servers, NEW n \in servers,
         m.id = n.id, m.server = n.server
  PROVE  m = n
<1>1. m \in Request /\ n \in Request /\ Addressed(m) /\ Addressed(n)
  BY DEF TypeOK, MessagesGenuine
<1>2. m.cmd = n.cmd /\ m.push = n.push /\ m.data = n.data
  BY <1>1 DEF Addressed, Genuine
<1> QED BY <1>1, <1>2 DEF Request

\* What a step leaves alone that moves a slice from one place to the next.
LEMMA Frame ==
  ASSUME CountersExact, CallbackTracked, PullsCollected,
         UNCHANGED <<tracker_, requests, callbacks_, recv_kvs_, vals, ran>>,
         app'.pc = "callback" <=> app.pc = "callback",
         app.pc = "callback" => app' = app,
         \A id \in Ids : /\ Open(id)' = Open(id)
                         /\ NotStored(id)' = NotStored(id)
                         /\ Pending(id)' = Pending(id)
  PROVE  CountersExact' /\ CallbackTracked' /\ PullsCollected'
<1>1. IdsInUse' = IdsInUse /\ IdsInUse \subseteq Ids
  BY DEF IdsInUse
<1>2. ASSUME NEW id \in Ids
      PROVE  /\ CallOf(id)' = CallOf(id) /\ CounterOf(id)' = CounterOf(id)
             /\ Over(id)' <=> Over(id)
             /\ Registering(id)' <=> Registering(id)
  BY DEF CallOf, CounterOf, Over, Registering, ThisId
<1>3. CountersExact'
  BY <1>1, <1>2 DEF CountersExact
<1>4. CallbackTracked'
  <2>1. (app.pc = "callback" => app.next = 1 /\ ThisCall.op \notin {"Init", "Push"})'
    BY DEF CallbackTracked, ThisCall
  <2>2. ASSUME NEW id \in Ids
        PROVE  IF id \in IdsInUse' /\ Registers(CallOf(id)')
                 THEN /\ id \in callbacks_' <=> ~Over(id)' /\ ~Registering(id)'
                      /\ ran'[id] = IF CallOf(id)'.cb /\ Over(id)' THEN 1 ELSE 0
                 ELSE id \notin callbacks_' /\ ran'[id] = 0
    BY <1>1, <1>2 DEF CallbackTracked
  <2> QED BY <2>1, <2>2 DEF CallbackTracked
<1>5. PullsCollected'
  <2>1. ASSUME NEW id \in Ids
        PROVE  IF id \in IdsInUse' /\ ~IsPush(CallOf(id)'.op)
                 THEN IF Over(id)' THEN Ordered(vals'[id].slices, CallOf(id)'.slices)
                      ELSE /\ Lists(recv_kvs_'[id], CallOf(id)'.slices \ NotStored(id)')
                           /\ vals'[id] = NoVals
                 ELSE recv_kvs_'[id] = <<>> /\ vals'[id] = NoVals
    BY <1>1, <1>2 DEF PullsCollected
  <2> QED BY <2>1 DEF PullsCollected
<1> QED BY <1>3, <1>4, <1>5

\* Nothing has been asked yet.
LEMMA Initially == Init => Inv
<1> SUFFICES ASSUME Init PROVE Inv
  OBVIOUS
<1>1. IdsInUse = {}
  BY DEF Init, IdsInUse, Ids
<1>2. TypeOK
  BY <1>1, KVWorkerAssumption DEF Init, TypeOK, At, NoVals
<1>3. MessagesGenuine /\ OnePlace /\ CountersExact /\ LastKnown /\ ReturnedFinished
  BY <1>1 DEF Init, MessagesGenuine, OnePlace, CountersExact, LastKnown, ReturnedFinished, At
<1>4. CallbackTracked /\ PullsCollected
  BY <1>1 DEF Init, CallbackTracked, PullsCollected, At
<1> QED BY <1>2, <1>3, <1>4 DEF Inv

------------------------------------------------------------------------------
(* Commands, formats and the mailbox.                                      *)

\* The command of a message is a number, and for a pull the format in which
\* the answer is written is the one in which it is read.
LEMMA Commands ==
  ASSUME NEW c \in Calls, NEW s
  PROVE  /\ Cmd(c, s) \in Nat /\ ServerCmd(Cmd(c, s)) \in Nat
         /\ ~IsPush(c.op) =>
              /\ Decoded(ServerCmd(Cmd(c, s))) = Encoded(ServerCmd(Cmd(c, s)))
              /\ Decoded(ServerCmd(Cmd(c, s))) = "keys, vals, min_clock" <=>
                   c.op = "PullChunksWithMinClock"
<1> USE DEF local_zero_copy_magic_, with_min_clock_magic_, consistency_control_off_magic_
<1>1. /\ c.op \in AllOps
      /\ c.op = "PullChunksWithMinClock" => c.consistency_control
  BY DEF Calls, Call
<1>2. 0 % 100 = 0 /\ 1 % 100 = 1 /\ 2 % 100 = 2 /\ 3 % 100 = 3 /\ 4 % 100 = 4 /\ 11 % 100 = 11 /\ 13 % 100 = 13
  OBVIOUS
<1>3. \A v \in {0, 1, 3} : Decoded(v) = "keys, vals" /\ Encoded(v) = "keys, vals"
  BY <1>2 DEF Decoded, Encoded
<1>4. Decoded(2) = "pointer" /\ Encoded(2) = "pointer"
  BY <1>2 DEF Decoded, Encoded
<1>5. \A v \in {11, 13} : Decoded(v) = "keys, vals, min_clock" /\ Encoded(v) = "keys, vals, min_clock"
  BY <1>2 DEF Decoded, Encoded
<1> DEFINE sent == Cmd(c, s)
           cmd == ServerCmd(sent)
<1> SUFFICES /\ sent \in Nat /\ cmd \in Nat
             /\ ~IsPush(c.op) =>
                  /\ Decoded(cmd) = Encoded(cmd)
                  /\ Decoded(cmd) = "keys, vals, min_clock" <=> c.op = "PullChunksWithMinClock"
  OBVIOUS
<1>6. CASE c.op \in {"Init", "PushLocal", "PullLocal"}
  <2>1. sent \in {0, 4} /\ (c.op = "PullLocal" => sent = 0)
    BY <1>6 DEF Cmd
  <2>2. cmd \in {0, 4} /\ (c.op = "PullLocal" => cmd = 0)
    BY <1>2, <2>1 DEF ServerCmd
  <2> HIDE DEF sent, cmd
  <2>3. sent \in Nat /\ cmd \in Nat
    BY <2>1, <2>2
  <2>4. c.op = "PullLocal" => Decoded(cmd) = "keys, vals" /\ Encoded(cmd) = "keys, vals"
    BY <1>3, <2>2
  <2> QED BY <1>6, <2>3, <2>4 DEF IsPush
<1>7. CASE c.op \in {"Push", "Pull"}
  <2>1. sent \in {0, 2, 100, 102}
    BY <1>7 DEF Cmd
  <2>2. cmd \in {0, 2}
    BY <2>1 DEF ServerCmd
  <2> HIDE DEF sent, cmd
  <2>3. sent \in Nat /\ cmd \in Nat
    BY <2>1, <2>2
  <2>4. Decoded(cmd) = Encoded(cmd) /\ Decoded(cmd) \in {"pointer", "keys, vals"}
    BY <1>3, <1>4, <2>2
  <2> QED BY <1>7, <2>3, <2>4
<1>8. CASE c.op = "PullChunks"
  <2>1. sent \in {1, 3, 101, 103}
    BY <1>8 DEF Cmd
  <2>2. cmd \in {1, 3}
    BY <2>1 DEF ServerCmd
  <2> HIDE DEF sent, cmd
  <2>3. sent \in Nat /\ cmd \in Nat
    BY <2>1, <2>2
  <2>4. Decoded(cmd) = "keys, vals" /\ Encoded(cmd) = "keys, vals"
    BY <1>3, <2>2
  <2> QED BY <1>8, <2>3, <2>4
<1>9. CASE c.op = "PullChunksWithMinClock"
  <2>1. sent \in {11, 13}
    BY <1>1, <1>9 DEF Cmd
  <2>2. cmd \in {11, 13}
    BY <2>1 DEF ServerCmd
  <2> HIDE DEF sent, cmd
  <2>3. sent \in Nat /\ cmd \in Nat
    BY <2>1, <2>2
  <2>4. Decoded(cmd) = "keys, vals, min_clock" /\ Encoded(cmd) = "keys, vals, min_clock"
    BY <1>5, <2>2
  <2> QED BY <1>9, <2>3, <2>4
<1> QED BY <1>1, <1>6, <1>7, <1>8, <1>9 DEF AllOps

\* A message that is sent to the worker arrives after the others.
LEMMA MailSent ==
  ASSUME TypeOK, NEW x \in Answer \cup {Stop}, mailbox' = Append(mailbox, x)
  PROVE  /\ mailbox' \in Seq(Answer \cup {Stop})
         /\ \E last : /\ last \notin DOMAIN mailbox
                      /\ DOMAIN mailbox' = DOMAIN mailbox \cup {last}
                      /\ mailbox'[last] = x
                      /\ \A i \in DOMAIN mailbox : mailbox'[i] = mailbox[i]
         /\ \A id : Arriving(id)' = Arriving(id) \cup
                      (IF ~x.stop /\ x.id = id THEN {x.server} ELSE {})
<1>1. mailbox \in Seq(Answer \cup {Stop})
  BY DEF TypeOK
<1>2. mailbox' \in Seq(Answer \cup {Stop})
  BY <1>1
<1>3. /\ Len(mailbox) + 1 \notin DOMAIN mailbox
      /\ DOMAIN mailbox' = DOMAIN mailbox \cup {Len(mailbox) + 1}
      /\ mailbox'[Len(mailbox) + 1] = x
      /\ \A i \in DOMAIN mailbox : mailbox'[i] = mailbox[i]
  BY <1>1
<1>4. ~x.stop => x.server \in Servers
  <2>1. x = Stop => x.stop
    BY DEF Stop
  <2>2. x \in Answer => x.server \in Servers
    BY DEF Answer
  <2> QED BY <2>1, <2>2
<1>5. ASSUME NEW id
      PROVE  Arriving(id)' = Arriving(id) \cup
               (IF ~x.stop /\ x.id = id THEN {x.server} ELSE {})
  BY <1>3, <1>4 DEF Arriving
<1> QED BY <1>2, <1>3, <1>5

\* The receiving thread takes the first message.
LEMMA MailTaken ==
  ASSUME TypeOK, OnePlace, mailbox # <<>>, mailbox' = Tail(mailbox)
  PROVE  /\ mailbox' \in Seq(Answer \cup {Stop})
         /\ 1 \in DOMAIN mailbox /\ Head(mailbox) = mailbox[1]
         /\ Head(mailbox) \in Answer \cup {Stop}
         /\ \A i \in DOMAIN mailbox' : i + 1 \in DOMAIN mailbox /\ mailbox'[i] = mailbox[i + 1]
         /\ \A i, j \in DOMAIN mailbox' : i + 1 = j + 1 => i = j
         /\ \A id : IF ~Head(mailbox).stop /\ Head(mailbox).id = id
                      THEN /\ Head(mailbox).server \in Arriving(id)
                           /\ Arriving(id)' = Arriving(id) \ {Head(mailbox).server}
                      ELSE Arriving(id)' = Arriving(id)
<1>1. mailbox \in Seq(Answer \cup {Stop})
  BY DEF TypeOK
<1>2. mailbox' \in Seq(Answer \cup {Stop}) /\ Len(mailbox') = Len(mailbox) - 1
  BY <1>1, HeadTailProperties
<1>3. /\ 1 \in DOMAIN mailbox /\ Head(mailbox) = mailbox[1]
      /\ Head(mailbox) \in Answer \cup {Stop}
  BY <1>1
<1>4. /\ \A i \in DOMAIN mailbox' : i + 1 \in DOMAIN mailbox /\ mailbox'[i] = mailbox[i + 1]
      /\ \A i \in DOMAIN mailbox : i # 1 => i - 1 \in DOMAIN mailbox' /\ mailbox'[i - 1] = mailbox[i]
      /\ \A i \in DOMAIN mailbox' : i + 1 # 1
      /\ \A i, j \in DOMAIN mailbox' : i + 1 = j + 1 => i = j
  BY <1>1, <1>2
<1> DEFINE h == mailbox[1]
<1>5. ASSUME NEW id, ~h.stop, h.id = id
      PROVE  h.server \in Arriving(id) /\ Arriving(id)' = Arriving(id) \ {h.server}
  <2>1. h.server \in Servers
    <3>1. h = Stop => h.stop
      BY DEF Stop
    <3>2. h \in Answer => h.server \in Servers
      BY DEF Answer
    <3> QED BY <1>3, <1>5, <3>1, <3>2
  <2>2. h.server \in Arriving(id)
    BY <1>3, <1>5, <2>1 DEF Arriving
  <2>3. \A i \in DOMAIN mailbox : ~mailbox[i].stop /\ mailbox[i].id = id
                                    /\ mailbox[i].server = h.server => i = 1
    BY <1>3, <1>5 DEF OnePlace
  <2>4. Arriving(id)' \subseteq Arriving(id) \ {h.server}
    BY <1>4, <2>3 DEF Arriving
  <2>5. Arriving(id) \ {h.server} \subseteq Arriving(id)'
    BY <1>4 DEF Arriving
  <2> QED BY <2>2, <2>4, <2>5
<1>6. ASSUME NEW id, ~(~h.stop /\ h.id = id)
      PROVE  Arriving(id)' = Arriving(id)
  <2>1. Arriving(id)' \subseteq Arriving(id)
    BY <1>4 DEF Arriving
  <2>2. ASSUME NEW s \in Arriving(id) PROVE s \in Arriving(id)'
    <3>1. PICK i \in DOMAIN mailbox : ~mailbox[i].stop /\ mailbox[i].id = id /\ mailbox[i].server = s
      BY DEF Arriving
    <3>2. i # 1
      BY <1>6, <3>1
    <3> QED BY <1>4, <3>1, <3>2 DEF Arriving
  <2> QED BY <2>1, <2>2
<1> QED BY <1>2, <1>3, <1>4, <1>5, <1>6

------------------------------------------------------------------------------
(* The steps of the application thread.                                    *)

\* A step that starts and sends no request leaves the slices where they are.
LEMMA QuietStep ==
  ASSUME Inv, UNCHANGED <<shared, recv, servers, requests, vals, ran>>,
         \/ app.pc \notin {"callback", "send"} /\ app'.pc \notin {"callback", "send"}
         \/ app' = app,
         mailbox' = mailbox \/ mailbox' = Append(mailbox, Stop),
         TypeOK', ReturnedFinished'
  PROVE  Inv'
<1> USE DEF shared
<1>1. IdsInUse' = IdsInUse
  BY DEF IdsInUse
<1>2. ASSUME NEW id \in Ids
      PROVE  CallOf(id)' = CallOf(id) /\ CounterOf(id)' = CounterOf(id)
  BY DEF CallOf, CounterOf
<1>3. Stop.stop = TRUE /\ Stop \in Answer \cup {Stop}
  BY DEF Stop
<1>4. ASSUME NEW id \in Ids
      PROVE  /\ ToSend(id)' = ToSend(id) /\ Held(id)' = Held(id)
             /\ Arriving(id)' = Arriving(id) /\ Handling(id)' = Handling(id)
             /\ Open(id)' = Open(id) /\ NotStored(id)' = NotStored(id) /\ Pending(id)' = Pending(id)
  <2>1. ToSend(id)' = ToSend(id)
    <3>1. CASE app' = app
      BY <1>2, <3>1 DEF ToSend, ThisId
    <3>2. CASE app.pc \notin {"callback", "send"} /\ app'.pc \notin {"callback", "send"}
      BY <3>2 DEF ToSend
    <3> QED BY <3>1, <3>2
  <2>2. Held(id)' = Held(id)
    BY DEF Held
  <2>3. Arriving(id)' = Arriving(id)
    <3>1. CASE mailbox' = mailbox
      BY <3>1 DEF Arriving
    <3>2. CASE mailbox' = Append(mailbox, Stop)
      <4>1. TypeOK
        BY DEF Inv
      <4>2. Arriving(id)' = Arriving(id) \cup
              (IF ~Stop.stop /\ Stop.id = id THEN {Stop.server} ELSE {})
        BY <1>3, <3>2, <4>1, MailSent
      <4> QED BY <1>3, <4>2
    <3> QED BY <3>1, <3>2
  <2>4. Handling(id)' = Handling(id)
    BY DEF Handling, InHand
  <2> QED BY <2>1, <2>2, <2>3, <2>4 DEF Open, NotStored, Pending
<1>5. CountersExact' /\ CallbackTracked' /\ PullsCollected'
  BY <1>4, Frame DEF Inv
<1>6. LastKnown'
  BY DEF Inv, LastKnown, CounterOf
<1>7. \A i \in DOMAIN mailbox' :
        ~mailbox'[i].stop => i \in DOMAIN mailbox /\ mailbox'[i] = mailbox[i]
  <2>1. CASE mailbox' = mailbox
    BY <2>1
  <2>2. CASE mailbox' = Append(mailbox, Stop)
    BY <1>3, <2>2, MailSent DEF Inv
  <2> QED BY <2>1, <2>2
<1>8. MessagesGenuine'
  <2>1. \A m : Genuine(m) => Genuine(m)'
    BY <1>1 DEF Genuine, CallOf
  <2>2. \A m : Addressed(m) => Addressed(m)'
    BY <2>1 DEF Addressed, CallOf
  <2>3. \A m : Replies(m) => Replies(m)'
    BY <2>1 DEF Replies, CallOf
  <2>4. \A m \in servers' : Addressed(m)'
    BY <2>2 DEF Inv, MessagesGenuine
  <2>5. \A i \in DOMAIN mailbox' : ~mailbox'[i].stop => Replies(mailbox[i])
    BY <1>7 DEF Inv, MessagesGenuine
  <2>6. \A i \in DOMAIN mailbox' : ~mailbox'[i].stop => Replies(mailbox[i])'
    BY <1>1, <1>7, <2>5 DEF Replies, Genuine, CallOf
  <2>7. (recv.pc \in {"store", "run", "count"} => Replies(recv.m))'
    BY <1>1 DEF Inv, MessagesGenuine, Replies, Genuine, CallOf
  <2> QED BY <2>4, <2>6, <2>7 DEF MessagesGenuine
<1>9. OnePlace'
  <2>1. \A i, j \in DOMAIN mailbox' :
          (~mailbox'[i].stop /\ ~mailbox'[j].stop /\ mailbox'[i].id = mailbox'[j].id
             /\ mailbox'[i].server = mailbox'[j].server) => i = j
    BY <1>7 DEF Inv, OnePlace
  <2>2. ASSUME NEW id \in IdsInUse'
        PROVE  /\ ToSend(id)' \cap (Held(id)' \cup Arriving(id)' \cup Handling(id)') = {}
               /\ Held(id)' \cap (Arriving(id)' \cup Handling(id)') = {}
               /\ Arriving(id)' \cap Handling(id)' = {}
    <3>1. id \in IdsInUse /\ id \in Ids
      BY <1>1 DEF IdsInUse
    <3> QED BY <1>4, <3>1 DEF Inv, OnePlace
  <2> QED BY <2>1, <2>2 DEF OnePlace
<1> QED BY <1>5, <1>6, <1>8, <1>9 DEF Inv

\* A new request: all its slices are still to be sent.
LEMMA StartStep ==
  ASSUME Inv, NEW kv \in Kvs, NEW c \in Calls, Start(kv, c)
  PROVE  Inv'
<1> DEFINE n == Len(tracker_[kv])
           new == [first |-> Cardinality(c.slices), second |-> 0]
<1>1. /\ tracker_[kv] \in Seq(Counter) /\ requests[kv] \in Seq(Calls)
      /\ n \in Nat /\ Len(requests[kv]) = n /\ n < MaxRequests
  BY DEF Inv, TypeOK, Start
<1>2. n + 1 \in 1 .. MaxRequests
  BY <1>1, KVWorkerAssumption
<1>3. c.slices \subseteq Servers /\ IsFiniteSet(c.slices) /\ new \in Counter
  <2>1. c.slices \subseteq Servers
    BY DEF Calls, Call
  <2>2. IsFiniteSet(Servers)
    BY KVWorkerAssumption, FS_Interval DEF Servers
  <2>3. IsFiniteSet(c.slices) /\ Cardinality(c.slices) \in Nat
    BY <2>1, <2>2, FS_Subset, FS_CardinalityType
  <2> QED BY <2>1, <2>3 DEF Counter
<1>4. /\ tracker_' = [tracker_ EXCEPT ![kv] = Append(@, new)]
      /\ requests' = [requests EXCEPT ![kv] = Append(@, c)]
      /\ app' = [pc |-> AfterNewRequest(c.op), kv |-> kv, ts |-> n + 1, next |-> 1]
      /\ app.pc = "idle"
      /\ UNCHANGED <<callbacks_, recv_kvs_, recv, servers, mailbox, vals, ran, returned>>
  BY DEF Start, NewRequest
<1>5. /\ tracker_' \in [Kvs -> Seq(Counter)] /\ requests' \in [Kvs -> Seq(Calls)]
      /\ Len(tracker_'[kv]) = n + 1 /\ Len(requests'[kv]) = n + 1
      /\ tracker_'[kv][n + 1] = new /\ requests'[kv][n + 1] = c
      /\ \A i \in 1 .. n : tracker_'[kv][i] = tracker_[kv][i] /\ requests'[kv][i] = requests[kv][i]
      /\ \A k \in Kvs : k # kv => tracker_'[k] = tracker_[k] /\ requests'[k] = requests[k]
  <2>1. tracker_ \in [Kvs -> Seq(Counter)] /\ requests \in [Kvs -> Seq(Calls)]
    BY DEF Inv, TypeOK
  <2>2. tracker_'[kv] = Append(tracker_[kv], new) /\ requests'[kv] = Append(requests[kv], c)
    BY <1>4, <2>1
  <2>3. tracker_'[kv] \in Seq(Counter) /\ requests'[kv] \in Seq(Calls)
    BY <1>1, <1>3, <2>2
  <2>4. tracker_' \in [Kvs -> Seq(Counter)] /\ requests' \in [Kvs -> Seq(Calls)]
    BY <1>4, <2>1, <2>2, <2>3
  <2>5. \A k \in Kvs : k # kv => tracker_'[k] = tracker_[k] /\ requests'[k] = requests[k]
    BY <1>4, <2>1
  <2> HIDE DEF new
  <2> QED BY <1>1, <2>2, <2>4, <2>5
<1> PICK id0 \in Ids : id0 = <<kv, n + 1>>
  BY <1>2 DEF Ids
<1>6. id0[1] = kv /\ id0[2] = n + 1
  OBVIOUS
<1> HIDE DEF n, new
<1>7. IdsInUse' = IdsInUse \cup {id0} /\ id0 \notin IdsInUse
  <2>1. ASSUME NEW id \in Ids PROVE id[1] \in Kvs /\ id = <<id[1], id[2]>> /\ id[2] \in Nat
    BY DEF Ids
  <2>2. DOMAIN tracker_[kv] = 1 .. n /\ DOMAIN tracker_'[kv] = 1 .. (n + 1)
    BY <1>1, <1>5 DEF n
  <2>3. ASSUME NEW id \in Ids
        PROVE  id[2] \in DOMAIN tracker_'[id[1]] <=> id[2] \in DOMAIN tracker_[id[1]] \/ id = id0
    <3>1. CASE id[1] # kv
      BY <1>5, <1>6, <2>1, <3>1
    <3>2. CASE id[1] = kv
      <4>1. id = id0 <=> id[2] = n + 1
        BY <1>6, <2>1, <3>2
      <4>2. n \in Nat
        BY <1>1
      <4> QED BY <2>1, <2>2, <3>2, <4>1, <4>2
    <3> QED BY <3>1, <3>2
  <2>4. n + 1 \notin 1 .. n
    BY <1>1
  <2> QED BY <1>6, <2>2, <2>3, <2>4 DEF IdsInUse
<1>8. ASSUME NEW id \in IdsInUse
      PROVE  CallOf(id)' = CallOf(id) /\ CounterOf(id)' = CounterOf(id) /\ id # id0 /\ id \in Ids
  <2>1. id \in Ids /\ id[1] \in Kvs /\ id[2] \in 1 .. Len(tracker_[id[1]])
    BY UsedIds DEF Inv
  <2> QED BY <1>5, <1>7, <2>1 DEF CallOf, CounterOf, n
<1>9. CallOf(id0)' = c /\ CounterOf(id0)' = new
  BY <1>5, <1>6 DEF CallOf, CounterOf
<1>10. app'.pc \in {"callback", "send"} /\ ThisId' = id0 /\ ThisCall' = c /\ app'.next = 1
       /\ (app'.pc = "callback" <=> c.op \notin {"Init", "Push"})
  BY <1>4, <1>5, <1>6 DEF ThisId, ThisCall, AfterNewRequest
<1>11. ASSUME NEW id \in Ids
       PROVE  /\ ToSend(id) = {} /\ ToSend(id)' = IF id = id0 THEN c.slices ELSE {}
              /\ Held(id)' = Held(id) /\ Arriving(id)' = Arriving(id) /\ Handling(id)' = Handling(id)
  <2>1. ToSend(id) = {}
    BY <1>4 DEF ToSend
  <2>2. \A s \in c.slices : s >= 1
    BY <1>3 DEF Servers
  <2>3. ToSend(id)' = IF id = id0 THEN c.slices ELSE {}
    BY <1>9, <1>10, <2>2 DEF ToSend
  <2> QED BY <1>4, <2>1, <2>3 DEF Held, Arriving, Handling, InHand
<1>12. Open(id0) = {} /\ Held(id0) = {} /\ Arriving(id0) = {} /\ Handling(id0) = {}
  BY <1>7, OpenSlices DEF Inv, Open
<1>13. Open(id0)' = c.slices /\ NotStored(id0)' = c.slices /\ Pending(id0)' = c.slices
  BY <1>11, <1>12 DEF Open, NotStored, Pending
<1>14. ASSUME NEW id \in Ids, id # id0
       PROVE  Open(id)' = Open(id) /\ NotStored(id)' = NotStored(id) /\ Pending(id)' = Pending(id)
  BY <1>4, <1>11, <1>14 DEF Open, NotStored, Pending
<1>15. ~Over(id0)'
  BY <1>9, <1>13 DEF Over
<1>16. ASSUME NEW id \in IdsInUse
       PROVE  (Over(id)' <=> Over(id)) /\ ~Registering(id) /\ ~Registering(id)'
  BY <1>4, <1>8, <1>10, <1>14 DEF Over, Registering
<1>17. TypeOK'
  <2>1. \A k \in Kvs : Len(tracker_'[k]) = Len(requests'[k]) /\ Len(requests'[k]) <= MaxRequests
    <3>1. ASSUME NEW k \in Kvs, k # kv
          PROVE  Len(tracker_'[k]) = Len(requests'[k]) /\ Len(requests'[k]) <= MaxRequests
      BY <1>5, <3>1 DEF Inv, TypeOK
    <3>2. n + 1 <= MaxRequests
      BY <1>2
    <3> QED BY <1>5, <3>1, <3>2
  <2>2. /\ app' \in [pc : {"callback", "send", "wait"}, kv : Kvs, ts : 1 .. MaxRequests, next : Servers]
        /\ ThisId' \in IdsInUse'
    <3>1. 1 \in Servers
      BY KVWorkerAssumption DEF Servers
    <3> QED BY <1>2, <1>4, <1>7, <1>10, <3>1 DEF AfterNewRequest, n
  <2>3. returned' \in SUBSET IdsInUse'
    BY <1>4, <1>7 DEF Inv, TypeOK
  <2>4. /\ callbacks_' \in SUBSET Ids /\ recv_kvs_' \in [Ids -> Seq(Collected)]
        /\ \/ recv' \in {At("poll"), At("stopped")}
           \/ recv' \in [pc : {"store", "run", "count"}, m : Answer, runCallback : BOOLEAN]
        /\ servers' \in SUBSET Request /\ mailbox' \in Seq(Answer \cup {Stop})
        /\ vals' \in [Ids -> [slices : Seq(Servers), min_clock : Int]] /\ ran' \in [Ids -> Nat]
    BY <1>4 DEF Inv, TypeOK
  <2> QED BY <1>5, <2>1, <2>2, <2>3, <2>4 DEF TypeOK
<1>18. MessagesGenuine'
  <2>1. \A m : Genuine(m) => Genuine(m)' /\ CallOf(m.id)' = CallOf(m.id)
    BY <1>7, <1>8 DEF Genuine
  <2>2. \A m : Addressed(m) => Addressed(m)'
    BY <2>1 DEF Addressed
  <2>3. \A m : Replies(m) => Replies(m)'
    BY <2>1 DEF Replies
  <2>4. \A m \in servers' : Addressed(m)'
    BY <1>4, <2>2 DEF Inv, MessagesGenuine
  <2>5. \A m : (\E i \in DOMAIN mailbox : m = mailbox[i] /\ ~mailbox[i].stop) => Replies(m)'
    BY <2>3 DEF Inv, MessagesGenuine
  <2>6. \A m : recv.pc \in {"store", "run", "count"} /\ m = recv.m => Replies(m)'
    BY <2>3 DEF Inv, MessagesGenuine
  <2>7. (\A i \in DOMAIN mailbox : ~mailbox[i].stop => Replies(mailbox[i]))'
    BY <1>4, <2>5 DEF Replies, Genuine, CallOf
  <2>8. (recv.pc \in {"store", "run", "count"} => Replies(recv.m))'
    BY <1>4, <2>6 DEF Replies, Genuine, CallOf
  <2> QED BY <2>4, <2>7, <2>8 DEF MessagesGenuine
<1>19. OnePlace'
  <2>1. ASSUME NEW id \in IdsInUse'
        PROVE  /\ ToSend(id)' \cap (Held(id)' \cup Arriving(id)' \cup Handling(id)') = {}
               /\ Held(id)' \cap (Arriving(id)' \cup Handling(id)') = {}
               /\ Arriving(id)' \cap Handling(id)' = {}
    <3>1. CASE id = id0
      BY <1>11, <1>12, <3>1
    <3>2. CASE id \in IdsInUse
      BY <1>8, <1>11, <3>2 DEF Inv, OnePlace
    <3> QED BY <1>7, <3>1, <3>2
  <2> QED BY <1>4, <2>1 DEF Inv, OnePlace
<1>20. CountersExact'
  <2>1. ASSUME NEW id \in IdsInUse'
        PROVE  /\ CounterOf(id)'.first = Cardinality(CallOf(id)'.slices)
               /\ CounterOf(id)'.second = Cardinality(CallOf(id)'.slices \ Open(id)')
    <3>1. CASE id = id0
      <4>1. c.slices \ c.slices = {} /\ Cardinality({}) = 0
        BY FS_EmptySet
      <4> QED BY <1>9, <1>13, <3>1, <4>1 DEF new
    <3>2. CASE id \in IdsInUse
      BY <1>8, <1>14, <3>2 DEF Inv, CountersExact
    <3> QED BY <1>7, <3>1, <3>2
  <2> QED BY <2>1 DEF CountersExact
<1>21. LastKnown'
  <2>1. recv.pc \in {"store", "run", "count"} => recv.m.id \in IdsInUse
    BY DEF Inv, MessagesGenuine, Replies, Genuine
  <2>2. \A id : id \in IdsInUse => CounterOf(id)' = CounterOf(id)
    BY <1>8
  <2>3. recv.pc \in {"store", "run"} => CounterOf(recv.m.id)' = CounterOf(recv.m.id)
    BY <1>4, <2>1, <2>2 DEF CounterOf
  <2> QED BY <1>4, <2>3 DEF Inv, LastKnown
<1>22. CallbackTracked'
  <2>1. ASSUME NEW id \in Ids
        PROVE  IF id \in IdsInUse' /\ Registers(CallOf(id)')
                 THEN /\ id \in callbacks_' <=> ~Over(id)' /\ ~Registering(id)'
                      /\ ran'[id] = IF CallOf(id)'.cb /\ Over(id)' THEN 1 ELSE 0
                 ELSE id \notin callbacks_' /\ ran'[id] = 0
    <3>1. CASE id = id0
      <4>1. id0 \notin callbacks_' /\ ran'[id0] = 0
        BY <1>4, <1>7 DEF Inv, CallbackTracked
      <4>2. Registers(c) => Registering(id0)'
        BY <1>10 DEF Registers, Registering
      <4> QED BY <1>9, <1>15, <3>1, <4>1, <4>2
    <3>2. CASE id \in IdsInUse
      BY <1>4, <1>7, <1>8, <1>16, <3>2 DEF Inv, CallbackTracked
    <3>3. CASE id # id0 /\ id \notin IdsInUse
      BY <1>4, <1>7, <3>3 DEF Inv, CallbackTracked
    <3> QED BY <3>1, <3>2, <3>3
  <2> QED BY <1>10, <2>1 DEF CallbackTracked
<1>23. PullsCollected'
  <2>1. ASSUME NEW id \in Ids
        PROVE  IF id \in IdsInUse' /\ ~IsPush(CallOf(id)'.op)
                 THEN IF Over(id)' THEN Ordered(vals'[id].slices, CallOf(id)'.slices)
                      ELSE /\ Lists(recv_kvs_'[id], CallOf(id)'.slices \ NotStored(id)')
                           /\ vals'[id] = NoVals
                 ELSE recv_kvs_'[id] = <<>> /\ vals'[id] = NoVals
    <3>1. CASE id = id0
      <4>1. recv_kvs_'[id0] = <<>> /\ vals'[id0] = NoVals
        BY <1>4, <1>7 DEF Inv, PullsCollected
      <4>2. Lists(<<>>, c.slices \ c.slices)
        BY DEF Lists
      <4> QED BY <1>9, <1>13, <1>15, <3>1, <4>1, <4>2
    <3>2. CASE id \in IdsInUse
      BY <1>4, <1>7, <1>8, <1>14, <1>16, <3>2 DEF Inv, PullsCollected
    <3>3. CASE id # id0 /\ id \notin IdsInUse
      BY <1>4, <1>7, <3>3 DEF Inv, PullsCollected
    <3> QED BY <3>1, <3>2, <3>3
  <2> QED BY <2>1 DEF PullsCollected
<1>24. ReturnedFinished'
  <2>1. ASSUME NEW id \in returned PROVE CounterOf(id)'.first = CounterOf(id)'.second
    <3>1. id \in IdsInUse
      BY DEF Inv, TypeOK
    <3> QED BY <1>8, <3>1 DEF Inv, ReturnedFinished, Finished, CounterOf
  <2> QED BY <1>4, <2>1 DEF ReturnedFinished, Finished, CounterOf
<1> QED BY <1>17, <1>18, <1>19, <1>20, <1>21, <1>22, <1>23, <1>24 DEF Inv

\* The callback of a call that registers one is registered before anything
\* is sent, so it cannot be missed.
LEMMA AddCallbackStep ==
  ASSUME Inv, AddCallback
  PROVE  Inv'
<1>1. app \in [pc : {"callback", "send", "wait"}, kv : Kvs, ts : 1 .. MaxRequests, next : Servers]
      /\ ThisId \in IdsInUse /\ app.pc = "callback" /\ app.next = 1
      /\ ThisCall.op \notin {"Init", "Push"}
  BY DEF AddCallback, Inv, TypeOK, At, CallbackTracked
<1>2. /\ app' = [app EXCEPT !.pc = "send"]
      /\ UNCHANGED <<tracker_, recv_kvs_, recv, servers, mailbox, requests, vals, ran, returned>>
  BY DEF AddCallback
<1>3. app'.pc = "send" /\ app'.kv = app.kv /\ app'.ts = app.ts /\ app'.next = app.next
  BY <1>1, <1>2
<1>4. IdsInUse' = IdsInUse
  BY <1>2 DEF IdsInUse
<1>5. ASSUME NEW id \in Ids
      PROVE  /\ CallOf(id)' = CallOf(id) /\ CounterOf(id)' = CounterOf(id)
             /\ ToSend(id)' = ToSend(id) /\ Held(id)' = Held(id)
             /\ Arriving(id)' = Arriving(id) /\ Handling(id)' = Handling(id)
             /\ Open(id)' = Open(id) /\ NotStored(id)' = NotStored(id) /\ Pending(id)' = Pending(id)
             /\ Over(id)' <=> Over(id)
  <2>1. CallOf(id)' = CallOf(id) /\ CounterOf(id)' = CounterOf(id)
    BY <1>2 DEF CallOf, CounterOf
  <2>2. ToSend(id)' = ToSend(id)
    BY <1>1, <1>3, <2>1 DEF ToSend, ThisId
  <2>3. Held(id)' = Held(id) /\ Arriving(id)' = Arriving(id) /\ Handling(id)' = Handling(id)
    BY <1>2 DEF Held, Arriving, Handling, InHand
  <2>4. Open(id)' = Open(id) /\ NotStored(id)' = NotStored(id) /\ Pending(id)' = Pending(id)
    BY <1>2, <2>2, <2>3 DEF Open, NotStored, Pending
  <2> QED BY <2>1, <2>2, <2>3, <2>4 DEF Over
<1> PICK id0 \in Ids : id0 = ThisId
  BY <1>1 DEF IdsInUse
<1>6. CallOf(id0) = ThisCall /\ id0 \in IdsInUse
  BY <1>1 DEF CallOf, ThisCall, ThisId
<1>7. ~Over(id0)
  <2>1. \A s \in CallOf(id0).slices : s >= 1
    BY <1>6, UsedIds DEF Inv, Servers
  <2>2. ToSend(id0) = CallOf(id0).slices
    BY <1>1, <2>1 DEF ToSend
  <2> QED BY <2>2 DEF Over, Pending
<1>8. callbacks_' = IF Registers(CallOf(id0)) THEN callbacks_ \cup {id0} ELSE callbacks_
  BY <1>1, <1>6 DEF AddCallback, Registers
<1>9. TypeOK'
  <2>1. /\ app' \in [pc : {"callback", "send", "wait"}, kv : Kvs, ts : 1 .. MaxRequests, next : Servers]
        /\ ThisId' \in IdsInUse'
    BY <1>1, <1>2, <1>3, <1>4 DEF ThisId
  <2>2. callbacks_' \in SUBSET Ids /\ returned' \in SUBSET IdsInUse'
    BY <1>2, <1>4, <1>8 DEF Inv, TypeOK
  <2> QED BY <1>2, <2>1, <2>2 DEF Inv, TypeOK
<1>10. MessagesGenuine'
  BY <1>2, <1>4 DEF Inv, MessagesGenuine, Addressed, Replies, Genuine, CallOf
<1>11. OnePlace'
  <2>1. ASSUME NEW id \in IdsInUse'
        PROVE  /\ ToSend(id)' \cap (Held(id)' \cup Arriving(id)' \cup Handling(id)') = {}
               /\ Held(id)' \cap (Arriving(id)' \cup Handling(id)') = {}
               /\ Arriving(id)' \cap Handling(id)' = {}
    <3>1. id \in IdsInUse /\ id \in Ids
      BY <1>4 DEF IdsInUse
    <3> QED BY <1>5, <3>1 DEF Inv, OnePlace
  <2> QED BY <1>2, <2>1 DEF Inv, OnePlace
<1>12. CountersExact' /\ ReturnedFinished' /\ LastKnown'
  <2>1. \A id \in IdsInUse : id \in Ids
    BY DEF IdsInUse
  <2>2. CountersExact'
    BY <1>4, <1>5, <2>1 DEF Inv, CountersExact
  <2> QED BY <1>2, <2>2 DEF Inv, ReturnedFinished, Finished, LastKnown, CounterOf
<1>13. CallbackTracked'
  <2>1. ASSUME NEW id \in Ids
        PROVE  IF id \in IdsInUse' /\ Registers(CallOf(id)')
                 THEN /\ id \in callbacks_' <=> ~Over(id)' /\ ~Registering(id)'
                      /\ ran'[id] = IF CallOf(id)'.cb /\ Over(id)' THEN 1 ELSE 0
                 ELSE id \notin callbacks_' /\ ran'[id] = 0
    <3>1. ~Registering(id)' /\ (Registering(id) <=> id = id0)
      BY <1>1, <1>3 DEF Registering
    <3>2. /\ IF id \in IdsInUse /\ Registers(CallOf(id))
               THEN /\ id \in callbacks_ <=> ~Over(id) /\ ~Registering(id)
                    /\ ran[id] = IF CallOf(id).cb /\ Over(id) THEN 1 ELSE 0
               ELSE id \notin callbacks_ /\ ran[id] = 0
      BY DEF Inv, CallbackTracked
    <3>3. CASE id = id0
      BY <1>2, <1>4, <1>5, <1>6, <1>7, <1>8, <3>1, <3>2, <3>3
    <3>4. CASE id # id0
      BY <1>2, <1>4, <1>5, <1>8, <3>1, <3>2, <3>4
    <3> QED BY <3>3, <3>4
  <2> QED BY <1>3, <2>1 DEF CallbackTracked
<1>14. PullsCollected'
  <2>1. ASSUME NEW id \in Ids
        PROVE  IF id \in IdsInUse' /\ ~IsPush(CallOf(id)'.op)
                 THEN IF Over(id)' THEN Ordered(vals'[id].slices, CallOf(id)'.slices)
                      ELSE /\ Lists(recv_kvs_'[id], CallOf(id)'.slices \ NotStored(id)')
                           /\ vals'[id] = NoVals
                 ELSE recv_kvs_'[id] = <<>> /\ vals'[id] = NoVals
    BY <1>2, <1>4, <1>5 DEF Inv, PullsCollected
  <2> QED BY <2>1 DEF PullsCollected
<1> QED BY <1>9, <1>10, <1>11, <1>12, <1>13, <1>14 DEF Inv

\* A slice moves from the application thread to its server.
LEMMA SendNextStep ==
  ASSUME Inv, SendNext
  PROVE  Inv'
<1>1. app \in [pc : {"callback", "send", "wait"}, kv : Kvs, ts : 1 .. MaxRequests, next : Servers]
      /\ ThisId \in IdsInUse /\ app.pc = "send"
  BY DEF SendNext, Inv, TypeOK, At
<1>2. UNCHANGED <<tracker_, callbacks_, recv_kvs_, recv, mailbox, requests, vals, ran, returned>>
  BY DEF SendNext, shared
<1>3. IdsInUse' = IdsInUse
  BY <1>2 DEF IdsInUse
<1> PICK id0 \in Ids : id0 = ThisId
  BY <1>1 DEF IdsInUse
<1> PICK k \in Servers : k = app.next
  BY <1>1
<1> DEFINE c == CallOf(id0)
           x == [id |-> id0, server |-> k, cmd |-> Cmd(c, k), push |-> IsPush(c.op),
                 data |-> k \in c.slices]
<1>4. c = ThisCall /\ id0 \in IdsInUse /\ c \in Calls /\ c.slices \subseteq Servers
  BY <1>1, UsedIds DEF CallOf, ThisCall, ThisId, Inv
<1>5. servers' = IF k \in c.slices \/ c.send_all THEN servers \cup {x} ELSE servers
  BY <1>4 DEF SendNext
<1>6. app' = IF k = NumServers THEN At("idle") ELSE [app EXCEPT !.next = k + 1]
  BY DEF SendNext
<1>7. /\ k = NumServers => app'.pc = "idle"
      /\ k # NumServers => app'.pc = "send" /\ ThisId' = id0 /\ app'.next = k + 1 /\ k + 1 \in Servers
  BY <1>1, <1>6, KVWorkerAssumption DEF At, ThisId, Servers
<1>8. ASSUME NEW id \in Ids
      PROVE  CallOf(id)' = CallOf(id) /\ CounterOf(id)' = CounterOf(id)
  BY <1>2 DEF CallOf, CounterOf
<1>9. x \in Request
  <2>1. Cmd(c, k) \in Nat
    BY <1>4, Commands
  <2>2. IsPush(c.op) \in BOOLEAN /\ (k \in c.slices) \in BOOLEAN
    BY DEF IsPush
  <2> HIDE DEF c
  <2> QED BY <2>1, <2>2 DEF Request
<1>10. x.id = id0 /\ x.server = k /\ x.cmd = Cmd(c, k) /\ x.push = IsPush(c.op)
       /\ x.data = (k \in c.slices)
  OBVIOUS
<1> HIDE DEF x
<1>11. ASSUME NEW id \in Ids
       PROVE  /\ ToSend(id)' = ToSend(id) \ (IF id = id0 THEN {k} ELSE {})
              /\ Held(id)' = Held(id) \cup (IF id = id0 /\ k \in c.slices THEN {k} ELSE {})
              /\ Arriving(id)' = Arriving(id) /\ Handling(id)' = Handling(id)
              /\ id = id0 => (k \in ToSend(id) <=> k \in c.slices)
  <2>1. k \in Int /\ NumServers \in Int /\ \A s \in c.slices : s \in Int /\ s <= NumServers
    BY <1>4, KVWorkerAssumption DEF Servers
  <2>2. \A s \in c.slices : s >= k + 1 <=> s >= k /\ s # k
    BY <2>1
  <2>3. k = NumServers => \A s \in c.slices : s >= k => s = k
    BY <2>1
  <2>4. ToSend(id) = IF id = id0 THEN {s \in c.slices : s >= k} ELSE {}
    BY <1>1 DEF ToSend
  <2>5. ToSend(id)' = IF k # NumServers /\ id = id0 THEN {s \in c.slices : s >= k + 1} ELSE {}
    <3>1. c' = c
      BY <1>8
    <3>2. CASE k = NumServers
      BY <1>7, <3>2 DEF ToSend
    <3>3. CASE k # NumServers
      BY <1>7, <1>8, <3>3 DEF ToSend
    <3> QED BY <3>2, <3>3
  <2>6. ToSend(id)' = ToSend(id) \ (IF id = id0 THEN {k} ELSE {})
    <3> HIDE DEF c
    <3>1. CASE k = NumServers
      BY <2>3, <2>4, <2>5, <3>1
    <3>2. CASE k # NumServers
      BY <2>2, <2>4, <2>5, <3>2
    <3> QED BY <3>1, <3>2
  <2>7. Held(id)' = Held(id) \cup (IF id = id0 /\ k \in c.slices THEN {k} ELSE {})
    <3> HIDE DEF c
    <3> QED BY <1>5, <1>10 DEF Held
  <2>8. Arriving(id)' = Arriving(id) /\ Handling(id)' = Handling(id)
    BY <1>2 DEF Arriving, Handling, InHand
  <2>9. id = id0 => (k \in ToSend(id) <=> k \in c.slices)
    BY <2>1, <2>4
  <2> QED BY <2>6, <2>7, <2>8, <2>9
<1>12. ASSUME NEW id \in Ids
       PROVE  Open(id)' = Open(id) /\ NotStored(id)' = NotStored(id) /\ Pending(id)' = Pending(id)
  <2>1. ToSend(id)' \cup Held(id)' = ToSend(id) \cup Held(id)
    BY <1>11
  <2> QED BY <1>2, <1>11, <2>1 DEF Open, NotStored, Pending
<1>13. CountersExact' /\ CallbackTracked' /\ PullsCollected'
  <2>1. app.pc # "callback" /\ app'.pc # "callback"
    BY <1>1, <1>7
  <2>2. CountersExact /\ CallbackTracked /\ PullsCollected
    BY DEF Inv
  <2> QED BY <1>2, <1>12, <2>1, <2>2, Frame
<1>14. LastKnown' /\ ReturnedFinished'
  BY <1>2 DEF Inv, LastKnown, CounterOf, ReturnedFinished, Finished
<1>15. TypeOK'
  <2>1. servers' \in SUBSET Request
    BY <1>5, <1>9 DEF Inv, TypeOK
  <2>2. \/ app' \in {At("idle"), At("join"), At("stopped")}
        \/ /\ app' \in [pc : {"callback", "send", "wait"}, kv : Kvs, ts : 1 .. MaxRequests, next : Servers]
           /\ ThisId' \in IdsInUse'
    <3>1. CASE k = NumServers
      BY <1>6, <3>1
    <3>2. CASE k # NumServers
      BY <1>1, <1>3, <1>4, <1>6, <1>7, <3>2
    <3> QED BY <3>1, <3>2
  <2>3. returned' \in SUBSET IdsInUse'
    BY <1>2, <1>3 DEF Inv, TypeOK
  <2> QED BY <1>2, <2>1, <2>2, <2>3 DEF Inv, TypeOK
<1>16. MessagesGenuine'
  <2>1. \A m : Addressed(m) => Addressed(m)'
    BY <1>2, <1>3 DEF Addressed, Genuine, CallOf
  <2>2. Addressed(x)
    BY <1>4, <1>10 DEF Addressed, Genuine
  <2>3. \A m \in servers' : Addressed(m)
    BY <1>5, <2>2 DEF Inv, MessagesGenuine
  <2>4. \A m \in servers' : Addressed(m)'
    BY <2>1, <2>3
  <2>5. (/\ \A i \in DOMAIN mailbox : ~mailbox[i].stop => Replies(mailbox[i])
         /\ recv.pc \in {"store", "run", "count"} => Replies(recv.m))'
    BY <1>2, <1>3 DEF Inv, MessagesGenuine, Replies, Genuine, CallOf
  <2> QED BY <2>4, <2>5 DEF MessagesGenuine
<1>17. OnePlace'
  <2>1. ASSUME NEW id \in IdsInUse'
        PROVE  /\ ToSend(id)' \cap (Held(id)' \cup Arriving(id)' \cup Handling(id)') = {}
               /\ Held(id)' \cap (Arriving(id)' \cup Handling(id)') = {}
               /\ Arriving(id)' \cap Handling(id)' = {}
    <3>1. id \in IdsInUse /\ id \in Ids
      BY <1>3 DEF IdsInUse
    <3>2. /\ ToSend(id) \cap (Held(id) \cup Arriving(id) \cup Handling(id)) = {}
          /\ Held(id) \cap (Arriving(id) \cup Handling(id)) = {}
          /\ Arriving(id) \cap Handling(id) = {}
      BY <3>1 DEF Inv, OnePlace
    <3> QED BY <1>11, <3>1, <3>2
  <2> QED BY <1>2, <2>1 DEF Inv, OnePlace
<1> QED BY <1>13, <1>14, <1>15, <1>16, <1>17 DEF Inv

\* Waiting and the end of the worker.
LEMMA WaitStep ==
  ASSUME Inv, (\E id \in Ids : Wait(id[1], id[2])) \/ WaitReturns \/ Destroy \/ Joined
  PROVE  Inv'
<1>1. /\ UNCHANGED <<shared, recv, servers, requests, vals, ran>>
      /\ app.pc \notin {"callback", "send"} /\ app'.pc \notin {"callback", "send"}
      /\ mailbox' = mailbox \/ mailbox' = Append(mailbox, Stop)
  <2>1. CASE \E id \in Ids : Wait(id[1], id[2])
    BY <2>1 DEF Wait
  <2>2. CASE WaitReturns
    BY <2>2 DEF WaitReturns, At
  <2>3. CASE Destroy
    BY <2>3 DEF Destroy, At
  <2>4. CASE Joined
    BY <2>4 DEF Joined, At
  <2> QED BY <2>1, <2>2, <2>3, <2>4
<1>2. IdsInUse' = IdsInUse
  BY <1>1 DEF IdsInUse, shared
<1>3. /\ returned' \in SUBSET IdsInUse'
      /\ ReturnedFinished'
  <2>1. CASE returned' = returned
    BY <1>1, <1>2, <2>1 DEF Inv, TypeOK, ReturnedFinished, Finished, shared
  <2>2. CASE WaitReturns
    <3>1. ThisId \in IdsInUse /\ returned' = returned \cup {ThisId}
      BY <2>2 DEF WaitReturns, Inv, TypeOK, At, ThisId
    <3>2. Finished(ThisId[1], ThisId[2])
      BY <2>2 DEF WaitReturns, ThisId
    <3>3. \A id \in returned' : Finished(id[1], id[2])
      BY <3>1, <3>2 DEF Inv, ReturnedFinished
    <3>4. ReturnedFinished'
      BY <1>1, <3>3 DEF ReturnedFinished, Finished, shared
    <3> QED BY <1>2, <3>1, <3>4 DEF Inv, TypeOK
  <2> QED BY <2>1, <2>2 DEF Wait, Destroy, Joined
<1>4. \/ app' \in {At("idle"), At("join"), At("stopped")}
      \/ /\ app' \in [pc : {"callback", "send", "wait"}, kv : Kvs, ts : 1 .. MaxRequests, next : Servers]
         /\ ThisId' \in IdsInUse'
  <2>1. CASE \E id \in Ids : Wait(id[1], id[2])
    <3>1. PICK id \in Ids : Wait(id[1], id[2])
      BY <2>1
    <3>2. id[1] \in Kvs /\ id[2] \in 1 .. MaxRequests /\ id = <<id[1], id[2]>>
      BY DEF Ids
    <3>3. id \in IdsInUse /\ app' = [pc |-> "wait", kv |-> id[1], ts |-> id[2], next |-> 1]
      BY <3>1 DEF Wait, IdsInUse
    <3>4. 1 \in Servers
      BY KVWorkerAssumption DEF Servers
    <3> QED BY <1>2, <3>2, <3>3, <3>4 DEF ThisId
  <2>2. CASE WaitReturns \/ Destroy \/ Joined
    BY <2>2 DEF WaitReturns, Destroy, Joined
  <2> QED BY <2>1, <2>2
<1>5. mailbox' \in Seq(Answer \cup {Stop})
  <2>1. mailbox \in Seq(Answer \cup {Stop})
    BY DEF Inv, TypeOK
  <2> QED BY <1>1, <2>1
<1>6. TypeOK'
  BY <1>1, <1>3, <1>4, <1>5 DEF Inv, TypeOK, shared
<1> QED BY <1>1, <1>3, <1>6, QuietStep

------------------------------------------------------------------------------
(* The servers and the receiving thread.                                   *)

\* A slice moves from its server to the mailbox.
LEMMA ServerAnswersStep ==
  ASSUME Inv, NEW m \in servers, ServerAnswers(m)
  PROVE  Inv'
<1>1. /\ UNCHANGED <<tracker_, callbacks_, recv_kvs_, app, recv, requests, vals, ran, returned>>
      /\ servers' = servers \ {m}
  BY DEF ServerAnswers, shared
<1>2. TypeOK /\ MessagesGenuine /\ OnePlace
  BY DEF Inv
<1>3. IdsInUse' = IdsInUse
  BY <1>1 DEF IdsInUse
<1>4. m \in Request /\ Addressed(m) /\ m.id \in IdsInUse /\ m.id \in Ids /\ CallOf(m.id) \in Calls
  BY <1>2, UsedIds DEF TypeOK, MessagesGenuine, Addressed, Genuine
<1>5. m.server \in Servers /\ m.data \in BOOLEAN /\ m.push \in BOOLEAN
  BY <1>4 DEF Request
<1>6. ASSUME NEW id
      PROVE  Held(id)' = Held(id) \ (IF id = m.id /\ m.data THEN {m.server} ELSE {})
  <2>1. \A n \in servers : n.id = m.id /\ n.server = m.server => n = m
    BY <1>2, OneMessage
  <2> QED BY <1>1, <1>4, <1>5, <2>1 DEF Held
<1>7. m.data => m.server \in Held(m.id)
  BY <1>5 DEF Held
<1>8. /\ mailbox' \in Seq(Answer \cup {Stop})
      /\ \A i \in DOMAIN mailbox' : ~mailbox'[i].stop => Replies(mailbox'[i])
      /\ \A i, j \in DOMAIN mailbox' :
           (~mailbox'[i].stop /\ ~mailbox'[j].stop /\ mailbox'[i].id = mailbox'[j].id
              /\ mailbox'[i].server = mailbox'[j].server) => i = j
      /\ \A id : Arriving(id)' = Arriving(id) \cup
                   (IF id = m.id /\ m.data THEN {m.server} ELSE {})
  <2>1. CASE ~m.data
    <3>1. mailbox' = mailbox
      BY <2>1 DEF ServerAnswers, Answers
    <3>2. \A id : Arriving(id)' = Arriving(id)
      BY <3>1 DEF Arriving
    <3> QED BY <1>2, <2>1, <3>1, <3>2 DEF TypeOK, MessagesGenuine, OnePlace
  <2>2. CASE m.data
    <3>1. PICK clock \in MinClocks :
            mailbox' = Append(mailbox,
                [stop |-> FALSE, id |-> m.id, server |-> m.server,
                 cmd |-> ServerCmd(m.cmd), push |-> m.push,
                 form |-> Encoded(ServerCmd(m.cmd)), min_clock |-> clock])
      BY <2>2 DEF ServerAnswers, Answers
    <3> DEFINE x == [stop |-> FALSE, id |-> m.id, server |-> m.server,
                     cmd |-> ServerCmd(m.cmd), push |-> m.push,
                     form |-> Encoded(ServerCmd(m.cmd)), min_clock |-> clock]
    <3>2. ServerCmd(m.cmd) \in Nat
      BY <1>4, Commands DEF Addressed
    <3>3. Encoded(ServerCmd(m.cmd)) \in Forms
      <4>1. PICK v \in Nat : v = ServerCmd(m.cmd)
        BY <3>2
      <4>2. v = 2 \/ (v # 2 /\ v > 10) \/ (v # 2 /\ ~(v > 10))
        OBVIOUS
      <4>3. Encoded(v) \in Forms
        BY <4>2 DEF Encoded, Forms, with_min_clock_magic_
      <4> QED BY <4>1, <4>3, Zenon
    <3>4. x \in Answer
      BY <1>4, <1>5, <3>2, <3>3 DEF Answer
    <3>5. /\ ~x.stop /\ x.id = m.id /\ x.server = m.server /\ x.push = m.push
          /\ x.cmd = ServerCmd(m.cmd) /\ x.form = Encoded(ServerCmd(m.cmd))
      OBVIOUS
    <3>6. mailbox' = Append(mailbox, x)
      BY <3>1
    <3> HIDE DEF x
    <3>7. Replies(x)
      BY <1>4, <2>2, <3>5 DEF Replies, Addressed, Genuine
    <3>8. /\ mailbox' \in Seq(Answer \cup {Stop})
          /\ \A id : Arriving(id)' = Arriving(id) \cup
                       (IF ~x.stop /\ x.id = id THEN {x.server} ELSE {})
      BY <1>2, <3>4, <3>6, MailSent
    <3>9. PICK last : /\ last \notin DOMAIN mailbox
                      /\ DOMAIN mailbox' = DOMAIN mailbox \cup {last}
                      /\ mailbox'[last] = x
                      /\ \A i \in DOMAIN mailbox : mailbox'[i] = mailbox[i]
      BY <1>2, <3>4, <3>6, MailSent
    <3>10. \A i \in DOMAIN mailbox :
             ~mailbox[i].stop /\ mailbox[i].id = m.id => mailbox[i].server # m.server
      <4>1. m.server \notin Arriving(m.id)
        BY <1>2, <1>4, <1>7, <2>2 DEF OnePlace
      <4> QED BY <1>5, <4>1 DEF Arriving
    <3>11. \A i \in DOMAIN mailbox' : ~mailbox'[i].stop => Replies(mailbox'[i])
      BY <1>2, <3>7, <3>9 DEF MessagesGenuine
    <3>12. ASSUME NEW i \in DOMAIN mailbox', NEW j \in DOMAIN mailbox',
                  ~mailbox'[i].stop /\ ~mailbox'[j].stop,
                  mailbox'[i].id = mailbox'[j].id /\ mailbox'[i].server = mailbox'[j].server
           PROVE  i = j
      BY <1>2, <3>5, <3>9, <3>10, <3>12 DEF OnePlace
    <3> QED BY <2>2, <3>5, <3>8, <3>11, <3>12
  <2> QED BY <1>5, <2>1, <2>2
<1>9. ASSUME NEW id \in Ids
      PROVE  CallOf(id)' = CallOf(id) /\ ToSend(id)' = ToSend(id) /\ Handling(id)' = Handling(id)
  BY <1>1 DEF CallOf, ToSend, ThisId, Handling, InHand
<1>10. ASSUME NEW id \in Ids
       PROVE  Open(id)' = Open(id) /\ NotStored(id)' = NotStored(id) /\ Pending(id)' = Pending(id)
  <2>1. Held(id)' \cup Arriving(id)' = Held(id) \cup Arriving(id)
    BY <1>6, <1>7, <1>8
  <2> QED BY <1>1, <1>9, <2>1 DEF Open, NotStored, Pending
<1>11. CountersExact' /\ CallbackTracked' /\ PullsCollected'
  BY <1>1, <1>10, Frame DEF Inv
<1>12. LastKnown' /\ ReturnedFinished'
  BY <1>1 DEF Inv, LastKnown, CounterOf, ReturnedFinished, Finished
<1>13. TypeOK'
  <2>1. returned' \in SUBSET IdsInUse' /\ servers' \in SUBSET Request
    BY <1>1, <1>2, <1>3 DEF TypeOK
  <2>2. \/ app' \in {At("idle"), At("join"), At("stopped")}
        \/ /\ app' \in [pc : {"callback", "send", "wait"}, kv : Kvs, ts : 1 .. MaxRequests, next : Servers]
           /\ ThisId' \in IdsInUse'
    BY <1>1, <1>2, <1>3 DEF TypeOK, ThisId
  <2> QED BY <1>1, <1>2, <1>8, <2>1, <2>2 DEF TypeOK
<1>14. MessagesGenuine'
  <2>1. \A n \in servers' : Addressed(n)'
    BY <1>1, <1>2, <1>3 DEF MessagesGenuine, Addressed, Genuine, CallOf
  <2>2. (\A i \in DOMAIN mailbox : ~mailbox[i].stop => Replies(mailbox[i]))'
    BY <1>1, <1>3, <1>8 DEF Replies, Genuine, CallOf
  <2>3. (recv.pc \in {"store", "run", "count"} => Replies(recv.m))'
    BY <1>1, <1>2, <1>3 DEF MessagesGenuine, Replies, Genuine, CallOf
  <2> QED BY <2>1, <2>2, <2>3 DEF MessagesGenuine
<1>15. OnePlace'
  <2>1. ASSUME NEW id \in IdsInUse'
        PROVE  /\ ToSend(id)' \cap (Held(id)' \cup Arriving(id)' \cup Handling(id)') = {}
               /\ Held(id)' \cap (Arriving(id)' \cup Handling(id)') = {}
               /\ Arriving(id)' \cap Handling(id)' = {}
    <3>1. id \in IdsInUse /\ id \in Ids
      BY <1>3 DEF IdsInUse
    <3>2. /\ ToSend(id) \cap (Held(id) \cup Arriving(id) \cup Handling(id)) = {}
          /\ Held(id) \cap (Arriving(id) \cup Handling(id)) = {}
          /\ Arriving(id) \cap Handling(id) = {}
      BY <1>2, <3>1 DEF OnePlace
    <3> QED BY <1>6, <1>7, <1>8, <1>9, <3>1, <3>2
  <2> QED BY <1>8, <2>1 DEF OnePlace
<1> QED BY <1>11, <1>12, <1>13, <1>14, <1>15 DEF Inv

\* A slice moves from the mailbox to the receiving thread.
LEMMA ReceiveStep ==
  ASSUME Inv, Receive
  PROVE  Inv'
<1>1. /\ recv.pc = "poll" /\ mailbox # <<>> /\ mailbox' = Tail(mailbox)
      /\ UNCHANGED <<tracker_, callbacks_, recv_kvs_, app, servers, requests, vals, ran, returned>>
  BY DEF Receive, shared
<1>2. TypeOK /\ MessagesGenuine /\ OnePlace
  BY DEF Inv
<1>3. IdsInUse' = IdsInUse
  BY <1>1 DEF IdsInUse
<1> PICK h \in Answer \cup {Stop} : h = Head(mailbox)
  BY <1>1, <1>2, MailTaken
<1>4. /\ mailbox' \in Seq(Answer \cup {Stop})
      /\ 1 \in DOMAIN mailbox /\ h = mailbox[1]
      /\ \A i \in DOMAIN mailbox' : i + 1 \in DOMAIN mailbox /\ mailbox'[i] = mailbox[i + 1]
      /\ \A i, j \in DOMAIN mailbox' : i + 1 = j + 1 => i = j
      /\ \A id : IF ~h.stop /\ h.id = id
                   THEN h.server \in Arriving(id) /\ Arriving(id)' = Arriving(id) \ {h.server}
                   ELSE Arriving(id)' = Arriving(id)
  BY <1>1, <1>2, MailTaken
<1>5. ~h.stop => h \in Answer /\ Replies(h)
  <2>1. h = Stop => h.stop
    BY DEF Stop
  <2> QED BY <1>2, <1>4, <2>1 DEF MessagesGenuine
<1>6. /\ h.stop => recv' = At("stopped")
      /\ ~h.stop => recv' = [pc |-> "store", m |-> h,
                             runCallback |-> IsLast(tracker_[h.id[1]][h.id[2]])]
  BY DEF Receive
<1>7. /\ h.stop => recv'.pc = "stopped"
      /\ ~h.stop => recv'.pc = "store" /\ recv'.m = h
                    /\ recv'.runCallback = IsLast(tracker_[h.id[1]][h.id[2]])
  BY <1>6 DEF At
<1>8. ASSUME NEW id \in Ids
      PROVE  /\ CallOf(id)' = CallOf(id) /\ ToSend(id)' = ToSend(id) /\ Held(id)' = Held(id)
             /\ Handling(id) = {} /\ Handling(id)' = IF ~h.stop /\ h.id = id THEN {h.server} ELSE {}
  <2>1. CallOf(id)' = CallOf(id) /\ ToSend(id)' = ToSend(id) /\ Held(id)' = Held(id) /\ Handling(id) = {}
    BY <1>1 DEF CallOf, ToSend, ThisId, Held, Handling, InHand
  <2>2. CASE h.stop
    BY <1>7, <2>1, <2>2 DEF Handling, InHand
  <2>3. CASE ~h.stop
    BY <1>7, <2>1, <2>3 DEF Handling, InHand
  <2> QED BY <2>1, <2>2, <2>3
<1>9. ASSUME NEW id \in Ids
      PROVE  Open(id)' = Open(id) /\ NotStored(id)' = NotStored(id) /\ Pending(id)' = Pending(id)
  <2>1. Arriving(id)' \cup Handling(id)' = Arriving(id)
    BY <1>4, <1>8
  <2>2. Handling(id)' # {} => recv'.pc = "store"
    BY <1>7, <1>8
  <2> QED BY <1>8, <2>1, <2>2 DEF Open, NotStored, Pending
<1>10. CountersExact' /\ CallbackTracked' /\ PullsCollected'
  BY <1>1, <1>9, Frame DEF Inv
<1>11. LastKnown'
  BY <1>1, <1>7 DEF LastKnown, CounterOf
<1>12. ReturnedFinished'
  BY <1>1 DEF Inv, ReturnedFinished, Finished
<1>13. TypeOK'
  <2>1. returned' \in SUBSET IdsInUse'
    BY <1>1, <1>2, <1>3 DEF TypeOK
  <2>2. \/ app' \in {At("idle"), At("join"), At("stopped")}
        \/ /\ app' \in [pc : {"callback", "send", "wait"}, kv : Kvs, ts : 1 .. MaxRequests, next : Servers]
           /\ ThisId' \in IdsInUse'
    BY <1>1, <1>2, <1>3 DEF TypeOK, ThisId
  <2>3. \/ recv' \in {At("poll"), At("stopped")}
        \/ recv' \in [pc : {"store", "run", "count"}, m : Answer, runCallback : BOOLEAN]
    <3>1. IsLast(tracker_[h.id[1]][h.id[2]]) \in BOOLEAN
      BY DEF IsLast
    <3> QED BY <1>5, <1>6, <3>1
  <2> QED BY <1>1, <1>2, <1>4, <2>1, <2>2, <2>3 DEF TypeOK
<1>14. MessagesGenuine'
  <2>1. \A n \in servers' : Addressed(n)'
    BY <1>1, <1>2, <1>3 DEF MessagesGenuine, Addressed, Genuine, CallOf
  <2>2. \A i \in DOMAIN mailbox' : ~mailbox'[i].stop => Replies(mailbox'[i])
    BY <1>2, <1>4 DEF MessagesGenuine
  <2>3. (\A i \in DOMAIN mailbox : ~mailbox[i].stop => Replies(mailbox[i]))'
    BY <1>1, <1>3, <2>2 DEF Replies, Genuine, CallOf
  <2>4. recv'.pc \in {"store", "run", "count"} => recv'.m = h /\ Replies(h)
    BY <1>5, <1>7
  <2>5. (recv.pc \in {"store", "run", "count"} => Replies(recv.m))'
    BY <1>1, <1>3, <2>4 DEF Replies, Genuine, CallOf
  <2> QED BY <2>1, <2>3, <2>5 DEF MessagesGenuine
<1>15. OnePlace'
  <2>1. ASSUME NEW id \in IdsInUse'
        PROVE  /\ ToSend(id)' \cap (Held(id)' \cup Arriving(id)' \cup Handling(id)') = {}
               /\ Held(id)' \cap (Arriving(id)' \cup Handling(id)') = {}
               /\ Arriving(id)' \cap Handling(id)' = {}
    <3>1. id \in IdsInUse /\ id \in Ids
      BY <1>3 DEF IdsInUse
    <3>2. /\ ToSend(id) \cap (Held(id) \cup Arriving(id) \cup Handling(id)) = {}
          /\ Held(id) \cap (Arriving(id) \cup Handling(id)) = {}
      BY <1>2, <3>1 DEF OnePlace
    <3> QED BY <1>4, <1>8, <3>1, <3>2
  <2>2. ASSUME NEW i \in DOMAIN mailbox', NEW j \in DOMAIN mailbox',
               ~mailbox'[i].stop /\ ~mailbox'[j].stop,
               mailbox'[i].id = mailbox'[j].id /\ mailbox'[i].server = mailbox'[j].server
        PROVE  i = j
    <3>1. i + 1 = j + 1
      BY <1>2, <1>4, <2>2 DEF OnePlace
    <3> QED BY <1>4, <3>1
  <2> QED BY <2>1, <2>2 DEF OnePlace
<1> QED BY <1>10, <1>11, <1>12, <1>13, <1>14, <1>15 DEF Inv

\* What the receiving thread has in hand: an answer that is nowhere else, to
\* a slice that has not been counted; it is the last one when no other slice
\* is open.
LEMMA AnswerInHand ==
  ASSUME Inv, recv.pc \in {"store", "run", "count"},
         NEW id0, id0 = recv.m.id, NEW s0, s0 = recv.m.server
  PROVE  /\ recv \in [pc : {"store", "run", "count"}, m : Answer, runCallback : BOOLEAN]
         /\ id0 \in IdsInUse /\ id0 \in Ids /\ s0 \in Servers /\ recv.m.min_clock \in MinClocks
         /\ s0 \in CallOf(id0).slices /\ recv.m.push = IsPush(CallOf(id0).op)
         /\ \A id : Handling(id) = IF id = id0 THEN {s0} ELSE {}
         /\ s0 \notin ToSend(id0) /\ s0 \notin Held(id0) /\ s0 \notin Arriving(id0)
         /\ IsLast(CounterOf(id0)) <=> ToSend(id0) \cup Held(id0) \cup Arriving(id0) = {}
<1>1. TypeOK /\ MessagesGenuine /\ OnePlace /\ CountersExact
  BY DEF Inv
<1>2. recv \in [pc : {"store", "run", "count"}, m : Answer, runCallback : BOOLEAN]
  BY <1>1 DEF TypeOK, At
<1>3. s0 \in Servers /\ recv.m.min_clock \in MinClocks
  BY <1>2 DEF Answer
<1>4. id0 \in IdsInUse /\ s0 \in CallOf(id0).slices /\ recv.m.push = IsPush(CallOf(id0).op)
  BY <1>1 DEF MessagesGenuine, Replies, Genuine
<1>5. id0 \in Ids
  BY <1>4 DEF IdsInUse
<1>6. \A id : Handling(id) = IF id = id0 THEN {s0} ELSE {}
  BY DEF Handling, InHand
<1>7. s0 \notin ToSend(id0) /\ s0 \notin Held(id0) /\ s0 \notin Arriving(id0)
  <2>1. Handling(id0) = {s0}
    BY <1>6
  <2> QED BY <1>1, <1>4, <2>1 DEF OnePlace
<1>8. IsLast(CounterOf(id0)) <=> \E s : Open(id0) = {s}
  BY <1>1, <1>4, Counting
<1>9. Open(id0) = ToSend(id0) \cup Held(id0) \cup Arriving(id0) \cup {s0}
  BY <1>6 DEF Open
<1>10. (\E s : Open(id0) = {s}) <=> ToSend(id0) \cup Held(id0) \cup Arriving(id0) = {}
  <2>1. ASSUME NEW s, Open(id0) = {s} PROVE ToSend(id0) \cup Held(id0) \cup Arriving(id0) = {}
    <3>1. s = s0
      BY <1>9, <2>1
    <3> QED BY <1>7, <1>9, <2>1, <3>1
  <2>2. ASSUME ToSend(id0) \cup Held(id0) \cup Arriving(id0) = {} PROVE Open(id0) = {s0}
    BY <1>9, <2>2
  <2> QED BY <2>1, <2>2
<1> QED BY <1>2, <1>3, <1>4, <1>5, <1>6, <1>7, <1>8, <1>10

\* Storing an answer and running the callback leave it in hand.
LEMMA StillInHand ==
  ASSUME Inv, recv.pc \in {"store", "run"}, NEW p \in {"run", "count"},
         recv' = [recv EXCEPT !.pc = p],
         UNCHANGED <<tracker_, app, servers, mailbox, requests, returned>>
  PROVE  /\ MessagesGenuine' /\ OnePlace' /\ CountersExact' /\ ReturnedFinished'
         /\ IdsInUse' = IdsInUse
         /\ recv'.pc = p /\ recv'.m = recv.m /\ recv'.runCallback = recv.runCallback
         /\ recv' \in [pc : {"store", "run", "count"}, m : Answer, runCallback : BOOLEAN]
         /\ \/ app' \in {At("idle"), At("join"), At("stopped")}
            \/ /\ app' \in [pc : {"callback", "send", "wait"}, kv : Kvs, ts : 1 .. MaxRequests,
                            next : Servers]
               /\ ThisId' \in IdsInUse'
         /\ \A id \in Ids : /\ CallOf(id)' = CallOf(id) /\ CounterOf(id)' = CounterOf(id)
                            /\ ToSend(id)' = ToSend(id) /\ Held(id)' = Held(id)
                            /\ Arriving(id)' = Arriving(id) /\ Handling(id)' = Handling(id)
                            /\ Registering(id)' <=> Registering(id)
<1>1. recv \in [pc : {"store", "run", "count"}, m : Answer, runCallback : BOOLEAN]
  BY AnswerInHand
<1>2. /\ recv'.pc = p /\ recv'.m = recv.m /\ recv'.runCallback = recv.runCallback
      /\ recv' \in [pc : {"store", "run", "count"}, m : Answer, runCallback : BOOLEAN]
  BY <1>1
<1>3. IdsInUse' = IdsInUse
  BY DEF IdsInUse
<1>4. ASSUME NEW id \in Ids
      PROVE  /\ CallOf(id)' = CallOf(id) /\ CounterOf(id)' = CounterOf(id)
             /\ ToSend(id)' = ToSend(id) /\ Held(id)' = Held(id)
             /\ Arriving(id)' = Arriving(id) /\ Handling(id)' = Handling(id)
             /\ Registering(id)' <=> Registering(id)
  <2>1. CallOf(id)' = CallOf(id) /\ CounterOf(id)' = CounterOf(id)
    BY DEF CallOf, CounterOf
  <2>2. ToSend(id)' = ToSend(id) /\ Held(id)' = Held(id) /\ Arriving(id)' = Arriving(id)
    BY <2>1 DEF ToSend, ThisId, Held, Arriving
  <2>3. Handling(id)' = Handling(id)
    BY <1>2 DEF Handling, InHand
  <2>4. Registering(id)' <=> Registering(id)
    BY DEF Registering, ThisId
  <2> QED BY <2>1, <2>2, <2>3, <2>4
<1>5. MessagesGenuine'
  <2>1. \A n \in servers' : Addressed(n)'
    BY <1>3 DEF Inv, MessagesGenuine, Addressed, Genuine, CallOf
  <2>2. (\A i \in DOMAIN mailbox : ~mailbox[i].stop => Replies(mailbox[i]))'
    BY <1>3 DEF Inv, MessagesGenuine, Replies, Genuine, CallOf
  <2>3. Replies(recv.m) /\ recv'.m = recv.m
    BY <1>2 DEF Inv, MessagesGenuine
  <2>4. Replies(recv.m)'
    BY <1>3, <2>3 DEF Replies, Genuine, CallOf
  <2> QED BY <2>1, <2>2, <2>4 DEF MessagesGenuine
<1>6. OnePlace'
  <2>1. ASSUME NEW id \in IdsInUse'
        PROVE  /\ ToSend(id)' \cap (Held(id)' \cup Arriving(id)' \cup Handling(id)') = {}
               /\ Held(id)' \cap (Arriving(id)' \cup Handling(id)') = {}
               /\ Arriving(id)' \cap Handling(id)' = {}
    <3>1. id \in IdsInUse /\ id \in Ids
      BY <1>3 DEF IdsInUse
    <3> QED BY <1>4, <3>1 DEF Inv, OnePlace
  <2> QED BY <2>1 DEF Inv, OnePlace
<1>7. CountersExact'
  <2>1. \A id \in IdsInUse : id \in Ids /\ Open(id)' = Open(id)
    BY <1>4 DEF IdsInUse, Open
  <2> QED BY <1>3, <1>4, <2>1 DEF Inv, CountersExact
<1>8. ReturnedFinished'
  BY DEF Inv, ReturnedFinished, Finished
<1>9. \/ app' \in {At("idle"), At("join"), At("stopped")}
      \/ /\ app' \in [pc : {"callback", "send", "wait"}, kv : Kvs, ts : 1 .. MaxRequests,
                      next : Servers]
         /\ ThisId' \in IdsInUse'
  BY <1>3 DEF Inv, TypeOK, ThisId
<1> QED BY <1>2, <1>3, <1>4, <1>5, <1>6, <1>7, <1>8, <1>9

\* An answer is added to those collected.
LEMMA OneMore ==
  ASSUME NEW kvs \in Seq(Collected), NEW S, Lists(kvs, S), NEW x \in Collected, x.server \notin S
  PROVE  /\ Append(kvs, x) \in Seq(Collected)
         /\ Lists(Append(kvs, x), S \cup {x.server})
<1> DEFINE n == Len(kvs)
           new == Append(kvs, x)
<1>1. /\ new \in Seq(Collected) /\ DOMAIN kvs = 1 .. n /\ DOMAIN new = DOMAIN kvs \cup {n + 1}
      /\ new[n + 1] = x /\ n + 1 \notin DOMAIN kvs /\ \A i \in DOMAIN kvs : new[i] = kvs[i]
  OBVIOUS
<1> HIDE DEF new, n
<1>2. \A i \in DOMAIN new : new[i].server \in S \cup {x.server}
  BY <1>1 DEF Lists
<1>3. \A s \in S \cup {x.server} : \E i \in DOMAIN new : new[i].server = s
  BY <1>1 DEF Lists
<1>4. \A i, j \in DOMAIN new : new[i].server = new[j].server => i = j
  BY <1>1 DEF Lists
<1>5. Lists(new, S \cup {x.server})
  BY <1>2, <1>3, <1>4 DEF Lists
<1> QED BY <1>1, <1>5 DEF new

\* The answer is stored.  Its request is not over yet: either this is the
\* last answer, and the callback is still to run, or another slice is open.
LEMMA StoreStep ==
  ASSUME Inv, Store
  PROVE  Inv'
<1> PICK id0 : id0 = recv.m.id
  OBVIOUS
<1> PICK s0 : s0 = recv.m.server
  OBVIOUS
<1> PICK p : p = (IF recv.runCallback THEN "run" ELSE "count")
  OBVIOUS
<1> DEFINE Rest(id) == ToSend(id) \cup Held(id) \cup Arriving(id)
           x == [server |-> s0, min_clock |-> recv.m.min_clock]
<1>1. /\ recv.pc = "store" /\ recv' = [recv EXCEPT !.pc = p] /\ p \in {"run", "count"}
      /\ UNCHANGED <<tracker_, callbacks_, app, servers, mailbox, requests, vals, ran, returned>>
      /\ recv_kvs_' = IF recv.m.push THEN recv_kvs_
                        ELSE [recv_kvs_ EXCEPT ![id0] = Append(@, x)]
  BY DEF Store
<1>2. /\ recv \in [pc : {"store", "run", "count"}, m : Answer, runCallback : BOOLEAN]
      /\ id0 \in IdsInUse /\ id0 \in Ids /\ s0 \in Servers /\ recv.m.min_clock \in MinClocks
      /\ s0 \in CallOf(id0).slices /\ recv.m.push = IsPush(CallOf(id0).op)
      /\ \A id : Handling(id) = IF id = id0 THEN {s0} ELSE {}
      /\ s0 \notin Rest(id0)
      /\ IsLast(CounterOf(id0)) <=> Rest(id0) = {}
  BY <1>1, AnswerInHand
<1>3. /\ MessagesGenuine' /\ OnePlace' /\ CountersExact' /\ ReturnedFinished'
      /\ IdsInUse' = IdsInUse
      /\ recv'.pc = p /\ recv'.m = recv.m /\ recv'.runCallback = recv.runCallback
      /\ recv' \in [pc : {"store", "run", "count"}, m : Answer, runCallback : BOOLEAN]
      /\ \/ app' \in {At("idle"), At("join"), At("stopped")}
         \/ /\ app' \in [pc : {"callback", "send", "wait"}, kv : Kvs, ts : 1 .. MaxRequests,
                         next : Servers]
            /\ ThisId' \in IdsInUse'
      /\ \A id \in Ids : /\ CallOf(id)' = CallOf(id) /\ CounterOf(id)' = CounterOf(id)
                         /\ ToSend(id)' = ToSend(id) /\ Held(id)' = Held(id)
                         /\ Arriving(id)' = Arriving(id) /\ Handling(id)' = Handling(id)
                         /\ Registering(id)' <=> Registering(id)
  BY <1>1, StillInHand
<1>4. recv.runCallback <=> Rest(id0) = {}
  BY <1>1, <1>2 DEF Inv, LastKnown
<1>5. ASSUME NEW id \in Ids
      PROVE  /\ NotStored(id) = Rest(id) \cup (IF id = id0 THEN {s0} ELSE {})
             /\ NotStored(id)' = Rest(id)
             /\ Pending(id) = Rest(id) \cup (IF id = id0 THEN {s0} ELSE {})
             /\ Pending(id)' = Rest(id) \cup (IF id = id0 /\ p = "run" THEN {s0} ELSE {})
  BY <1>1, <1>2, <1>3 DEF NotStored, Pending
<1>6. ~Over(id0) /\ ~Over(id0)'
  <2>1. Pending(id0)' # {}
    BY <1>2, <1>4, <1>5
  <2> QED BY <1>2, <1>5, <2>1 DEF Over
<1>7. ASSUME NEW id \in Ids PROVE Over(id)' <=> Over(id)
  <2>1. CASE id = id0
    BY <1>6, <2>1
  <2>2. CASE id # id0
    BY <1>3, <1>5, <2>2 DEF Over
  <2> QED BY <2>1, <2>2
<1> HIDE DEF Rest
<1>8. CallbackTracked'
  <2>1. ASSUME NEW id \in Ids
        PROVE  IF id \in IdsInUse' /\ Registers(CallOf(id)')
                 THEN /\ id \in callbacks_' <=> ~Over(id)' /\ ~Registering(id)'
                      /\ ran'[id] = IF CallOf(id)'.cb /\ Over(id)' THEN 1 ELSE 0
                 ELSE id \notin callbacks_' /\ ran'[id] = 0
    BY <1>1, <1>3, <1>7 DEF Inv, CallbackTracked
  <2> QED BY <1>1, <2>1 DEF Inv, CallbackTracked, ThisCall
<1>9. /\ recv_kvs_ \in [Ids -> Seq(Collected)]
      /\ x \in Collected /\ x.server = s0
  BY <1>2 DEF Inv, TypeOK, Collected
<1> HIDE DEF x
<1>10. ~IsPush(CallOf(id0).op) =>
         /\ Append(recv_kvs_[id0], x) \in Seq(Collected)
         /\ Lists(Append(recv_kvs_[id0], x), CallOf(id0).slices \ Rest(id0))
  <2>1. SUFFICES ASSUME ~IsPush(CallOf(id0).op)
                 PROVE  /\ Append(recv_kvs_[id0], x) \in Seq(Collected)
                        /\ Lists(Append(recv_kvs_[id0], x), CallOf(id0).slices \ Rest(id0))
    OBVIOUS
  <2>2. Lists(recv_kvs_[id0], CallOf(id0).slices \ NotStored(id0))
    BY <1>2, <1>6, <2>1 DEF Inv, PullsCollected
  <2>3. x.server \notin CallOf(id0).slices \ NotStored(id0)
    BY <1>2, <1>5, <1>9
  <2>4. (CallOf(id0).slices \ NotStored(id0)) \cup {x.server} = CallOf(id0).slices \ Rest(id0)
    BY <1>2, <1>5, <1>9
  <2>5. recv_kvs_[id0] \in Seq(Collected)
    BY <1>2, <1>9
  <2> QED BY <1>9, <2>2, <2>3, <2>4, <2>5, OneMore
<1>11. recv_kvs_' \in [Ids -> Seq(Collected)]
  BY <1>1, <1>2, <1>9, <1>10
<1>12. PullsCollected'
  <2>1. ASSUME NEW id \in Ids
        PROVE  IF id \in IdsInUse' /\ ~IsPush(CallOf(id)'.op)
                 THEN IF Over(id)' THEN Ordered(vals'[id].slices, CallOf(id)'.slices)
                      ELSE /\ Lists(recv_kvs_'[id], CallOf(id)'.slices \ NotStored(id)')
                           /\ vals'[id] = NoVals
                 ELSE recv_kvs_'[id] = <<>> /\ vals'[id] = NoVals
    <3>1. IF id \in IdsInUse /\ ~IsPush(CallOf(id).op)
            THEN IF Over(id) THEN Ordered(vals[id].slices, CallOf(id).slices)
                 ELSE Lists(recv_kvs_[id], CallOf(id).slices \ NotStored(id)) /\ vals[id] = NoVals
            ELSE recv_kvs_[id] = <<>> /\ vals[id] = NoVals
      BY DEF Inv, PullsCollected
    <3>2. CASE id # id0
      <4>1. recv_kvs_'[id] = recv_kvs_[id] /\ NotStored(id)' = NotStored(id)
        BY <1>1, <1>5, <1>9, <3>2
      <4> QED BY <1>1, <1>3, <1>7, <3>1, <4>1
    <3>3. CASE id = id0 /\ IsPush(CallOf(id0).op)
      <4>1. recv_kvs_' = recv_kvs_
        BY <1>1, <1>2, <3>3
      <4> QED BY <1>1, <1>3, <3>1, <3>3, <4>1
    <3>4. CASE id = id0 /\ ~IsPush(CallOf(id0).op)
      <4>1. recv_kvs_'[id0] = Append(recv_kvs_[id0], x)
        BY <1>1, <1>2, <1>9, <3>4
      <4>2. NotStored(id0)' = Rest(id0) /\ CallOf(id0)' = CallOf(id0)
        BY <1>2, <1>3, <1>5
      <4>3. Lists(recv_kvs_'[id0], CallOf(id0)'.slices \ NotStored(id0)')
        BY <1>10, <3>4, <4>1, <4>2
      <4>4. vals'[id0] = NoVals
        BY <1>1, <1>2, <1>6, <3>1, <3>4
      <4> QED BY <1>2, <1>3, <1>6, <3>4, <4>2, <4>3, <4>4
    <3> QED BY <3>2, <3>3, <3>4
  <2> QED BY <2>1 DEF PullsCollected
<1>13. LastKnown'
  <2>1. recv.runCallback = IsLast(CounterOf(recv.m.id))
    BY <1>1 DEF Inv, LastKnown
  <2>2. CounterOf(recv.m.id)' = CounterOf(recv.m.id)
    BY <1>1, <1>3 DEF CounterOf
  <2>3. p = "run" => recv.runCallback
    OBVIOUS
  <2> QED BY <1>3, <2>1, <2>2, <2>3 DEF LastKnown
<1>14. TypeOK'
  BY <1>1, <1>3, <1>11 DEF Inv, TypeOK
<1> QED BY <1>3, <1>8, <1>12, <1>13, <1>14 DEF Inv

\* The smallest of the clocks that came with the answers is one of them.
LEMMA SmallestClock ==
  ASSUME NEW S \in SUBSET Nat, S # {}
  PROVE  Min(S) \in S
<1>1. PICK a \in S : \A b \in S : ~(<<b, a>> \in OpToRel(<, Nat))
  BY NatLessThanWellFounded, WFMin
<1>2. \A b \in S : ~(b < a)
  BY <1>1 DEF OpToRel
<1>3. \A b \in S : a =< b
  BY <1>2
<1> QED BY <1>3 DEF Min

\* The callback runs after the last answer of its request has been stored:
\* it is registered, it finds all slices, and it will not run again.
LEMMA RunCallbackStep ==
  ASSUME Inv, RunCallback
  PROVE  Inv'
<1> PICK id0 : id0 = recv.m.id
  OBVIOUS
<1> PICK s0 : s0 = recv.m.server
  OBVIOUS
<1> DEFINE Rest(id) == ToSend(id) \cup Held(id) \cup Arriving(id)
           c == CallOf(id0)
           result == Assembled(c.op, recv_kvs_[id0])
<1>1. /\ recv.pc = "run" /\ recv' = [recv EXCEPT !.pc = "count"]
      /\ UNCHANGED <<tracker_, app, servers, mailbox, requests, returned>>
  BY DEF RunCallback
<1>2. /\ id0 \notin callbacks_ => UNCHANGED <<vals, recv_kvs_, ran, callbacks_>>
      /\ id0 \in callbacks_ =>
           /\ IsPush(c.op) => UNCHANGED <<vals, recv_kvs_>>
           /\ ~IsPush(c.op) => /\ vals' = [vals EXCEPT ![id0] = result]
                               /\ recv_kvs_' = [recv_kvs_ EXCEPT ![id0] = <<>>]
           /\ ran' = IF c.cb THEN [ran EXCEPT ![id0] = @ + 1] ELSE ran
           /\ callbacks_' = callbacks_ \ {id0}
  BY DEF RunCallback, CallOf
<1>3. /\ id0 \in IdsInUse /\ id0 \in Ids /\ s0 \in c.slices
      /\ \A id : Handling(id) = IF id = id0 THEN {s0} ELSE {}
      /\ s0 \notin Rest(id0)
      /\ IsLast(CounterOf(id0)) <=> Rest(id0) = {}
  BY <1>1, AnswerInHand
<1>4. /\ MessagesGenuine' /\ OnePlace' /\ CountersExact' /\ ReturnedFinished'
      /\ IdsInUse' = IdsInUse
      /\ recv'.pc = "count" /\ recv'.m = recv.m
      /\ recv' \in [pc : {"store", "run", "count"}, m : Answer, runCallback : BOOLEAN]
      /\ \/ app' \in {At("idle"), At("join"), At("stopped")}
         \/ /\ app' \in [pc : {"callback", "send", "wait"}, kv : Kvs, ts : 1 .. MaxRequests,
                         next : Servers]
            /\ ThisId' \in IdsInUse'
      /\ \A id \in Ids : /\ CallOf(id)' = CallOf(id) /\ CounterOf(id)' = CounterOf(id)
                         /\ ToSend(id)' = ToSend(id) /\ Held(id)' = Held(id)
                         /\ Arriving(id)' = Arriving(id) /\ Handling(id)' = Handling(id)
                         /\ Registering(id)' <=> Registering(id)
  BY <1>1, StillInHand
<1>5. Rest(id0) = {}
  BY <1>1, <1>3 DEF Inv, LastKnown
<1>6. ASSUME NEW id \in Ids
      PROVE  /\ NotStored(id) = Rest(id) /\ NotStored(id)' = Rest(id)
             /\ Pending(id) = Rest(id) \cup (IF id = id0 THEN {s0} ELSE {})
             /\ Pending(id)' = Rest(id)
  BY <1>1, <1>3, <1>4 DEF NotStored, Pending
<1>7. ~Over(id0) /\ Over(id0)'
  BY <1>3, <1>4, <1>5, <1>6 DEF Over
<1>8. ASSUME NEW id \in Ids, id # id0 PROVE Over(id)' <=> Over(id)
  BY <1>4, <1>6, <1>8 DEF Over
<1>9. ~Registering(id0)
  <2>1. ASSUME Registering(id0) PROVE FALSE
    <3>1. app.next = 1 /\ app.pc = "callback" /\ ThisId = id0
      BY <2>1 DEF Registering, Inv, CallbackTracked
    <3>2. \A s \in c.slices : s >= 1
      BY <1>3, UsedIds DEF Inv, Servers
    <3>3. s0 \in ToSend(id0)
      BY <1>3, <3>1, <3>2 DEF ToSend
    <3> QED BY <1>3, <3>3
  <2> QED BY <2>1
<1>10. /\ id0 \in callbacks_ <=> Registers(c)
       /\ ran[id0] = 0
  BY <1>3, <1>7, <1>9 DEF Inv, CallbackTracked
<1>11. ~IsPush(c.op) => Registers(c)
  BY DEF Registers, IsPush
<1> HIDE DEF Rest
<1>12. ~IsPush(c.op) => Ordered(result.slices, c.slices) /\ result.slices \in Seq(Servers)
                        /\ result \in [slices : Seq(Servers), min_clock : Int]
  <2>1. SUFFICES ASSUME ~IsPush(c.op)
                 PROVE  /\ Ordered(result.slices, c.slices) /\ result.slices \in Seq(Servers)
                        /\ result \in [slices : Seq(Servers), min_clock : Int]
    OBVIOUS
  <2>2. recv_kvs_[id0] \in Seq(Collected)
    BY <1>3 DEF Inv, TypeOK
  <2>3. c.slices \ NotStored(id0) = c.slices
    BY <1>3, <1>5, <1>6
  <2>4. Lists(recv_kvs_[id0], c.slices \ NotStored(id0))
    BY <1>3, <1>7, <2>1 DEF Inv, PullsCollected
  <2>5. Lists(recv_kvs_[id0], c.slices)
    BY <2>3, <2>4
  <2>6. Ordered(result.slices, c.slices) /\ result.slices \in Seq(Servers)
    BY <2>2, <2>5, SortedByKey
  <2> DEFINE kvs == recv_kvs_[id0]
             clocks == {kvs[i].min_clock : i \in DOMAIN kvs}
  <2>7. clocks \in SUBSET Nat /\ clocks # {}
    <3>1. PICK i \in DOMAIN kvs : kvs[i].server = s0
      BY <1>3, <2>5 DEF Lists
    <3>2. \A j \in DOMAIN kvs : kvs[j] \in Collected
      BY <2>2
    <3>3. \A j \in DOMAIN kvs : kvs[j].min_clock \in Nat
      BY <3>2, KVWorkerAssumption DEF Collected
    <3> QED BY <3>1, <3>3
  <2>8. Min(clocks) \in Int
    <3>1. Min(clocks) \in clocks
      BY <2>7, SmallestClock
    <3>2. \A a \in clocks : a \in Int
      BY <2>7
    <3> HIDE DEF clocks
    <3> QED BY <3>1, <3>2, Zenon
  <2>9. result = [slices |-> result.slices, min_clock |-> result.min_clock]
        /\ result.min_clock = IF c.op = "PullChunksWithMinClock" THEN Min(clocks) ELSE -1
    BY DEF Assembled
  <2> HIDE DEF result, clocks, c
  <2> QED BY <2>6, <2>8, <2>9
<1> HIDE DEF result
<1>13. TypeOK'
  <2>1. callbacks_' \in SUBSET Ids
    BY <1>2 DEF Inv, TypeOK
  <2>2. ran' \in [Ids -> Nat]
    <3>1. ran \in [Ids -> Nat]
      BY DEF Inv, TypeOK
    <3>2. ran' = ran \/ ran' = [ran EXCEPT ![id0] = ran[id0] + 1]
      BY <1>2
    <3> QED BY <1>3, <1>10, <3>1, <3>2
  <2>3. recv_kvs_' \in [Ids -> Seq(Collected)]
    <3>1. recv_kvs_ \in [Ids -> Seq(Collected)]
      BY DEF Inv, TypeOK
    <3>2. recv_kvs_' = recv_kvs_ \/ recv_kvs_' = [recv_kvs_ EXCEPT ![id0] = <<>>]
      BY <1>2
    <3>3. <<>> \in Seq(Collected)
      OBVIOUS
    <3> QED BY <3>1, <3>2, <3>3
  <2>4. vals' \in [Ids -> [slices : Seq(Servers), min_clock : Int]]
    <3>1. vals \in [Ids -> [slices : Seq(Servers), min_clock : Int]]
      BY DEF Inv, TypeOK
    <3>2. vals' = vals \/ (~IsPush(c.op) /\ vals' = [vals EXCEPT ![id0] = result])
      BY <1>2
    <3> QED BY <1>12, <3>1, <3>2
  <2>5. returned' \in SUBSET IdsInUse'
    BY <1>1, <1>4 DEF Inv, TypeOK
  <2> QED BY <1>1, <1>4, <2>1, <2>2, <2>3, <2>4, <2>5 DEF Inv, TypeOK
<1>14. LastKnown'
  BY <1>4 DEF LastKnown
<1>15. CallbackTracked'
  <2>1. ASSUME NEW id \in Ids
        PROVE  IF id \in IdsInUse' /\ Registers(CallOf(id)')
                 THEN /\ id \in callbacks_' <=> ~Over(id)' /\ ~Registering(id)'
                      /\ ran'[id] = IF CallOf(id)'.cb /\ Over(id)' THEN 1 ELSE 0
                 ELSE id \notin callbacks_' /\ ran'[id] = 0
    <3>1. CASE id # id0
      <4>1. ran'[id] = ran[id] /\ (id \in callbacks_' <=> id \in callbacks_)
        BY <1>2, <3>1 DEF Inv, TypeOK
      <4> QED BY <1>4, <1>8, <3>1, <4>1 DEF Inv, CallbackTracked
    <3>2. CASE id = id0 /\ Registers(c)
      <4>1. id0 \notin callbacks_'
        BY <1>2, <1>10, <3>2
      <4>2. ran'[id0] = IF c.cb THEN 1 ELSE 0
        <5>1. ran \in [Ids -> Nat]
          BY DEF Inv, TypeOK
        <5> QED BY <1>2, <1>3, <1>10, <3>2, <5>1
      <4> QED BY <1>3, <1>4, <1>7, <3>2, <4>1, <4>2
    <3>3. CASE id = id0 /\ ~Registers(c)
      BY <1>2, <1>3, <1>4, <1>10, <3>3
    <3> QED BY <3>1, <3>2, <3>3
  <2> QED BY <1>1, <2>1 DEF Inv, CallbackTracked, ThisCall
<1>16. PullsCollected'
  <2>1. ASSUME NEW id \in Ids
        PROVE  IF id \in IdsInUse' /\ ~IsPush(CallOf(id)'.op)
                 THEN IF Over(id)' THEN Ordered(vals'[id].slices, CallOf(id)'.slices)
                      ELSE /\ Lists(recv_kvs_'[id], CallOf(id)'.slices \ NotStored(id)')
                           /\ vals'[id] = NoVals
                 ELSE recv_kvs_'[id] = <<>> /\ vals'[id] = NoVals
    <3>1. CASE id # id0
      <4>1. vals'[id] = vals[id] /\ recv_kvs_'[id] = recv_kvs_[id]
        BY <1>2, <3>1 DEF Inv, TypeOK
      <4> QED BY <1>4, <1>6, <1>8, <3>1, <4>1 DEF Inv, PullsCollected
    <3>2. CASE id = id0 /\ ~IsPush(c.op)
      <4>1. vals' = [vals EXCEPT ![id0] = result]
        BY <1>2, <1>10, <1>11, <3>2
      <4>2. vals'[id0] = result
        BY <1>3, <4>1 DEF Inv, TypeOK
      <4> QED BY <1>3, <1>4, <1>7, <1>12, <3>2, <4>2
    <3>3. CASE id = id0 /\ IsPush(c.op)
      <4>1. UNCHANGED <<vals, recv_kvs_>>
        BY <1>2, <3>3
      <4> QED BY <1>3, <1>4, <3>3, <4>1 DEF Inv, PullsCollected
    <3> QED BY <3>1, <3>2, <3>3
  <2> QED BY <2>1 DEF PullsCollected
<1> QED BY <1>4, <1>13, <1>14, <1>15, <1>16 DEF Inv

\* The answer is counted; its slice is no longer open.
LEMMA CountStep ==
  ASSUME Inv, Count
  PROVE  Inv'
<1> PICK id0 : id0 = recv.m.id
  OBVIOUS
<1> PICK s0 : s0 = recv.m.server
  OBVIOUS
<1>1. /\ recv.pc = "count" /\ recv' = At("poll")
      /\ tracker_' = [tracker_ EXCEPT ![id0[1]][id0[2]].second = @ + 1]
      /\ UNCHANGED <<callbacks_, recv_kvs_, app, servers, mailbox, requests, vals, ran, returned>>
  BY DEF Count
<1>2. /\ id0 \in IdsInUse /\ id0 \in Ids /\ s0 \in CallOf(id0).slices
      /\ \A id : Handling(id) = IF id = id0 THEN {s0} ELSE {}
      /\ s0 \notin ToSend(id0) /\ s0 \notin Held(id0) /\ s0 \notin Arriving(id0)
  BY <1>1, AnswerInHand
<1>3. recv'.pc = "poll"
  BY <1>1 DEF At
<1>4. /\ id0[1] \in Kvs /\ id0[2] \in 1 .. Len(tracker_[id0[1]]) /\ id0 = <<id0[1], id0[2]>>
      /\ IsFiniteSet(CallOf(id0).slices)
  BY <1>2, UsedIds DEF Inv
<1>5. /\ tracker_' \in [Kvs -> Seq(Counter)]
      /\ \A k \in Kvs : Len(tracker_'[k]) = Len(tracker_[k])
      /\ tracker_'[id0[1]][id0[2]] = [first |-> tracker_[id0[1]][id0[2]].first,
                                      second |-> tracker_[id0[1]][id0[2]].second + 1]
      /\ \A k \in Kvs : \A i \in 1 .. Len(tracker_[k]) :
           <<k, i>> # id0 => tracker_'[k][i] = tracker_[k][i]
  <2> DEFINE kv0 == id0[1]
             ts0 == id0[2]
             old == tracker_[kv0]
             entry == [old[ts0] EXCEPT !.second = @ + 1]
             new == [old EXCEPT ![ts0] = entry]
  <2>1. tracker_ \in [Kvs -> Seq(Counter)]
    BY DEF Inv, TypeOK
  <2>2. old \in Seq(Counter) /\ ts0 \in 1 .. Len(old) /\ kv0 \in Kvs
    BY <1>4, <2>1
  <2>3. old[ts0] \in Counter
    BY <2>2
  <2>4. entry \in Counter /\ entry = [first |-> old[ts0].first, second |-> old[ts0].second + 1]
    BY <2>3 DEF Counter
  <2>5. tracker_' = [tracker_ EXCEPT ![kv0] = new]
    BY <1>1
  <2> HIDE DEF entry
  <2>6. new \in Seq(Counter) /\ Len(new) = Len(old) /\ new[ts0] = entry
        /\ \A i \in 1 .. Len(old) : i # ts0 => new[i] = old[i]
    <3> HIDE DEF kv0, ts0, old
    <3>1. new \in Seq(Counter) /\ Len(new) = Len(old)
      BY <2>2, <2>4, ExceptSeq
    <3>2. DOMAIN old = 1 .. Len(old)
      BY <2>2
    <3> QED BY <2>2, <3>1, <3>2
  <2> HIDE DEF new
  <2>7. tracker_'[kv0] = new /\ \A k \in Kvs : k # kv0 => tracker_'[k] = tracker_[k]
    BY <2>1, <2>2, <2>5
  <2>8. tracker_' \in [Kvs -> Seq(Counter)]
    BY <2>1, <2>2, <2>5, <2>6
  <2>9. \A k \in Kvs : Len(tracker_'[k]) = Len(tracker_[k])
    BY <2>6, <2>7
  <2>10. ASSUME NEW k \in Kvs, NEW i \in 1 .. Len(tracker_[k]), <<k, i>> # id0
         PROVE  tracker_'[k][i] = tracker_[k][i]
    <3>1. CASE k # kv0
      BY <2>7, <3>1
    <3>2. CASE k = kv0
      <4>1. i # ts0
        BY <1>4, <2>10, <3>2
      <4> QED BY <2>6, <2>7, <2>10, <3>2, <4>1
    <3> QED BY <3>1, <3>2
  <2> QED BY <2>4, <2>6, <2>7, <2>8, <2>9, <2>10
<1>6. IdsInUse' = IdsInUse
  <2>1. \A id \in Ids : id[1] \in Kvs
    BY DEF Ids
  <2>2. tracker_ \in [Kvs -> Seq(Counter)]
    BY DEF Inv, TypeOK
  <2>3. \A k \in Kvs : DOMAIN tracker_'[k] = DOMAIN tracker_[k]
    BY <1>5, <2>2
  <2> QED BY <2>1, <2>3 DEF IdsInUse
<1>7. ASSUME NEW id \in IdsInUse, id # id0 PROVE CounterOf(id)' = CounterOf(id)
  <2>1. id[1] \in Kvs /\ id[2] \in 1 .. Len(tracker_[id[1]]) /\ id = <<id[1], id[2]>>
    BY UsedIds DEF Inv
  <2> QED BY <1>5, <1>7, <2>1 DEF CounterOf
<1>8. CounterOf(id0)' = [first |-> CounterOf(id0).first, second |-> CounterOf(id0).second + 1]
  BY <1>5 DEF CounterOf
<1>9. ASSUME NEW id \in Ids
      PROVE  /\ CallOf(id)' = CallOf(id) /\ ToSend(id)' = ToSend(id) /\ Held(id)' = Held(id)
             /\ Arriving(id)' = Arriving(id) /\ Handling(id)' = {}
             /\ Registering(id)' <=> Registering(id)
  <2>1. CallOf(id)' = CallOf(id) /\ Held(id)' = Held(id) /\ Arriving(id)' = Arriving(id)
    BY <1>1 DEF CallOf, Held, Arriving
  <2>2. ToSend(id)' = ToSend(id) /\ (Registering(id)' <=> Registering(id))
    BY <1>1, <2>1 DEF ToSend, ThisId, Registering
  <2>3. Handling(id)' = {}
    BY <1>3 DEF Handling, InHand
  <2> QED BY <2>1, <2>2, <2>3
<1>10. ASSUME NEW id \in Ids
       PROVE  /\ Open(id)' = Open(id) \ (IF id = id0 THEN {s0} ELSE {})
              /\ NotStored(id)' = NotStored(id) /\ Pending(id)' = Pending(id)
              /\ Over(id)' <=> Over(id)
  <2>1. Open(id)' = Open(id) \ (IF id = id0 THEN {s0} ELSE {})
    BY <1>2, <1>9 DEF Open
  <2>2. NotStored(id)' = NotStored(id) /\ Pending(id)' = Pending(id)
    BY <1>1, <1>3, <1>9 DEF NotStored, Pending
  <2> QED BY <1>9, <2>1, <2>2 DEF Over
<1>11. s0 \in Open(id0)
  BY <1>2 DEF Open
<1>12. CountersExact'
  <2>1. ASSUME NEW id \in IdsInUse'
        PROVE  /\ CounterOf(id)'.first = Cardinality(CallOf(id)'.slices)
               /\ CounterOf(id)'.second = Cardinality(CallOf(id)'.slices \ Open(id)')
    <3>1. id \in IdsInUse /\ id \in Ids
      BY <1>6 DEF IdsInUse
    <3>2. /\ CounterOf(id).first = Cardinality(CallOf(id).slices)
          /\ CounterOf(id).second = Cardinality(CallOf(id).slices \ Open(id))
      BY <3>1 DEF Inv, CountersExact
    <3>3. CASE id # id0
      <4>1. Open(id)' = Open(id)
        BY <1>10, <3>1, <3>3
      <4> QED BY <1>7, <1>9, <3>1, <3>2, <3>3, <4>1
    <3>4. CASE id = id0
      <4> DEFINE S == CallOf(id0).slices
                 closed == S \ Open(id0)
      <4>1. IsFiniteSet(closed) /\ s0 \notin closed
        BY <1>4, <1>11, FS_Subset
      <4>2. S \ (Open(id0) \ {s0}) = closed \cup {s0}
        BY <1>2
      <4>3. Cardinality(closed \cup {s0}) = Cardinality(closed) + 1
        BY <4>1, FS_AddElement
      <4>4. Open(id0)' = Open(id0) \ {s0} /\ CallOf(id0)' = CallOf(id0)
        BY <1>2, <1>9, <1>10
      <4> HIDE DEF closed
      <4>5. Cardinality(CallOf(id0)'.slices \ Open(id0)') = Cardinality(closed) + 1
        BY <4>2, <4>3, <4>4
      <4>6. CounterOf(id0).second = Cardinality(closed)
        BY <3>2, <3>4 DEF closed
      <4> QED BY <1>8, <3>2, <3>4, <4>4, <4>5, <4>6
    <3> QED BY <3>3, <3>4
  <2> QED BY <2>1 DEF CountersExact
<1>13. ReturnedFinished'
  <2>1. ASSUME NEW id \in returned PROVE CounterOf(id)'.first = CounterOf(id)'.second
    <3>1. id \in IdsInUse /\ CounterOf(id).first = CounterOf(id).second
      BY DEF Inv, TypeOK, ReturnedFinished, Finished, CounterOf
    <3>2. Open(id) = {}
      BY <3>1, Counting DEF Inv
    <3>3. id # id0
      BY <1>11, <3>2
    <3> QED BY <1>7, <3>1, <3>3
  <2> QED BY <1>1, <2>1 DEF ReturnedFinished, Finished, CounterOf
<1>14. CallbackTracked'
  <2>1. ASSUME NEW id \in Ids
        PROVE  IF id \in IdsInUse' /\ Registers(CallOf(id)')
                 THEN /\ id \in callbacks_' <=> ~Over(id)' /\ ~Registering(id)'
                      /\ ran'[id] = IF CallOf(id)'.cb /\ Over(id)' THEN 1 ELSE 0
                 ELSE id \notin callbacks_' /\ ran'[id] = 0
    BY <1>1, <1>6, <1>9, <1>10 DEF Inv, CallbackTracked
  <2> QED BY <1>1, <2>1 DEF Inv, CallbackTracked, ThisCall
<1>15. PullsCollected'
  <2>1. ASSUME NEW id \in Ids
        PROVE  IF id \in IdsInUse' /\ ~IsPush(CallOf(id)'.op)
                 THEN IF Over(id)' THEN Ordered(vals'[id].slices, CallOf(id)'.slices)
                      ELSE /\ Lists(recv_kvs_'[id], CallOf(id)'.slices \ NotStored(id)')
                           /\ vals'[id] = NoVals
                 ELSE recv_kvs_'[id] = <<>> /\ vals'[id] = NoVals
    BY <1>1, <1>6, <1>9, <1>10 DEF Inv, PullsCollected
  <2> QED BY <2>1 DEF PullsCollected
<1>16. LastKnown'
  BY <1>3 DEF LastKnown
<1>17. TypeOK'
  <2>1. returned' \in SUBSET IdsInUse'
    BY <1>1, <1>6 DEF Inv, TypeOK
  <2>2. \/ app' \in {At("idle"), At("join"), At("stopped")}
        \/ /\ app' \in [pc : {"callback", "send", "wait"}, kv : Kvs, ts : 1 .. MaxRequests, next : Servers]
           /\ ThisId' \in IdsInUse'
    BY <1>1, <1>6 DEF Inv, TypeOK, ThisId
  <2>3. \A k \in Kvs : Len(tracker_'[k]) = Len(requests'[k]) /\ Len(requests'[k]) <= MaxRequests
    BY <1>1, <1>5 DEF Inv, TypeOK
  <2> QED BY <1>1, <1>5, <2>1, <2>2, <2>3 DEF Inv, TypeOK
<1>18. MessagesGenuine'
  <2>1. \A n \in servers' : Addressed(n)'
    BY <1>1, <1>6 DEF Inv, MessagesGenuine, Addressed, Genuine, CallOf
  <2>2. (\A i \in DOMAIN mailbox : ~mailbox[i].stop => Replies(mailbox[i]))'
    BY <1>1, <1>6 DEF Inv, MessagesGenuine, Replies, Genuine, CallOf
  <2> QED BY <1>3, <2>1, <2>2 DEF MessagesGenuine
<1>19. OnePlace'
  <2>1. ASSUME NEW id \in IdsInUse'
        PROVE  /\ ToSend(id)' \cap (Held(id)' \cup Arriving(id)' \cup Handling(id)') = {}
               /\ Held(id)' \cap (Arriving(id)' \cup Handling(id)') = {}
               /\ Arriving(id)' \cap Handling(id)' = {}
    <3>1. id \in IdsInUse /\ id \in Ids
      BY <1>6 DEF IdsInUse
    <3> QED BY <1>9, <3>1 DEF Inv, OnePlace
  <2> QED BY <1>1, <2>1 DEF Inv, OnePlace
<1> QED BY <1>12, <1>13, <1>14, <1>15, <1>16, <1>17, <1>18, <1>19 DEF Inv

------------------------------------------------------------------------------
(* The theorems.                                                           *)

\* No step breaks the invariant.
LEMMA Step == Inv /\ [Next]_vars => Inv'
<1> SUFFICES ASSUME Inv, [Next]_vars PROVE Inv'
  OBVIOUS
<1>1. CASE \E kv \in Kvs, c \in Calls : Start(kv, c)
  BY <1>1, StartStep
<1>2. CASE AddCallback
  BY <1>2, AddCallbackStep
<1>3. CASE SendNext
  BY <1>3, SendNextStep
<1>4. CASE (\E id \in Ids : Wait(id[1], id[2])) \/ WaitReturns \/ Destroy \/ Joined
  BY <1>4, WaitStep
<1>5. CASE \E m \in servers : ServerAnswers(m)
  BY <1>5, ServerAnswersStep
<1>6. CASE Receiving
  BY <1>6, ReceiveStep, StoreStep, RunCallbackStep, CountStep DEF Receiving
<1>7. CASE UNCHANGED vars
  <2>1. UNCHANGED <<tracker_, callbacks_, recv_kvs_, app, recv, servers, mailbox, requests,
                    vals, ran, returned>>
    BY <1>7 DEF vars, shared
  <2>2. IdsInUse' = IdsInUse
    BY <2>1 DEF IdsInUse
  <2>3. ReturnedFinished'
    BY <2>1 DEF Inv, ReturnedFinished, Finished
  <2>4. \/ app' \in {At("idle"), At("join"), At("stopped")}
        \/ /\ app' \in [pc : {"callback", "send", "wait"}, kv : Kvs, ts : 1 .. MaxRequests, next : Servers]
           /\ ThisId' \in IdsInUse'
    BY <2>1, <2>2 DEF Inv, TypeOK, ThisId
  <2>5. TypeOK'
    BY <2>1, <2>2, <2>4 DEF Inv, TypeOK
  <2> QED BY <2>1, <2>3, <2>5, QuietStep DEF shared
<1> QED BY <1>1, <1>2, <1>3, <1>4, <1>5, <1>6, <1>7 DEF Next

\* The answers of every request are accounted for in every reachable state.
THEOREM Invariance == Spec => []Inv
BY Initially, Step, PTL DEF Spec

\* A request that Wait has returned for is over: its callback has run.
LEMMA FinishedIsOver ==
  ASSUME Inv, NEW id \in returned
  PROVE  id \in IdsInUse /\ id \in Ids /\ (CallOf(id).slices # {} => Over(id))
<1>1. id \in IdsInUse /\ CounterOf(id).first = CounterOf(id).second
  BY DEF Inv, TypeOK, ReturnedFinished, Finished, CounterOf
<1>2. Open(id) = {}
  BY <1>1, Counting DEF Inv
<1>3. Pending(id) = {}
  BY <1>2 DEF Open, Pending
<1> QED BY <1>1, <1>3 DEF IdsInUse, Over

\* When Wait returns, the caller's buffer holds every slice of the pull, in
\* the order of the keys, and the caller's callback has run exactly once
\* (WaitRequest, RunCallback and the callbacks of the pulls), for every number
\* of servers and every order of their answers.
THEOREM Delivered == Spec => []WaitDelivers
<1>1. Inv => WaitDelivers
  <2> SUFFICES ASSUME Inv PROVE WaitDelivers
    OBVIOUS
  <2>1. ASSUME NEW id \in returned, ~IsPush(CallOf(id).op)
        PROVE  Ordered(vals[id].slices, CallOf(id).slices)
    <3>1. id \in IdsInUse /\ id \in Ids /\ (CallOf(id).slices # {} => Over(id))
      BY FinishedIsOver
    <3>2. CASE CallOf(id).slices # {}
      BY <2>1, <3>1, <3>2 DEF Inv, PullsCollected
    <3>3. CASE CallOf(id).slices = {}
      <4>1. vals[id] = NoVals
        BY <2>1, <3>1, <3>3 DEF Inv, PullsCollected, Over
      <4>2. Ordered(<<>>, {})
        BY DEF Ordered, Range
      <4> QED BY <3>3, <4>1, <4>2 DEF NoVals
    <3> QED BY <3>2, <3>3
  <2>2. BufferFilled
    BY <2>1 DEF BufferFilled, CallOf
  <2>3. ASSUME NEW id \in IdsInUse PROVE ran[id] <= 1
    <3>1. ran[id] \in {0, 1}
      BY DEF Inv, CallbackTracked, IdsInUse
    <3> QED BY <3>1
  <2>4. ASSUME NEW id \in returned, CallOf(id).cb, CallOf(id).slices # {}, CallOf(id).op # "Push"
        PROVE  ran[id] = 1
    <3>1. id \in IdsInUse /\ id \in Ids /\ Over(id)
      BY <2>4, FinishedIsOver
    <3>2. CallOf(id).op # "Init"
      <4>1. CallOf(id) \in Calls
        BY <3>1, UsedIds DEF Inv
      <4> QED BY <2>4, <4>1 DEF Calls
    <3>3. Registers(CallOf(id))
      BY <2>4, <3>2 DEF Registers
    <3> QED BY <2>4, <3>1, <3>3 DEF Inv, CallbackTracked
  <2>5. CallbackOnce
    BY <2>3, <2>4 DEF CallbackOnce, CallOf
  <2> QED BY <2>2, <2>5 DEF WaitDelivers
<1> QED BY <1>1, Invariance, PTL

\* The receiving thread reads the answer to a pull in the format the server
\* wrote it in, and keeps it as the type its callback expects (UniqueProcess,
\* ServerBase::Response), for every call and every placement of the servers.
THEOREM Understood == Spec => []AnswersUnderstood
<1>1. Inv => AnswersUnderstood
  <2> SUFFICES ASSUME Inv, recv.pc = "store", ~recv.m.push
               PROVE  /\ Decoded(recv.m.cmd) = recv.m.form
                      /\ (Decoded(recv.m.cmd) = "keys, vals, min_clock") <=>
                           (CallOf(recv.m.id).op = "PullChunksWithMinClock")
    BY DEF AnswersUnderstood, CallOf
  <2>1. /\ recv.m.id \in IdsInUse /\ recv.m.push = IsPush(CallOf(recv.m.id).op)
        /\ recv.m.cmd = ServerCmd(Cmd(CallOf(recv.m.id), recv.m.server))
        /\ recv.m.form = Encoded(recv.m.cmd)
    BY DEF Inv, MessagesGenuine, Replies, Genuine
  <2>2. CallOf(recv.m.id) \in Calls
    BY <2>1, UsedIds DEF Inv
  <2> QED BY <2>1, <2>2, Commands
<1> QED BY <1>1, Invariance, PTL

\* The state keeps its types, and every request its counter.
THEOREM TypeCorrect == Spec => []TypeOK
BY Invariance, PTL DEF Inv
=============================================================================
