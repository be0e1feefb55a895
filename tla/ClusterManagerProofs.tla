------------------------- MODULE ClusterManagerProofs -------------------------
(***************************************************************************)
(* Proofs about ClusterManager for every number of processes and threads,  *)
(* every list of tasks and each of the schedulers.                         *)
(*                                                                         *)
(* The proof of ThreadsAccounted follows a thread along its way: every     *)
(* action takes it from one place to the next, and no message is about it  *)
(* at two places (OnePlace).  The manager can therefore take it out of the *)
(* books of the task that the message names (Booked).                      *)
(*                                                                         *)
(* RunInstanceAsserts rests on the rounds of Submit: a task is only given  *)
(* threads while it has none (Marked), so that the instances on the way to *)
(* a process never meet one of the same task there (RunsInv).  With this,  *)
(* the epoch of a task does not move while one of its threads has work to  *)
(* do, and the model its leader leaves stays where the order to transfer   *)
(* it will look (ModelsInv, for TransferFindsModel).                       *)
(***************************************************************************)
EXTENDS ClusterManager, FiniteSetTheorems, WellFoundedInduction, NaturalsInduction,
        SequenceTheorems, TLAPS

------------------------------------------------------------------------------
(* Sequences of messages.                                                   *)

LEMMA Least ==
  ASSUME NEW S \in SUBSET Nat, S # {}
  PROVE  \E a \in S : \A b \in S : a <= b
<1>1. PICK a \in S : \A b \in S : ~(<<b, a>> \in OpToRel(<, Nat))
  BY NatLessThanWellFounded, WFMin
<1>2. \A b \in S : ~(b < a)
  BY <1>1 DEF OpToRel
<1> QED BY <1>2

LEMMA SeqToSet ==
  ASSUME NEW S, NEW s \in Seq(S)
  PROVE  /\ s \in Seq(ToSet(s)) /\ Len(s) \in Nat /\ DOMAIN s = 1 .. Len(s)
         /\ ToSet(s) \subseteq S
<1>1. Len(s) \in Nat /\ DOMAIN s = 1 .. Len(s) /\ \A i \in DOMAIN s : s[i] \in S
  OBVIOUS
<1>2. \A i \in DOMAIN s : s[i] \in ToSet(s)
  BY DEF ToSet
<1>3. s \in [1 .. Len(s) -> ToSet(s)]
  BY <1>1, <1>2
<1>4. ToSet(s) \subseteq S
  BY <1>1 DEF ToSet
<1> QED BY <1>1, <1>3, <1>4, SeqDef

LEMMA AppendFacts ==
  ASSUME NEW s, s \in Seq(ToSet(s)), NEW m
  PROVE  /\ Append(s, m) \in Seq(ToSet(Append(s, m)))
         /\ ToSet(Append(s, m)) = ToSet(s) \cup {m}
         /\ \A t : ~Speaks(m, t) => /\ Silent(s, t) => Silent(Append(s, m), t)
                                    /\ Once(s, t) => Once(Append(s, m), t)
         /\ \A t : Speaks(m, t) /\ Silent(s, t) => Once(Append(s, m), t)
<1> DEFINE a == Append(s, m)  T == ToSet(s) \cup {m}
<1> PICK n \in Nat : n = Len(s) /\ DOMAIN s = 1 .. n
  BY SeqToSet
<1>1. s \in Seq(T)
  BY SeqToSet
<1>2. /\ a \in Seq(T) /\ DOMAIN a = 1 .. n + 1 /\ a[n + 1] = m
      /\ \A i \in 1 .. n : a[i] = s[i]
  BY <1>1
<1> HIDE DEF a
<1>3. ToSet(a) = T
  <2>1. ASSUME NEW x \in T PROVE x \in ToSet(a)
    <3>1. CASE x = m
      <4>1. n + 1 \in 1 .. n + 1
        OBVIOUS
      <4> QED BY <1>2, <3>1, <4>1 DEF ToSet
    <3>2. CASE x \in ToSet(s)
      <4>1. PICK i \in 1 .. n : x = s[i]
        BY <3>2 DEF ToSet
      <4>2. i \in 1 .. n + 1 /\ a[i] = x
        BY <1>2, <4>1
      <4> QED BY <1>2, <4>2 DEF ToSet
    <3> QED BY <3>1, <3>2
  <2>2. ToSet(a) \subseteq T
    BY <1>2, SeqToSet
  <2> QED BY <2>1, <2>2
<1>4. a \in Seq(ToSet(a))
  BY <1>2, SeqToSet
<1>5. \A i \in 1 .. n : a[i] = s[i] /\ i \in 1 .. n + 1 /\ i # n + 1
  BY <1>2
<1>6. \A i \in 1 .. n + 1 : i \in 1 .. n \/ i = n + 1
  OBVIOUS
<1>7. ASSUME NEW t, ~Speaks(m, t), Once(s, t) PROVE Once(a, t)
  <2>1. PICK i \in 1 .. n : Speaks(s[i], t) /\ \A k \in 1 .. n : Speaks(s[k], t) => k = i
    BY <1>7 DEF Once
  <2>2. i \in DOMAIN a /\ Speaks(a[i], t)
    BY <1>2, <1>5, <2>1
  <2>3. ASSUME NEW k \in DOMAIN a, Speaks(a[k], t) PROVE k = i
    <3>1. k \in 1 .. n
      BY <1>2, <1>6, <1>7, <2>3
    <3> QED BY <1>5, <2>1, <2>3, <3>1
  <2> QED BY <2>2, <2>3 DEF Once
<1>8. ASSUME NEW t, Speaks(m, t), Silent(s, t) PROVE Once(a, t)
  <2>1. \A k \in 1 .. n : ~Speaks(s[k], t)
    BY <1>8 DEF Silent, ToSet
  <2>2. n + 1 \in DOMAIN a /\ Speaks(a[n + 1], t)
    BY <1>2, <1>8
  <2>3. ASSUME NEW k \in DOMAIN a, Speaks(a[k], t) PROVE k = n + 1
    BY <1>2, <1>5, <1>6, <2>1, <2>3
  <2> QED BY <2>2, <2>3 DEF Once
<1>9. \A t : ~Speaks(m, t) /\ Silent(s, t) => Silent(a, t)
  BY <1>3 DEF Silent
<1> QED BY <1>3, <1>4, <1>7, <1>8, <1>9 DEF a

LEMMA TailFacts ==
  ASSUME NEW s, s \in Seq(ToSet(s)), s # <<>>
  PROVE  /\ Tail(s) \in Seq(ToSet(Tail(s)))
         /\ ToSet(Tail(s)) \subseteq ToSet(s) /\ Head(s) \in ToSet(s)
         /\ \A t : /\ Silent(s, t) => Silent(Tail(s), t)
                   /\ Once(s, t) /\ ~Speaks(Head(s), t) => Once(Tail(s), t)
                   /\ Once(s, t) /\ Speaks(Head(s), t) => Silent(Tail(s), t)
<1> DEFINE a == Tail(s)
<1> PICK n \in Nat : n = Len(s) /\ DOMAIN s = 1 .. n /\ n # 0
  BY SeqToSet
<1>1. /\ a \in Seq(ToSet(s)) /\ DOMAIN a = 1 .. n - 1 /\ Head(s) = s[1] /\ Head(s) \in ToSet(s)
      /\ \A i \in 1 .. n - 1 : a[i] = s[i + 1]
  OBVIOUS
<1> HIDE DEF a
<1>2. a \in Seq(ToSet(a)) /\ ToSet(a) \subseteq ToSet(s)
  BY <1>1, SeqToSet
<1>3. \A i \in 1 .. n - 1 : i + 1 \in 1 .. n /\ a[i] = s[i + 1] /\ i + 1 # 1
  BY <1>1
<1>4. 1 \in 1 .. n /\ \A i \in 1 .. n : i # 1 => i - 1 \in 1 .. n - 1 /\ (i - 1) + 1 = i
  OBVIOUS
<1>5. ASSUME NEW t, Once(s, t), ~Speaks(Head(s), t) PROVE Once(a, t)
  <2>1. PICK i \in 1 .. n : Speaks(s[i], t) /\ \A k \in 1 .. n : Speaks(s[k], t) => k = i
    BY <1>5 DEF Once
  <2>2. i # 1
    BY <1>1, <1>5, <2>1
  <2>3. i - 1 \in DOMAIN a /\ Speaks(a[i - 1], t)
    BY <1>1, <1>4, <2>1, <2>2
  <2>4. ASSUME NEW k \in DOMAIN a, Speaks(a[k], t) PROVE k = i - 1
    <3>1. k \in 1 .. n - 1 /\ Speaks(s[k + 1], t) /\ k + 1 \in 1 .. n
      BY <1>1, <1>3, <2>4
    <3>2. k + 1 = i
      BY <2>1, <3>1
    <3> QED BY <3>1, <3>2
  <2> QED BY <2>3, <2>4 DEF Once
<1>6. ASSUME NEW t, Once(s, t), Speaks(Head(s), t) PROVE Silent(a, t)
  <2>1. PICK i \in 1 .. n : Speaks(s[i], t) /\ \A k \in 1 .. n : Speaks(s[k], t) => k = i
    BY <1>6 DEF Once
  <2>2. i = 1
    BY <1>1, <1>4, <1>6, <2>1
  <2>3. ASSUME NEW m \in ToSet(a), Speaks(m, t) PROVE FALSE
    <3>1. PICK k \in 1 .. n - 1 : m = a[k]
      BY <1>1, <2>3 DEF ToSet
    <3>2. k + 1 \in 1 .. n /\ Speaks(s[k + 1], t) /\ k + 1 # 1
      BY <1>3, <2>3, <3>1
    <3> QED BY <2>1, <2>2, <3>2
  <2> QED BY <2>3 DEF Silent
<1>7. \A t : Silent(s, t) => Silent(a, t)
  BY <1>2 DEF Silent
<1> QED BY <1>1, <1>2, <1>5, <1>6, <1>7 DEF a

LEMMA ConcatFacts ==
  ASSUME NEW s, s \in Seq(ToSet(s)), NEW r, r \in Seq(ToSet(r))
  PROVE  /\ s \o r \in Seq(ToSet(s \o r))
         /\ ToSet(s \o r) = ToSet(s) \cup ToSet(r)
         /\ \A t : /\ Silent(s, t) /\ Silent(r, t) => Silent(s \o r, t)
                   /\ Once(s, t) /\ Silent(r, t) => Once(s \o r, t)
                   /\ Silent(s, t) /\ Once(r, t) => Once(s \o r, t)
<1> DEFINE a == s \o r  T == ToSet(s) \cup ToSet(r)
<1> PICK n \in Nat : n = Len(s) /\ DOMAIN s = 1 .. n
  BY SeqToSet
<1> PICK l \in Nat : l = Len(r) /\ DOMAIN r = 1 .. l
  BY SeqToSet
<1>1. s \in Seq(T) /\ r \in Seq(T)
  BY SeqToSet
<1>2. /\ a \in Seq(T) /\ Len(a) = n + l
      /\ \A i \in 1 .. n + l : a[i] = IF i <= n THEN s[i] ELSE r[i - n]
  BY <1>1, ConcatProperties
<1>3. DOMAIN a = 1 .. n + l
  BY <1>2
<1> HIDE DEF a
<1>4. \A i \in 1 .. n : i \in 1 .. n + l /\ a[i] = s[i]
  BY <1>2
<1>5. \A i \in 1 .. l : n + i \in 1 .. n + l /\ a[n + i] = r[i]
  <2> SUFFICES ASSUME NEW i \in 1 .. l PROVE n + i \in 1 .. n + l /\ a[n + i] = r[i]
    OBVIOUS
  <2>1. n + i \in 1 .. n + l /\ ~(n + i <= n) /\ (n + i) - n = i
    OBVIOUS
  <2>2. a[n + i] = r[(n + i) - n]
    BY <1>2, <2>1
  <2> QED BY <2>1, <2>2
<1>6. \A i \in 1 .. n + l : i \in 1 .. n \/ \E j \in 1 .. l : i = n + j
  <2> SUFFICES ASSUME NEW i \in 1 .. n + l, i \notin 1 .. n PROVE \E j \in 1 .. l : i = n + j
    OBVIOUS
  <2>1. i - n \in 1 .. l /\ i = n + (i - n)
    OBVIOUS
  <2> QED BY <2>1
<1>7. ToSet(a) = T
  <2>1. ASSUME NEW x \in ToSet(s) PROVE x \in ToSet(a)
    <3>1. PICK i \in 1 .. n : x = s[i]
      BY DEF ToSet
    <3> QED BY <1>3, <1>4, <3>1 DEF ToSet
  <2>2. ASSUME NEW x \in ToSet(r) PROVE x \in ToSet(a)
    <3>1. PICK i \in 1 .. l : x = r[i]
      BY DEF ToSet
    <3> QED BY <1>3, <1>5, <3>1 DEF ToSet
  <2>3. ToSet(a) \subseteq T
    BY <1>2, SeqToSet
  <2> QED BY <2>1, <2>2, <2>3
<1>8. a \in Seq(ToSet(a))
  BY <1>2, SeqToSet
<1>9. ASSUME NEW t, Once(s, t), Silent(r, t) PROVE Once(a, t)
  <2>1. PICK i \in 1 .. n : Speaks(s[i], t) /\ \A k \in 1 .. n : Speaks(s[k], t) => k = i
    BY <1>9 DEF Once
  <2>2. \A k \in 1 .. l : ~Speaks(r[k], t)
    BY <1>9 DEF Silent, ToSet
  <2>3. ASSUME NEW k \in 1 .. n + l, Speaks(a[k], t) PROVE k = i
    <3>1. k \in 1 .. n
      BY <1>5, <1>6, <2>2, <2>3
    <3> QED BY <1>4, <2>1, <2>3, <3>1
  <2>4. i \in DOMAIN a /\ Speaks(a[i], t)
    BY <1>3, <1>4, <2>1
  <2> QED BY <1>3, <2>3, <2>4 DEF Once
<1>10. ASSUME NEW t, Silent(s, t), Once(r, t) PROVE Once(a, t)
  <2>1. PICK i \in 1 .. l : Speaks(r[i], t) /\ \A k \in 1 .. l : Speaks(r[k], t) => k = i
    BY <1>10 DEF Once
  <2>2. \A k \in 1 .. n : ~Speaks(s[k], t)
    BY <1>10 DEF Silent, ToSet
  <2>3. ASSUME NEW k \in 1 .. n + l, Speaks(a[k], t) PROVE k = n + i
    <3>1. k \notin 1 .. n
      BY <1>4, <2>2, <2>3
    <3>2. PICK j \in 1 .. l : k = n + j
      BY <1>6, <3>1
    <3> QED BY <1>5, <2>1, <2>3, <3>2
  <2>4. n + i \in DOMAIN a /\ Speaks(a[n + i], t)
    BY <1>3, <1>5, <2>1
  <2> QED BY <1>3, <2>3, <2>4 DEF Once
<1>11. \A t : Silent(s, t) /\ Silent(r, t) => Silent(a, t)
  BY <1>7 DEF Silent
<1> QED BY <1>7, <1>8, <1>9, <1>10, <1>11 DEF a

\* FlattenSeq is computed from left to right.
LEMMA FlattenRec ==
  ASSUME NEW seqs, NEW n \in Nat \ {0}, Len(seqs) = n
  PROVE  \E g : /\ FlattenSeq(seqs) = g[n]
                /\ \A i \in 1 .. n : g[i] = IF i = 1 THEN seqs[i] ELSE g[i - 1] \o seqs[i]
<1> DEFINE Step(f, k) == [i \in 1 .. k |-> IF i = 1 THEN seqs[i] ELSE f[i - 1] \o seqs[i]]
           Good(k) == \E g : g = Step(g, k)
           flatten == CHOOSE f : f = Step(f, n)
<1>1. ASSUME NEW k \in 1 .. n, NEW g, g = Step(g, k)
      PROVE  Good(k + 1)
  <2> DEFINE f == [i \in 1 .. k + 1 |-> IF i = k + 1 THEN g[k] \o seqs[k + 1] ELSE g[i]]
  <2>1. \A i \in 1 .. k : g[i] = IF i = 1 THEN seqs[i] ELSE g[i - 1] \o seqs[i]
    BY <1>1
  <2>2. ASSUME NEW i \in 1 .. k + 1
        PROVE  f[i] = IF i = 1 THEN seqs[i] ELSE f[i - 1] \o seqs[i]
    <3>1. CASE i = k + 1
      <4>1. i # 1 /\ i - 1 = k /\ k \in 1 .. k + 1 /\ k # k + 1
        BY <3>1
      <4>2. f[i] = g[k] \o seqs[k + 1] /\ f[k] = g[k]
        BY <3>1, <4>1
      <4> HIDE DEF f
      <4> QED BY <3>1, <4>1, <4>2
    <3>2. CASE i # k + 1 /\ i # 1
      <4>1. i \in 1 .. k /\ i - 1 \in 1 .. k + 1 /\ i - 1 # k + 1
        BY <3>2
      <4>2. f[i] = g[i] /\ f[i - 1] = g[i - 1]
        BY <3>2, <4>1
      <4> HIDE DEF f
      <4> QED BY <2>1, <3>2, <4>1, <4>2
    <3>3. CASE i = 1
      <4>1. i \in 1 .. k /\ i # k + 1
        BY <3>3
      <4>2. f[i] = g[i]
        BY <4>1
      <4> HIDE DEF f
      <4> QED BY <2>1, <3>3, <4>1, <4>2
    <3> QED BY <3>1, <3>2, <3>3
  <2>3. f = [i \in 1 .. k + 1 |-> f[i]]
    OBVIOUS
  <2> HIDE DEF f
  <2>4. f = Step(f, k + 1)
    BY <2>2, <2>3, Zenon
  <2> QED BY <2>4, Zenon
<1>2. Good(1)
  <2> DEFINE g == [i \in 1 .. 1 |-> seqs[i]]
  <2>1. \A i \in 1 .. 1 : i = 1 /\ g[i] = seqs[i]
    OBVIOUS
  <2>2. g = [i \in 1 .. 1 |-> IF i = 1 THEN seqs[i] ELSE g[i - 1] \o seqs[i]]
    OBVIOUS
  <2> HIDE DEF g
  <2> QED BY <2>2, Zenon
<1>3. Good(n)
  <2> DEFINE S == {k \in 1 .. n : ~Good(k)}
  <2> HIDE DEF Good
  <2> SUFFICES ASSUME S # {} PROVE FALSE
    OBVIOUS
  <2>1. PICK k \in S : \A j \in S : k <= j
    <3>1. S \in SUBSET Nat
      OBVIOUS
    <3> HIDE DEF S
    <3> QED BY <3>1, Least
  <2>2. k \in 1 .. n /\ ~Good(k) /\ k # 1
    BY <1>2
  <2>3. k - 1 \in 1 .. n /\ ~(k <= k - 1) /\ (k - 1) + 1 = k
    BY <2>2
  <2>4. Good(k - 1)
    BY <2>1, <2>3
  <2>5. Good((k - 1) + 1)
    <3> PICK j \in 1 .. n : j = k - 1
      BY <2>3
    <3>1. PICK g : g = Step(g, j)
      BY <2>4, Zenon DEF Good
    <3> HIDE DEF Step
    <3>2. Good(j + 1)
      BY <1>1, <3>1
    <3> QED BY <3>2
  <2> QED BY <2>2, <2>3, <2>5
<1>4. flatten = Step(flatten, n)
  <2> HIDE DEF Step
  <2> QED BY <1>3, Zenon
<1>5. FlattenSeq(seqs) = flatten[n]
  BY Zenon DEF FlattenSeq
<1>6. \A i \in 1 .. n : flatten[i] = IF i = 1 THEN seqs[i] ELSE flatten[i - 1] \o seqs[i]
  <2> HIDE DEF flatten
  <2> QED BY <1>4
<1> HIDE DEF flatten
<1> QED BY <1>5, <1>6

\* What Send adds to the messages for a process: every instance once, and
\* orders to transfer a model, which are about no thread.
LEMMA SentFacts ==
  ASSUME MessagesFormed, NEW p \in Procs,
         NEW sent, sent = FlattenSeq([i \in DOMAIN extracted |-> ToOneProcess(extracted[i], p)])
  PROVE  /\ sent \in Seq(ToSet(sent))
         /\ \A m \in ToSet(sent) : m \in ToSet(extracted) \/ m.type = "DirectTransferModel"
         /\ \A t : /\ Silent(extracted, t) => Silent(sent, t)
                   /\ Once(extracted, t) => Once(sent, t)
<1> DEFINE seqs == [i \in DOMAIN extracted |-> ToOneProcess(extracted[i], p)]
<1>1. PICK n \in Nat : n = Len(extracted) /\ DOMAIN extracted = 1 .. n
  BY SeqToSet DEF MessagesFormed
<1>2. Len(seqs) = n
  BY <1>1
<1>3. CASE n = 0
  <2>1. sent = seqs
    BY <1>2, <1>3, Zenon DEF FlattenSeq
  <2>2. sent = <<>>
    BY <1>1, <1>3, <2>1
  <2>3. ToSet(sent) = {}
    <3>1. DOMAIN sent = {}
      BY <1>1, <1>3, <2>1
    <3> QED BY <3>1 DEF ToSet
  <2>4. \A t : ~Once(extracted, t)
    BY <1>1, <1>3 DEF Once
  <2>5. sent \in Seq(ToSet(sent))
    BY <2>2
  <2> QED BY <2>3, <2>4, <2>5 DEF Silent
<1>4. CASE n # 0
  <2>1. PICK g : /\ sent = g[n]
                 /\ \A i \in 1 .. n : g[i] = IF i = 1 THEN seqs[i] ELSE g[i - 1] \o seqs[i]
    <3>1. sent = FlattenSeq(seqs) /\ n \in Nat \ {0}
      BY <1>4
    <3> HIDE DEF seqs
    <3>2. \E g : /\ FlattenSeq(seqs) = g[n]
                 /\ \A i \in 1 .. n : g[i] = IF i = 1 THEN seqs[i] ELSE g[i - 1] \o seqs[i]
      BY <1>2, <3>1, FlattenRec, Zenon
    <3> QED BY <3>1, <3>2, Zenon
  <2>2. ASSUME NEW i \in 1 .. n
        PROVE  /\ seqs[i] \in Seq(ToSet(seqs[i]))
               /\ \A m \in ToSet(seqs[i]) : m = extracted[i] \/ m.type = "DirectTransferModel"
               /\ \A t : /\ ~Speaks(extracted[i], t) => Silent(seqs[i], t)
                         /\ Speaks(extracted[i], t) => Once(seqs[i], t)
    <3> PICK m : m = extracted[i]
      OBVIOUS
    <3> PICK d : d = DirectTransferModel(Leader(m.cluster), m.task)
      OBVIOUS
    <3>1. d.type = "DirectTransferModel" /\ \A t : ~Speaks(d, t)
      BY DEF DirectTransferModel, Speaks
    <3>2. PICK e : e = <<>> /\ e \in Seq(ToSet(e)) /\ ToSet(e) = {} /\ \A t : Silent(e, t)
      <4>1. DOMAIN <<>> = {} /\ <<>> \in Seq({})
        OBVIOUS
      <4>2. ToSet(<<>>) = {}
        BY <4>1 DEF ToSet
      <4> QED BY <4>1, <4>2 DEF Silent
    <3>3. PICK one : one = Append(e, m)
      OBVIOUS
    <3>4. /\ one \in Seq(ToSet(one)) /\ ToSet(one) = {m}
          /\ \A t : /\ ~Speaks(m, t) => Silent(one, t)
                    /\ Speaks(m, t) => Once(one, t)
      <4>1. e \in Seq(ToSet(e))
        BY <3>2
      <4>2. /\ one \in Seq(ToSet(one)) /\ ToSet(one) = ToSet(e) \cup {m}
            /\ \A t : ~Speaks(m, t) => (Silent(e, t) => Silent(one, t))
            /\ \A t : Speaks(m, t) /\ Silent(e, t) => Once(one, t)
        BY <3>3, <4>1, AppendFacts
      <4> QED BY <3>2, <4>2
    <3>5. PICK two : two = Append(one, d)
      OBVIOUS
    <3>6. /\ two \in Seq(ToSet(two)) /\ ToSet(two) = {m, d}
          /\ \A t : /\ ~Speaks(m, t) => Silent(two, t)
                    /\ Speaks(m, t) => Once(two, t)
      BY <3>1, <3>4, <3>5, AppendFacts
    <3>7. seqs[i] = one \/ seqs[i] = two
      <4>1. seqs[i] = <<m>> \o (IF TransferTo(m, p) THEN <<d>> ELSE <<>>)
        BY <1>1 DEF ToOneProcess
      <4>2. one = <<m>>
        BY <3>2, <3>3
      <4>3. one \o <<>> = one
        BY <3>4, ConcatEmptySeq
      <4>4. one \o <<d>> = two
        <5>1. one \in Seq({m, d}) /\ d \in {m, d}
          BY <4>2
        <5> QED BY <3>5, <5>1, AppendIsConcat
      <4> QED BY <4>1, <4>2, <4>3, <4>4
    <3> HIDE DEF seqs
    <3> QED BY <3>1, <3>4, <3>6, <3>7
  <2> HIDE DEF seqs
  <2> DEFINE Good(k) ==
        /\ g[k] \in Seq(ToSet(g[k]))
        /\ \A m \in ToSet(g[k]) : (\E i \in 1 .. k : m = extracted[i]) \/ m.type = "DirectTransferModel"
        /\ \A t : /\ (\A i \in 1 .. k : ~Speaks(extracted[i], t)) => Silent(g[k], t)
                  /\ (\E i \in 1 .. k : /\ Speaks(extracted[i], t)
                                        /\ \A j \in 1 .. k : Speaks(extracted[j], t) => j = i)
                       => Once(g[k], t)
  <2>3. Good(1)
    <3>1. 1 \in 1 .. n /\ \A i \in 1 .. 1 : i = 1
      BY <1>4
    <3>2. g[1] = seqs[1] /\ 1 \in 1 .. 1
      BY <2>1, <3>1
    <3> QED BY <2>2, <3>1, <3>2
  <2>4. ASSUME NEW k \in 1 .. n, k + 1 \in 1 .. n, Good(k) PROVE Good(k + 1)
    <3>1. g[k + 1] = g[k] \o seqs[k + 1]
      <4>1. k + 1 # 1 /\ (k + 1) - 1 = k
        OBVIOUS
      <4> QED BY <2>1, <2>4, <4>1
    <3> PICK a, b : a = g[k] /\ b = seqs[k + 1]
      OBVIOUS
    <3>2. /\ a \in Seq(ToSet(a)) /\ b \in Seq(ToSet(b))
      BY <2>2, <2>4
    <3>3. /\ a \o b \in Seq(ToSet(a \o b))
          /\ ToSet(a \o b) = ToSet(a) \cup ToSet(b)
          /\ \A t : /\ Silent(a, t) /\ Silent(b, t) => Silent(a \o b, t)
                    /\ Once(a, t) /\ Silent(b, t) => Once(a \o b, t)
                    /\ Silent(a, t) /\ Once(b, t) => Once(a \o b, t)
      BY <3>2, ConcatFacts
    <3>4. /\ \A i \in 1 .. k : i \in 1 .. k + 1 /\ i # k + 1
          /\ k + 1 \in 1 .. k + 1
          /\ \A i \in 1 .. k + 1 : i \in 1 .. k \/ i = k + 1
      OBVIOUS
    <3>5. \A m \in ToSet(a) : (\E i \in 1 .. k : m = extracted[i]) \/ m.type = "DirectTransferModel"
      BY <2>4
    <3>6. \A m \in ToSet(b) : m = extracted[k + 1] \/ m.type = "DirectTransferModel"
      BY <2>2, <2>4
    <3>7. \A m \in ToSet(a \o b) :
            (\E i \in 1 .. k + 1 : m = extracted[i]) \/ m.type = "DirectTransferModel"
      BY <3>3, <3>4, <3>5, <3>6
    <3>8. \A t : /\ ~Speaks(extracted[k + 1], t) => Silent(b, t)
                 /\ Speaks(extracted[k + 1], t) => Once(b, t)
      BY <2>2, <2>4
    <3>9. ASSUME NEW t, \A i \in 1 .. k + 1 : ~Speaks(extracted[i], t)
          PROVE  Silent(a \o b, t)
      <4>1. Silent(a, t)
        BY <2>4, <3>4, <3>9
      <4>2. Silent(b, t)
        BY <3>4, <3>8, <3>9
      <4> QED BY <3>3, <4>1, <4>2
    <3>10. ASSUME NEW t, NEW i \in 1 .. k + 1, Speaks(extracted[i], t),
                  \A j \in 1 .. k + 1 : Speaks(extracted[j], t) => j = i
           PROVE  Once(a \o b, t)
      <4>1. CASE i = k + 1
        <5>1. \A j \in 1 .. k : ~Speaks(extracted[j], t)
          BY <3>4, <3>10, <4>1
        <5>2. Silent(a, t)
          BY <2>4, <5>1
        <5>3. Once(b, t)
          BY <3>8, <3>10, <4>1
        <5> QED BY <3>3, <5>2, <5>3
      <4>2. CASE i # k + 1
        <5>1. i \in 1 .. k /\ \A j \in 1 .. k : Speaks(extracted[j], t) => j = i
          BY <3>4, <3>10, <4>2
        <5>2. Once(a, t)
          BY <2>4, <3>10, <5>1
        <5>3. Silent(b, t)
          BY <3>4, <3>8, <3>10, <4>2
        <5> QED BY <3>3, <5>2, <5>3
      <4> QED BY <4>1, <4>2
    <3> QED BY <3>1, <3>3, <3>7, <3>9, <3>10
  <2>5. Good(n)
    <3> DEFINE S == {k \in 1 .. n : ~Good(k)}
    <3> HIDE DEF Good
    <3> SUFFICES ASSUME S # {} PROVE FALSE
      BY <1>4
    <3>1. PICK k \in S : \A j \in S : k <= j
      <4>1. S \in SUBSET Nat
        OBVIOUS
      <4> HIDE DEF S
      <4> QED BY <4>1, Least
    <3>2. k \in 1 .. n /\ ~Good(k) /\ k # 1
      BY <2>3
    <3>3. k - 1 \in 1 .. n /\ ~(k <= k - 1) /\ (k - 1) + 1 = k
      BY <3>2
    <3>4. Good(k - 1)
      BY <3>1, <3>3
    <3> PICK j \in 1 .. n : j = k - 1 /\ j + 1 = k
      BY <3>3
    <3>5. Good(j + 1)
      BY <2>4, <3>2, <3>4
    <3> QED BY <3>2, <3>5
  <2>6. \A t : Silent(extracted, t) => \A i \in 1 .. n : ~Speaks(extracted[i], t)
    BY <1>1 DEF Silent, ToSet
  <2>7. \A t : Once(extracted, t) =>
          \E i \in 1 .. n : /\ Speaks(extracted[i], t)
                            /\ \A j \in 1 .. n : Speaks(extracted[j], t) => j = i
    BY <1>1 DEF Once
  <2>8. \A i \in 1 .. n : extracted[i] \in ToSet(extracted)
    BY <1>1 DEF ToSet
  <2> QED BY <2>1, <2>5, <2>6, <2>7, <2>8
<1> QED BY <1>3, <1>4

------------------------------------------------------------------------------
(* What the schedulers compute.                                             *)

\* Removing a task leaves a list of tasks.
LEMMA EraseTyped ==
  ASSUME NEW T, angry_list_ \in Seq(T), NEW id
  PROVE  erase_angry_task(id) \in Seq(T)
<1> PICK l, n : l = angry_list_ /\ n = Len(angry_list_)
  OBVIOUS
<1>1. n \in Nat /\ \A i \in 1 .. n : l[i] \in T
  OBVIOUS
<1> DEFINE Next1(x, i) == IF l[i] = id THEN x ELSE Append(x, l[i])
           Step(f, k) == [i \in 0 .. k |-> IF i = 0 THEN <<>>
                                           ELSE IF l[i] = id THEN f[i - 1] ELSE Append(f[i - 1], l[i])]
           Good(k) == \E g : g = Step(g, k)
           kept == CHOOSE f : f = Step(f, n)
<1>2. ASSUME NEW k \in 0 .. n, NEW g, g = Step(g, k) PROVE Good(k + 1)
  <2> DEFINE f == [i \in 0 .. k + 1 |-> IF i = k + 1 THEN Next1(g[k], k + 1) ELSE g[i]]
  <2>1. \A i \in 0 .. k : g[i] = IF i = 0 THEN <<>> ELSE Next1(g[i - 1], i)
    BY <1>2
  <2>2. ASSUME NEW i \in 0 .. k + 1
        PROVE  f[i] = IF i = 0 THEN <<>> ELSE Next1(f[i - 1], i)
    <3>1. CASE i = k + 1
      <4>1. i # 0 /\ i - 1 = k /\ k \in 0 .. k + 1 /\ k # k + 1
        BY <1>1, <3>1
      <4>2. f[i] = Next1(g[k], k + 1) /\ f[k] = g[k]
        BY <3>1, <4>1
      <4> HIDE DEF f, Next1
      <4> QED BY <3>1, <4>1, <4>2
    <3>2. CASE i # k + 1 /\ i # 0
      <4>1. i \in 0 .. k /\ i - 1 \in 0 .. k + 1 /\ i - 1 # k + 1
        BY <1>1, <3>2
      <4>2. f[i] = g[i] /\ f[i - 1] = g[i - 1]
        BY <3>2, <4>1
      <4> HIDE DEF f, Next1
      <4> QED BY <2>1, <3>2, <4>1, <4>2
    <3>3. CASE i = 0
      <4>1. i \in 0 .. k /\ i # k + 1
        BY <1>1, <3>3
      <4>2. f[i] = g[i]
        BY <4>1
      <4> HIDE DEF f, Next1
      <4> QED BY <2>1, <3>3, <4>1, <4>2
    <3> QED BY <3>1, <3>2, <3>3
  <2>3. f = [i \in 0 .. k + 1 |-> f[i]]
    OBVIOUS
  <2> HIDE DEF f
  <2>4. f = Step(f, k + 1)
    BY <2>2, <2>3, Zenon
  <2> QED BY <2>4, Zenon
<1>3. Good(0)
  <2> DEFINE g == [i \in 0 .. 0 |-> <<>>]
  <2>1. g = Step(g, 0)
    OBVIOUS
  <2> HIDE DEF g
  <2> QED BY <2>1, Zenon
<1>4. Good(n)
  <2> DEFINE S == {k \in 0 .. n : ~Good(k)}
  <2> HIDE DEF Good
  <2> SUFFICES ASSUME S # {} PROVE FALSE
    BY <1>1
  <2>1. PICK k \in S : \A j \in S : k <= j
    <3>1. S \in SUBSET Nat
      BY <1>1
    <3> HIDE DEF S
    <3> QED BY <3>1, Least
  <2>2. k \in 0 .. n /\ ~Good(k) /\ k # 0
    BY <1>3
  <2>3. k - 1 \in 0 .. n /\ ~(k <= k - 1) /\ (k - 1) + 1 = k
    BY <1>1, <2>2
  <2>4. Good(k - 1)
    BY <2>1, <2>3
  <2>5. Good((k - 1) + 1)
    <3> PICK j \in 0 .. n : j = k - 1
      BY <2>3
    <3>1. PICK g : g = Step(g, j)
      BY <2>4, Zenon DEF Good
    <3> HIDE DEF Step
    <3>2. Good(j + 1)
      BY <1>2, <3>1
    <3> QED BY <3>2
  <2> QED BY <2>2, <2>3, <2>5
<1>5. kept = Step(kept, n)
  <2> HIDE DEF Step
  <2> QED BY <1>4, Zenon
<1>6. erase_angry_task(id) = kept[n]
  BY DEF erase_angry_task
<1>7. \A i \in 0 .. n : kept[i] = IF i = 0 THEN <<>> ELSE Next1(kept[i - 1], i)
  <2> HIDE DEF kept
  <2> QED BY <1>5
<1> HIDE DEF kept, Step
<1>8. \A i \in 0 .. n : kept[i] \in Seq(T)
  <2> DEFINE S == {i \in 0 .. n : kept[i] \notin Seq(T)}
  <2> SUFFICES ASSUME S # {} PROVE FALSE
    OBVIOUS
  <2>1. PICK k \in S : \A j \in S : k <= j
    <3>1. S \in SUBSET Nat
      BY <1>1
    <3> HIDE DEF S
    <3> QED BY <3>1, Least
  <2>2. k \in 0 .. n /\ kept[k] \notin Seq(T)
    OBVIOUS
  <2>3. k # 0
    <3>1. <<>> \in Seq(T)
      OBVIOUS
    <3> QED BY <1>7, <2>2, <3>1
  <2>4. k - 1 \in 0 .. n /\ ~(k <= k - 1) /\ k \in 1 .. n
    BY <1>1, <2>2, <2>3
  <2>5. kept[k - 1] \in Seq(T) /\ l[k] \in T
    BY <1>1, <2>1, <2>4
  <2>6. Next1(kept[k - 1], k) \in Seq(T)
    BY <2>5
  <2> HIDE DEF Next1, S
  <2> QED BY <1>7, <2>2, <2>3, <2>6
<1> QED BY <1>1, <1>6, <1>8

\* Threads are chosen among the available ones.
LEMMA Selected ==
  ASSUME BooksTyped, NEW id \in TaskIds, NEW threads \in Selections(id)
  PROVE  threads \subseteq available_workers_
<1> PICK A : A = available_workers_
  OBVIOUS
<1>1. \A need : \A S \in Take(A, need) : S \subseteq A
  BY DEF Take
<1>2. \A S \in None : S \subseteq A
  BY DEF None
<1>3. \A n : \A S \in get_workers_per_process(A, n) : S \subseteq A
  BY <1>1, <1>2 DEF get_workers_per_process
<1>4. \A n, p : \A S \in get_workers_exact_process(A, n, p) : S \subseteq A
  BY <1>1, <1>2 DEF get_workers_exact_process
<1>5. \A n : \A S \in get_workers(A, n) : S \subseteq A
  BY <1>2 DEF get_workers, kSubset
<1>6. \A n : \A S \in get_local_workers(A, n) : S \subseteq A
  BY <1>2, <1>4 DEF get_local_workers
<1>7. \A n, procs : \A S \in FirstOf(A, n, procs) : S \subseteq A
  BY <1>2, <1>4 DEF FirstOf
<1>8. \A n, procs : \A S \in Spread(A, n, procs) : S \subseteq A
  BY <1>1, <1>2 DEF Spread
<1> PICK task, epoch : task = Tasks[id] /\ epoch = current_epoch_[id]
  OBVIOUS
<1>9. \A h, procs : \A S \in select_threads_from_subset(task, epoch, A, h, procs) : S \subseteq A
  <2> SUFFICES ASSUME NEW h, NEW procs, NEW S \in select_threads_from_subset(task, epoch, A, h, procs)
               PROVE  S \subseteq A
    OBVIOUS
  <2>1. CASE task.type = "ConfigurableWorkers"
    <3> PICK w : w = WorkerNumOf(task, epoch)
      OBVIOUS
    <3>1. w \in WorkerNum
      <4>1. task.worker_num \in Seq(WorkerNum) /\ task.worker_num # <<>>
        BY <2>1, SchedulerAssumption
      <4>2. PICK len \in Nat : len = Len(task.worker_num) /\ len # 0
        BY <4>1
      <4>3. epoch \in Nat
        BY DEF BooksTyped
      <4>4. (epoch % len) + 1 \in 1 .. len
        BY <4>2, <4>3
      <4> QED BY <4>1, <4>2, <4>4 DEF WorkerNumOf
    <3>2. w.type \in {"threads_per_worker", "threads_per_cluster", "local_threads",
                      "threads_traverse_cluster", "threads_on_worker"}
      BY <3>1 DEF WorkerNum
    <3>3. \/ S \in get_workers_per_process(A, w.num)
          \/ S \in get_workers(A, w.num)
          \/ S \in get_local_workers(A, w.num)
          \/ S \in get_traverse_workers(A, w.num, h)
          \/ S \in get_workers_exact_process(A, w.num, w.on)
      BY <2>1, <3>2 DEF select_threads_from_subset
    <3> QED BY <1>3, <1>4, <1>5, <1>6, <1>7, <3>3 DEF get_traverse_workers
  <2>2. CASE task.type # "ConfigurableWorkers"
    BY <1>7, <1>8, <2>2 DEF select_threads_from_subset
  <2> QED BY <2>1, <2>2
<1>10. CASE IsAuto(id)
  BY <1>3, <1>10 DEF Selections
<1>11. CASE ~IsAuto(id)
  <2>1. threads \in select_threads_from_subset(task, epoch, A, history_[id], candidate_proc(id))
    BY <1>11 DEF Selections
  <2> QED BY <1>9, <2>1
<1> QED BY <1>10, <1>11

------------------------------------------------------------------------------
(* The places of a thread.                                                  *)

LEMMA NotBoth ==
  ASSUME NEW seq, NEW t, Once(seq, t)
  PROVE  ~Silent(seq, t)
BY DEF Once, Silent, ToSet

\* A thread stays where it is when no message about it comes or goes.
LEMMA Stays ==
  ASSUME NEW t, NEW free, NEW busy, NEW u, NEW c, NEW g, NEW u1, NEW c1, NEW g1,
         AtOnePlace(t, free, u, c, busy, g),
         Silent(u, t) => Silent(u1, t), Once(u, t) => Once(u1, t),
         Silent(c, t) => Silent(c1, t), Once(c, t) => Once(c1, t),
         Silent(g, t) => Silent(g1, t), Once(g, t) => Once(g1, t)
  PROVE  AtOnePlace(t, free, u1, c1, busy, g1)
BY DEF AtOnePlace

LEMMA EmptyFacts ==
  /\ <<>> \in Seq(ToSet(<<>>)) /\ ToSet(<<>>) = {}
  /\ \A t : Silent(<<>>, t) /\ ~Once(<<>>, t)
<1>1. DOMAIN <<>> = {} /\ <<>> \in Seq({})
  OBVIOUS
<1>2. ToSet(<<>>) = {}
  BY <1>1 DEF ToSet
<1> QED BY <1>1, <1>2 DEF Silent, Once

\* OnePlace and Booked, one thread and the new state.
LEMMA PlacesNext ==
  ASSUME \A t \in Threads :
           AtOnePlace(t, t \in available_workers_', extracted', toWorker'[get_process_id(t)],
                      units_'[t] # Free, toManager'[get_process_id(t)])
  PROVE  OnePlace'
BY DEF OnePlace

LEMMA BooksNext ==
  ASSUME \A t \in Threads :
           /\ \A id \in TaskIds : t \in task_id_pid_tids_'[id] => t \notin available_workers_'
           /\ \A id, other \in TaskIds :
                t \in task_id_pid_tids_'[id] /\ t \in task_id_pid_tids_'[other] => id = other
           /\ \A m \in ToSet(extracted') \cup ToSet(toWorker'[get_process_id(t)])
                         \cup ToSet(toManager'[get_process_id(t)]) :
                Speaks(m, t) => t \in task_id_pid_tids_'[m.task]
           /\ units_'[t] # Free => t \in task_id_pid_tids_'[units_'[t].task]
  PROVE  Booked'
BY DEF Booked, NamedIn

LEMMA BooksNow ==
  ASSUME Booked, NEW t \in Threads
  PROVE  /\ \A id \in TaskIds : t \in task_id_pid_tids_[id] => t \notin available_workers_
         /\ \A id, other \in TaskIds :
              t \in task_id_pid_tids_[id] /\ t \in task_id_pid_tids_[other] => id = other
         /\ \A m \in ToSet(extracted) \cup ToSet(toWorker[get_process_id(t)])
                       \cup ToSet(toManager[get_process_id(t)]) :
              Speaks(m, t) => t \in task_id_pid_tids_[m.task]
         /\ units_[t] # Free => t \in task_id_pid_tids_[units_[t].task]
BY DEF Booked, NamedIn

LEMMA InitialInv == Init => Inv
<1> SUFFICES ASSUME Init PROVE Inv
  OBVIOUS
<1>1. BooksTyped
  BY SchedulerAssumption DEF Init, BooksTyped
<1>2. MessagesFormed
  BY EmptyFacts DEF Init, MessagesFormed
<1>3. UnitsFormed
  BY DEF Init, UnitsFormed
<1>4. FirstRuns
  BY DEF Init, FirstRuns
<1>5. \A t \in Threads : get_process_id(t) \in Procs
  BY DEF Threads, get_process_id
<1>6. OnePlace
  BY <1>5, EmptyFacts DEF Init, OnePlace, AtOnePlace
<1>7. Booked
  BY <1>5, EmptyFacts DEF Init, Booked, NamedIn
<1> QED BY <1>1, <1>2, <1>3, <1>4, <1>6, <1>7 DEF Inv

\* The steps that leave the threads, the messages and the books alone.
LEMMA Unmoved ==
  ASSUME Inv, UNCHANGED <<task_scheduler_, task_id_pid_tids_, available_workers_, extracted,
                          units_, toManager, toWorker>>
  PROVE  MessagesFormed' /\ UnitsFormed' /\ OnePlace' /\ Booked'
<1>1. MessagesFormed'
  BY DEF Inv, MessagesFormed
<1>2. UnitsFormed'
  BY DEF Inv, UnitsFormed
<1>3. OnePlace'
  BY DEF Inv, OnePlace
<1>4. Booked'
  BY DEF Inv, Booked, NamedIn
<1> QED BY <1>1, <1>2, <1>3, <1>4

\* The steps of the processes leave the books of the manager alone.
LEMMA ManagerUnmoved ==
  ASSUME Inv, UNCHANGED manager
  PROVE  /\ UNCHANGED <<task_scheduler_, task_id_pid_tids_, available_workers_, extracted>>
         /\ FirstRuns'
         /\ round' \in [Procs -> Nat] => BooksTyped'
<1>1. UNCHANGED <<task_scheduler_, task_id_pid_tids_, available_workers_, extracted, tasks_,
                  todo, angry_list_, current_epoch_, cm_pc>>
  BY DEF manager, scheduler
<1>2. FirstRuns'
  BY <1>1 DEF Inv, FirstRuns, Sequential, Priority
<1>3. round' \in [Procs -> Nat] => BooksTyped'
  BY <1>1 DEF Inv, BooksTyped
<1> QED BY <1>1, <1>2, <1>3

LEMMA ProcOf ==
  ASSUME NEW t \in Threads
  PROVE  get_process_id(t) \in Procs
BY DEF Threads, get_process_id

\* A process sends a message that is about no thread.
LEMMA SendsOther ==
  ASSUME Inv, NEW p \in Procs, NEW m, m.type \in {"Init", "Exit"},
         m.type = "Init" => m.round \in DOMAIN Rounds[task_scheduler_],
         DOMAIN toManager' = Procs, toManager'[p] = Append(toManager[p], m),
         \A q \in Procs : q # p => toManager'[q] = toManager[q],
         UNCHANGED <<task_scheduler_, task_id_pid_tids_, available_workers_, extracted,
                     units_, toWorker>>
  PROVE  MessagesFormed' /\ UnitsFormed' /\ OnePlace' /\ Booked'
<1> PICK s : s = toManager[p]
  OBVIOUS
<1> PICK a : a = Append(s, m)
  OBVIOUS
<1>1. /\ s \in Seq(ToSet(s)) /\ DOMAIN toManager = Procs /\ DOMAIN toManager' = Procs
      /\ toManager'[p] = a /\ \A q \in Procs : q # p => toManager'[q] = toManager[q]
  BY DEF Inv, MessagesFormed
<1>2. \A t : ~Speaks(m, t)
  BY DEF Speaks
<1>3. /\ a \in Seq(ToSet(a)) /\ ToSet(a) = ToSet(s) \cup {m}
      /\ \A t : /\ Silent(s, t) => Silent(a, t)
                /\ Once(s, t) => Once(a, t)
  BY <1>1, <1>2, AppendFacts
<1>4. MessagesFormed'
  <2>1. toWorker' = toWorker /\ task_scheduler_' = task_scheduler_
    OBVIOUS
  <2>2. \A q \in Procs :
          /\ toManager'[q] \in Seq(ToSet(toManager'[q]))
          /\ \A n \in ToSet(toManager'[q]) : n = m \/ n \in ToSet(toManager[q])
    <3>1. \A q \in Procs : toManager[q] \in Seq(ToSet(toManager[q]))
      BY DEF Inv, MessagesFormed
    <3>2. \A n \in ToSet(a) : n = m \/ n \in ToSet(toManager[p])
      BY <1>3
    <3> QED BY <1>1, <1>3, <3>1, <3>2
  <2>3. /\ m.type \in {"Init", "ThreadFinished", "Exit"} /\ m.type # "ThreadFinished"
        /\ m.type = "Init" => m.round \in DOMAIN Rounds[task_scheduler_]
    OBVIOUS
  <2> QED BY <1>1, <2>1, <2>2, <2>3 DEF Inv, MessagesFormed
<1>5. UnitsFormed'
  BY DEF Inv, UnitsFormed
<1>6. OnePlace'
  <2> SUFFICES ASSUME NEW t \in Threads
               PROVE  AtOnePlace(t, t \in available_workers_', extracted',
                                 toWorker'[get_process_id(t)], units_'[t] # Free,
                                 toManager'[get_process_id(t)])
    BY PlacesNext
  <2> PICK q \in Procs : q = get_process_id(t)
    BY ProcOf
  <2>1. AtOnePlace(t, t \in available_workers_, extracted, toWorker[q], units_[t] # Free,
                   toManager[q])
    BY DEF Inv, OnePlace
  <2>2. /\ Silent(toManager[q], t) => Silent(toManager'[q], t)
        /\ Once(toManager[q], t) => Once(toManager'[q], t)
    BY <1>1, <1>3
  <2>3. AtOnePlace(t, t \in available_workers_, extracted, toWorker[q], units_[t] # Free,
                   toManager'[q])
    BY <2>1, <2>2, Stays
  <2> QED BY <2>3
<1>7. Booked'
  <2>1. ASSUME NEW t \in Threads, NEW x \in ToSet(toManager'[get_process_id(t)]), Speaks(x, t)
        PROVE  x \in ToSet(toManager[get_process_id(t)])
    BY <1>1, <1>2, <1>3, <2>1, ProcOf
  <2> QED BY <2>1 DEF Inv, Booked, NamedIn
<1> QED BY <1>4, <1>5, <1>6, <1>7

LEMMA SubmitInv ==
  ASSUME Inv, NEW p \in Procs, Submit(p)
  PROVE  Inv'
<1>1. UNCHANGED <<manager, units_, toWorker>>
  BY DEF Submit
<1>2. UNCHANGED <<task_scheduler_, task_id_pid_tids_, available_workers_, extracted>> /\ FirstRuns'
  BY <1>1, ManagerUnmoved
<1>3. round[p] \in Nat /\ round' = [round EXCEPT ![p] = @ + 1] /\ round' \in [Procs -> Nat]
  BY DEF Inv, BooksTyped, Submit
<1>4. BooksTyped'
  BY <1>1, <1>3, ManagerUnmoved
<1> PICK n : n = round[p] + 1
  OBVIOUS
<1>5. n \in DOMAIN Rounds[task_scheduler_]
  <2>1. Rounds[task_scheduler_] \in Seq(Seq(TaskIds))
    BY ClusterAssumption DEF Inv, BooksTyped
  <2> QED BY <1>3, <2>1 DEF Submit
<1>6. MessagesFormed' /\ UnitsFormed' /\ OnePlace' /\ Booked'
  <2>1. CASE p = 0
    <3> PICK m : m = InitMessage(n)
      OBVIOUS
    <3>1. m.type = "Init" /\ m.round = n
      BY DEF InitMessage
    <3>2. /\ DOMAIN toManager' = Procs /\ toManager'[p] = Append(toManager[p], m)
          /\ \A q \in Procs : q # p => toManager'[q] = toManager[q]
      BY <2>1 DEF Submit, Inv, MessagesFormed
    <3>3. m.type \in {"Init", "Exit"} /\ (m.type = "Init" => m.round \in DOMAIN Rounds[task_scheduler_])
      BY <1>5, <3>1
    <3>4. UNCHANGED <<task_scheduler_, task_id_pid_tids_, available_workers_, extracted,
                      units_, toWorker>>
      BY <1>1, <1>2
    <3> QED BY <3>2, <3>3, <3>4, SendsOther
  <2>2. CASE p # 0
    <3>1. UNCHANGED toManager
      BY <2>2 DEF Submit
    <3> QED BY <1>1, <1>2, <3>1, Unmoved
  <2> QED BY <2>1, <2>2
<1> QED BY <1>2, <1>4, <1>6 DEF Inv

LEMMA ExitInv ==
  ASSUME Inv, NEW p \in Procs, Exit(p)
  PROVE  Inv'
<1>1. UNCHANGED <<manager, units_, toWorker, round>>
  BY DEF Exit
<1>2. UNCHANGED <<task_scheduler_, task_id_pid_tids_, available_workers_, extracted>> /\ FirstRuns'
  BY <1>1, ManagerUnmoved
<1>3. BooksTyped'
  BY <1>1, ManagerUnmoved DEF Inv, BooksTyped
<1>4. MessagesFormed' /\ UnitsFormed' /\ OnePlace' /\ Booked'
  <2>1. CASE p = 0
    <3> PICK m : m = ExitMessage
      OBVIOUS
    <3>1. m.type = "Exit"
      BY DEF ExitMessage
    <3>2. /\ DOMAIN toManager' = Procs /\ toManager'[p] = Append(toManager[p], m)
          /\ \A q \in Procs : q # p => toManager'[q] = toManager[q]
      BY <2>1 DEF Exit, Inv, MessagesFormed
    <3>3. m.type \in {"Init", "Exit"} /\ (m.type = "Init" => m.round \in DOMAIN Rounds[task_scheduler_])
      BY <3>1
    <3>4. UNCHANGED <<task_scheduler_, task_id_pid_tids_, available_workers_, extracted,
                      units_, toWorker>>
      BY <1>1, <1>2
    <3> QED BY <3>2, <3>3, <3>4, SendsOther
  <2>2. CASE p # 0
    <3>1. UNCHANGED toManager
      BY <2>2 DEF Exit
    <3> QED BY <1>1, <1>2, <3>1, Unmoved
  <2> QED BY <2>1, <2>2
<1> QED BY <1>2, <1>3, <1>4 DEF Inv

\* A process takes a message that is about no thread.
LEMMA TakesOther ==
  ASSUME Inv, NEW p \in Procs, toWorker[p] # <<>>,
         Head(toWorker[p]).type \in {"DirectTransferModel", "Finished"},
         DOMAIN toWorker' = Procs, toWorker'[p] = Tail(toWorker[p]),
         \A q \in Procs : q # p => toWorker'[q] = toWorker[q],
         UNCHANGED <<task_scheduler_, task_id_pid_tids_, available_workers_, extracted,
                     units_, toManager>>
  PROVE  MessagesFormed' /\ UnitsFormed' /\ OnePlace' /\ Booked'
<1> PICK s : s = toWorker[p]
  OBVIOUS
<1> PICK a : a = Tail(s)
  OBVIOUS
<1>1. s \in Seq(ToSet(s)) /\ s # <<>>
  BY DEF Inv, MessagesFormed
<1>2. \A t : ~Speaks(Head(s), t)
  BY DEF Speaks
<1>3. /\ a \in Seq(ToSet(a)) /\ ToSet(a) \subseteq ToSet(s)
      /\ \A t : /\ Silent(s, t) => Silent(a, t)
                /\ Once(s, t) => Once(a, t)
  BY <1>1, <1>2, TailFacts
<1>4. MessagesFormed'
  BY <1>1, <1>3 DEF Inv, MessagesFormed
<1>5. UnitsFormed'
  BY DEF Inv, UnitsFormed
<1>6. OnePlace'
  <2> SUFFICES ASSUME NEW t \in Threads
               PROVE  AtOnePlace(t, t \in available_workers_', extracted',
                                 toWorker'[get_process_id(t)], units_'[t] # Free,
                                 toManager'[get_process_id(t)])
    BY PlacesNext
  <2> PICK q \in Procs : q = get_process_id(t)
    BY ProcOf
  <2>1. AtOnePlace(t, t \in available_workers_, extracted, toWorker[q], units_[t] # Free,
                   toManager[q])
    BY DEF Inv, OnePlace
  <2>2. /\ Silent(toWorker[q], t) => Silent(toWorker'[q], t)
        /\ Once(toWorker[q], t) => Once(toWorker'[q], t)
    BY <1>3
  <2>3. AtOnePlace(t, t \in available_workers_, extracted, toWorker'[q], units_[t] # Free,
                   toManager[q])
    BY <2>1, <2>2, Stays
  <2> QED BY <2>3
<1>7. Booked'
  <2>1. ASSUME NEW t \in Threads, NEW x \in ToSet(toWorker'[get_process_id(t)])
        PROVE  x \in ToSet(toWorker[get_process_id(t)])
    BY <1>3, ProcOf
  <2> QED BY <2>1 DEF Inv, Booked, NamedIn
<1> QED BY <1>4, <1>5, <1>6, <1>7

LEMMA SendTaskInv ==
  ASSUME Inv, NEW p \in Procs, SendTask(p)
  PROVE  Inv'
<1>1. UNCHANGED <<manager, units_, toManager, round>>
  BY DEF SendTask
<1>2. UNCHANGED <<task_scheduler_, task_id_pid_tids_, available_workers_, extracted>> /\ FirstRuns'
  BY <1>1, ManagerUnmoved
<1>3. BooksTyped'
  BY <1>1, ManagerUnmoved DEF Inv, BooksTyped
<1>4. /\ toWorker[p] # <<>> /\ Head(toWorker[p]).type \in {"DirectTransferModel", "Finished"}
      /\ DOMAIN toWorker' = Procs /\ toWorker'[p] = Tail(toWorker[p])
      /\ \A q \in Procs : q # p => toWorker'[q] = toWorker[q]
  BY DEF SendTask, Arrived, Inv, MessagesFormed
<1>5. MessagesFormed' /\ UnitsFormed' /\ OnePlace' /\ Booked'
  BY <1>1, <1>2, <1>4, TakesOther
<1> QED BY <1>2, <1>3, <1>5 DEF Inv

LEMMA LeaveLoopInv ==
  ASSUME Inv, NEW p \in Procs, LeaveLoop(p)
  PROVE  Inv'
<1>1. UNCHANGED <<manager, units_, toManager, round>>
  BY DEF LeaveLoop
<1>2. UNCHANGED <<task_scheduler_, task_id_pid_tids_, available_workers_, extracted>> /\ FirstRuns'
  BY <1>1, ManagerUnmoved
<1>3. BooksTyped'
  BY <1>1, ManagerUnmoved DEF Inv, BooksTyped
<1>4. /\ toWorker[p] # <<>> /\ Head(toWorker[p]).type \in {"DirectTransferModel", "Finished"}
      /\ DOMAIN toWorker' = Procs /\ toWorker'[p] = Tail(toWorker[p])
      /\ \A q \in Procs : q # p => toWorker'[q] = toWorker[q]
  BY DEF LeaveLoop, Arrived, Inv, MessagesFormed
<1>5. MessagesFormed' /\ UnitsFormed' /\ OnePlace' /\ Booked'
  BY <1>1, <1>2, <1>4, TakesOther
<1> QED BY <1>2, <1>3, <1>5 DEF Inv

LEMMA TransferModelInv ==
  ASSUME Inv, NEW p \in Procs, TransferModel(p)
  PROVE  Inv'
<1>1. UNCHANGED <<manager, units_, toManager, toWorker, round>>
  BY DEF TransferModel
<1>2. UNCHANGED <<task_scheduler_, task_id_pid_tids_, available_workers_, extracted>> /\ FirstRuns'
  BY <1>1, ManagerUnmoved
<1>3. BooksTyped'
  BY <1>1, ManagerUnmoved DEF Inv, BooksTyped
<1> QED BY <1>1, <1>2, <1>3, Unmoved DEF Inv

LEMMA RemoveInstanceInv ==
  ASSUME Inv, NEW p \in Procs, RemoveInstance(p)
  PROVE  Inv'
<1>1. UNCHANGED <<manager, units_, toManager, toWorker, round>>
  BY DEF RemoveInstance
<1>2. UNCHANGED <<task_scheduler_, task_id_pid_tids_, available_workers_, extracted>> /\ FirstRuns'
  BY <1>1, ManagerUnmoved
<1>3. BooksTyped'
  BY <1>1, ManagerUnmoved DEF Inv, BooksTyped
<1> QED BY <1>1, <1>2, <1>3, Unmoved DEF Inv

\* The thread has run: it is still a busy one.
LEMMA ThreadEndsInv ==
  ASSUME Inv, NEW t \in Threads, ThreadEnds(t)
  PROVE  Inv'
<1>1. UNCHANGED <<manager, toManager, toWorker, round>>
  BY DEF ThreadEnds
<1>2. UNCHANGED <<task_scheduler_, task_id_pid_tids_, available_workers_, extracted>> /\ FirstRuns'
  BY <1>1, ManagerUnmoved
<1>3. BooksTyped'
  BY <1>1, ManagerUnmoved DEF Inv, BooksTyped
<1>4. /\ units_[t] # Free /\ units_[t].task \in TaskIds /\ DOMAIN units_[t] = DOMAIN Free
  BY DEF ThreadEnds, Free, Inv, UnitsFormed
<1>5. /\ units_' = [units_ EXCEPT ![t].done = TRUE] /\ DOMAIN units_ = Threads
  BY DEF ThreadEnds, Inv, UnitsFormed
<1>6. /\ DOMAIN units_' = Threads
      /\ \A o \in Threads : o # t => units_'[o] = units_[o]
      /\ units_'[t].task = units_[t].task /\ DOMAIN units_'[t] = DOMAIN units_[t]
  BY <1>4, <1>5 DEF Free
<1>7. units_'[t] # Free
  <2>1. Free.task \notin TaskIds
    BY ClusterAssumption DEF Free
  <2> QED BY <1>4, <1>6, <2>1
<1>8. \A o \in Threads : (units_'[o] # Free) = (units_[o] # Free) /\ units_'[o].task = units_[o].task
  BY <1>4, <1>6, <1>7
<1>9. UnitsFormed'
  BY <1>4, <1>6, <1>8 DEF Inv, UnitsFormed
<1>10. MessagesFormed'
  BY <1>1, <1>2 DEF Inv, MessagesFormed
<1>11. OnePlace'
  BY <1>1, <1>2, <1>8 DEF Inv, OnePlace, AtOnePlace
<1>12. Booked'
  BY <1>1, <1>2, <1>8 DEF Inv, Booked, NamedIn
<1> QED BY <1>2, <1>3, <1>9, <1>10, <1>11, <1>12 DEF Inv

\* The process joins the thread and tells the manager: from busy to reported.
LEMMA WorkerFinishThreadInv ==
  ASSUME Inv, NEW t \in Threads, WorkerFinishThread(t)
  PROVE  Inv'
<1> PICK p \in Procs : p = get_process_id(t)
  BY ProcOf
<1> PICK id, m : id = units_[t].task /\ m = ThreadFinished(id, t)
  OBVIOUS
<1>1. UNCHANGED <<manager, toWorker, round>>
  BY DEF WorkerFinishThread
<1>2. UNCHANGED <<task_scheduler_, task_id_pid_tids_, available_workers_, extracted>> /\ FirstRuns'
  BY <1>1, ManagerUnmoved
<1>3. BooksTyped'
  BY <1>1, ManagerUnmoved DEF Inv, BooksTyped
<1>4. units_[t] # Free /\ id \in TaskIds
  BY DEF WorkerFinishThread, Inv, UnitsFormed
<1>5. t \in task_id_pid_tids_[id]
  BY <1>4 DEF Inv, Booked
<1>6. /\ DOMAIN units_' = Threads /\ units_'[t] = Free
      /\ \A o \in Threads : o # t => units_'[o] = units_[o]
  BY DEF WorkerFinishThread, Inv, UnitsFormed
<1> PICK s, a : s = toManager[p] /\ a = Append(s, m)
  OBVIOUS
<1>7. /\ s \in Seq(ToSet(s)) /\ DOMAIN toManager' = Procs
      /\ toManager'[p] = a /\ \A q \in Procs : q # p => toManager'[q] = toManager[q]
  BY DEF WorkerFinishThread, Inv, MessagesFormed
<1>8. m.type = "ThreadFinished" /\ m.task = id /\ m.thread = t /\ \A o : Speaks(m, o) <=> o = t
  BY DEF ThreadFinished, Speaks
<1>9. /\ a \in Seq(ToSet(a)) /\ ToSet(a) = ToSet(s) \cup {m}
      /\ \A o : o # t => /\ Silent(s, o) => Silent(a, o)
                         /\ Once(s, o) => Once(a, o)
      /\ Silent(s, t) => Once(a, t)
  BY <1>7, <1>8, AppendFacts
<1>10. UnitsFormed'
  BY <1>6 DEF Inv, UnitsFormed
<1>11. MessagesFormed'
  <2> DEFINE Formed(q, x) ==
        /\ x.type \in {"Init", "ThreadFinished", "Exit"}
        /\ x.type = "Init" => x.round \in DOMAIN Rounds[task_scheduler_]
        /\ x.type = "ThreadFinished" =>
             x.task \in TaskIds /\ x.thread \in Threads /\ get_process_id(x.thread) = q
  <2>1. \A q \in Procs : toManager[q] \in Seq(ToSet(toManager[q])) /\ \A x \in ToSet(toManager[q]) : Formed(q, x)
    BY DEF Inv, MessagesFormed
  <2>2. Formed(p, m)
    BY <1>4, <1>8
  <2> HIDE DEF Formed
  <2>3. \A q \in Procs : toManager'[q] \in Seq(ToSet(toManager'[q])) /\ \A x \in ToSet(toManager'[q]) : Formed(q, x)
    BY <1>7, <1>9, <2>1, <2>2
  <2> USE DEF Formed
  <2> QED BY <1>1, <1>2, <1>7, <2>3 DEF Inv, MessagesFormed
<1>12. OnePlace'
  <2> SUFFICES ASSUME NEW o \in Threads
               PROVE  AtOnePlace(o, o \in available_workers_', extracted',
                                 toWorker'[get_process_id(o)], units_'[o] # Free,
                                 toManager'[get_process_id(o)])
    BY PlacesNext
  <2> PICK q \in Procs : q = get_process_id(o)
    BY ProcOf
  <2>1. AtOnePlace(o, o \in available_workers_, extracted, toWorker[q], units_[o] # Free,
                   toManager[q])
    BY DEF Inv, OnePlace
  <2>2. CASE o = t
    <3>1. AtOnePlace(t, t \in available_workers_, extracted, toWorker[p], FALSE, a)
      BY <1>4, <1>9, <2>1, <2>2 DEF AtOnePlace
    <3> QED BY <1>1, <1>2, <1>6, <1>7, <2>2, <3>1 DEF AtOnePlace
  <2>3. CASE o # t
    <3>1. /\ Silent(toManager[q], o) => Silent(toManager'[q], o)
          /\ Once(toManager[q], o) => Once(toManager'[q], o)
      BY <1>7, <1>9, <2>3
    <3>2. AtOnePlace(o, o \in available_workers_, extracted, toWorker[q], units_[o] # Free,
                     toManager'[q])
      BY <2>1, <3>1, Stays
    <3> QED BY <1>1, <1>2, <1>6, <2>3, <3>2
  <2> QED BY <2>2, <2>3
<1>13. Booked'
  <2>1. ASSUME NEW o \in Threads, NEW x \in ToSet(toManager'[get_process_id(o)]), Speaks(x, o)
        PROVE  x \in ToSet(toManager[get_process_id(o)]) \/ (x = m /\ o = t)
    BY <1>7, <1>8, <1>9, <2>1, ProcOf
  <2>2. ASSUME NEW o \in Threads, NEW x \in ToSet(toManager'[get_process_id(o)]), Speaks(x, o)
        PROVE  o \in task_id_pid_tids_[x.task]
    BY <1>5, <1>8, <2>1, <2>2 DEF Inv, Booked, NamedIn
  <2>3. \A o \in Threads : units_'[o] # Free => units_[o] # Free /\ units_'[o] = units_[o]
    BY <1>6
  <2> QED BY <1>1, <1>2, <2>2, <2>3 DEF Inv, Booked, NamedIn
<1> QED BY <1>2, <1>3, <1>10, <1>11, <1>12, <1>13 DEF Inv

\* The process starts the local threads of an instance: from on the way to busy.
LEMMA run_instanceInv ==
  ASSUME Inv, NEW p \in Procs, run_instance(p)
  PROVE  Inv'
<1> PICK s, a, m : s = toWorker[p] /\ a = Tail(s) /\ m = Head(s)
  OBVIOUS
<1> DEFINE mine == Local(m.cluster, p)
<1>1. UNCHANGED <<manager, toManager, round>>
  BY DEF run_instance
<1>2. UNCHANGED <<task_scheduler_, task_id_pid_tids_, available_workers_, extracted>> /\ FirstRuns'
  BY <1>1, ManagerUnmoved
<1>3. BooksTyped'
  BY <1>1, ManagerUnmoved DEF Inv, BooksTyped
<1>4. /\ s # <<>> /\ m.type = "Task" /\ s \in Seq(ToSet(s)) /\ DOMAIN toWorker' = Procs
      /\ toWorker'[p] = a /\ \A q \in Procs : q # p => toWorker'[q] = toWorker[q]
  BY DEF run_instance, Arrived, Inv, MessagesFormed
<1>5. /\ a \in Seq(ToSet(a)) /\ ToSet(a) \subseteq ToSet(s) /\ m \in ToSet(s)
      /\ \A t : /\ Silent(s, t) => Silent(a, t)
                /\ Once(s, t) /\ ~Speaks(m, t) => Once(a, t)
                /\ Once(s, t) /\ Speaks(m, t) => Silent(a, t)
  BY <1>4, TailFacts
<1>6. m.task \in TaskIds
  BY <1>4, <1>5 DEF Inv, MessagesFormed
<1>7. \A t : Speaks(m, t) <=> t \in m.cluster
  BY <1>4 DEF Speaks
<1>8. \A t \in Threads : t \in mine <=> Speaks(m, t) /\ get_process_id(t) = p
  BY <1>7 DEF Local
<1> HIDE DEF mine
<1>9. /\ DOMAIN units_' = Threads
      /\ \A t \in Threads :
           units_'[t] = IF t \in mine
                        THEN [task |-> m.task, epoch |-> m.epoch, done |-> FALSE,
                              runs |-> IF IsAuto(m.task) /\ t # Leader(m.cluster) THEN 0 ELSE m.iters]
                        ELSE units_[t]
  BY DEF run_instance, mine
<1>10. \A t \in Threads :
         /\ t \in mine => /\ units_'[t] # Free /\ units_'[t].task = m.task
                          /\ DOMAIN units_'[t] = DOMAIN Free
         /\ t \notin mine => units_'[t] = units_[t]
  <2>1. \A t \in Threads : t \in mine => units_'[t].task = m.task /\ DOMAIN units_'[t] = DOMAIN Free
    BY <1>9 DEF Free
  <2>2. Free.task \notin TaskIds
    BY ClusterAssumption DEF Free
  <2> QED BY <1>6, <1>9, <2>1, <2>2
<1>11. UnitsFormed'
  BY <1>6, <1>9, <1>10 DEF Inv, UnitsFormed
<1>12. MessagesFormed'
  BY <1>1, <1>2, <1>4, <1>5 DEF Inv, MessagesFormed
<1>13. OnePlace'
  <2> SUFFICES ASSUME NEW t \in Threads
               PROVE  AtOnePlace(t, t \in available_workers_', extracted',
                                 toWorker'[get_process_id(t)], units_'[t] # Free,
                                 toManager'[get_process_id(t)])
    BY PlacesNext
  <2> PICK q \in Procs : q = get_process_id(t)
    BY ProcOf
  <2>1. AtOnePlace(t, t \in available_workers_, extracted, toWorker[q], units_[t] # Free,
                   toManager[q])
    BY DEF Inv, OnePlace
  <2>2. CASE t \in mine
    <3>1. q = p /\ Speaks(m, t) /\ ~Silent(s, t)
      BY <1>5, <1>8, <2>2 DEF Silent
    <3>2. AtOnePlace(t, t \in available_workers_, extracted, a, TRUE, toManager[q])
      BY <1>5, <2>1, <3>1 DEF AtOnePlace
    <3> QED BY <1>1, <1>2, <1>4, <1>10, <2>2, <3>1, <3>2 DEF AtOnePlace
  <2>3. CASE t \notin mine
    <3>1. /\ Silent(toWorker[q], t) => Silent(toWorker'[q], t)
          /\ Once(toWorker[q], t) => Once(toWorker'[q], t)
      BY <1>4, <1>5, <1>8, <2>3
    <3>2. AtOnePlace(t, t \in available_workers_, extracted, toWorker'[q], units_[t] # Free,
                     toManager[q])
      BY <2>1, <3>1, Stays
    <3> QED BY <1>1, <1>2, <1>10, <2>3, <3>2
  <2> QED BY <2>2, <2>3
<1>14. Booked'
  <2>1. ASSUME NEW t \in Threads, NEW x \in ToSet(toWorker'[get_process_id(t)])
        PROVE  x \in ToSet(toWorker[get_process_id(t)])
    BY <1>4, <1>5, ProcOf
  <2>2. \A t \in Threads : t \in mine => t \in task_id_pid_tids_[m.task]
    BY <1>5, <1>8 DEF Inv, Booked, NamedIn
  <2>3. \A t \in Threads : units_'[t] # Free => t \in task_id_pid_tids_[units_'[t].task]
    BY <1>10, <2>2 DEF Inv, Booked
  <2> QED BY <1>1, <1>2, <2>1, <2>3 DEF Inv, Booked, NamedIn
<1> QED BY <1>2, <1>3, <1>11, <1>12, <1>13, <1>14 DEF Inv

\* The manager takes a message that is about no thread.
LEMMA ReceivesOther ==
  ASSUME Inv, NEW p \in Procs, NEW type \in {"Init", "Exit"}, Received(p, type),
         UNCHANGED <<task_scheduler_, task_id_pid_tids_, available_workers_, extracted,
                     units_, toWorker>>
  PROVE  MessagesFormed' /\ UnitsFormed' /\ OnePlace' /\ Booked'
<1> PICK s : s = toManager[p]
  OBVIOUS
<1> PICK a : a = Tail(s)
  OBVIOUS
<1>1. /\ s \in Seq(ToSet(s)) /\ s # <<>> /\ Head(s).type = type /\ DOMAIN toManager' = Procs
      /\ toManager'[p] = a /\ \A q \in Procs : q # p => toManager'[q] = toManager[q]
  BY DEF Received, Inv, MessagesFormed
<1>2. \A t : ~Speaks(Head(s), t)
  BY <1>1 DEF Speaks
<1>3. /\ a \in Seq(ToSet(a)) /\ ToSet(a) \subseteq ToSet(s)
      /\ \A t : /\ Silent(s, t) => Silent(a, t)
                /\ Once(s, t) => Once(a, t)
  BY <1>1, <1>2, TailFacts
<1>4. MessagesFormed'
  BY <1>1, <1>3 DEF Inv, MessagesFormed
<1>5. UnitsFormed'
  BY DEF Inv, UnitsFormed
<1>6. OnePlace'
  <2> SUFFICES ASSUME NEW t \in Threads
               PROVE  AtOnePlace(t, t \in available_workers_', extracted',
                                 toWorker'[get_process_id(t)], units_'[t] # Free,
                                 toManager'[get_process_id(t)])
    BY PlacesNext
  <2> PICK q \in Procs : q = get_process_id(t)
    BY ProcOf
  <2>1. AtOnePlace(t, t \in available_workers_, extracted, toWorker[q], units_[t] # Free,
                   toManager[q])
    BY DEF Inv, OnePlace
  <2>2. /\ Silent(toManager[q], t) => Silent(toManager'[q], t)
        /\ Once(toManager[q], t) => Once(toManager'[q], t)
    BY <1>1, <1>3
  <2>3. AtOnePlace(t, t \in available_workers_, extracted, toWorker[q], units_[t] # Free,
                   toManager'[q])
    BY <2>1, <2>2, Stays
  <2> QED BY <2>3
<1>7. Booked'
  <2>1. ASSUME NEW t \in Threads, NEW x \in ToSet(toManager'[get_process_id(t)])
        PROVE  x \in ToSet(toManager[get_process_id(t)])
    BY <1>1, <1>3, ProcOf
  <2> QED BY <2>1 DEF Inv, Booked, NamedIn
<1> QED BY <1>4, <1>5, <1>6, <1>7

\* New tasks come after those in the queue of the sequential schedulers.
LEMMA ReceiveTasksInv ==
  ASSUME Inv, NEW p \in Procs, ReceiveTasks(p)
  PROVE  Inv'
<1> PICK ids : ids = Rounds[task_scheduler_][Head(toManager[p]).round]
  OBVIOUS
<1>1. /\ UNCHANGED <<task_scheduler_, task_id_pid_tids_, available_workers_, extracted,
                     units_, toWorker>>
      /\ UNCHANGED <<todo, angry_list_, current_epoch_, round>>
      /\ Received(p, "Init") /\ init_tasks(ids)
  BY DEF ReceiveTasks, workers
<1>2. ids \in Seq(TaskIds)
  <2>1. Rounds[task_scheduler_] \in Seq(Seq(TaskIds))
    BY ClusterAssumption DEF Inv, BooksTyped
  <2>2. Head(toManager[p]) \in ToSet(toManager[p])
    BY <1>1, TailFacts DEF Received, Inv, MessagesFormed
  <2>3. Head(toManager[p]).round \in DOMAIN Rounds[task_scheduler_]
    BY <1>1, <2>2 DEF Received, Inv, MessagesFormed
  <2> QED BY <2>1, <2>3
<1>3. tasks_' = tasks_ \/ tasks_' = tasks_ \o ids \/ (~Sequential /\ tasks_' = ids)
  BY <1>1 DEF init_tasks, NewTasks, add_tasks, Sequential
<1>4. tasks_ \in Seq(TaskIds)
  BY DEF Inv, BooksTyped
<1>5. BooksTyped'
  <2>1. tasks_ \o ids \in Seq(TaskIds)
    BY <1>2, <1>4, ConcatProperties
  <2>2. tasks_' \in Seq(TaskIds)
    BY <1>2, <1>3, <1>4, <2>1
  <2> QED BY <1>1, <2>2 DEF Inv, BooksTyped
<1>6. ASSUME Sequential, tasks_ # <<>> PROVE tasks_' # <<>> /\ Head(tasks_') = Head(tasks_)
  BY <1>2, <1>3, <1>4, <1>6
<1>7. FirstRuns'
  <2>1. todo = <<>> /\ Sequential' = Sequential
    BY <1>1 DEF Received, Inv, FirstRuns, Sequential
  <2>2. cm_pc' # "angry"
    BY <1>1 DEF init_tasks
  <2> QED BY <1>1, <1>6, <2>1, <2>2 DEF Inv, FirstRuns
<1>8. MessagesFormed' /\ UnitsFormed' /\ OnePlace' /\ Booked'
  BY <1>1, ReceivesOther
<1> QED BY <1>5, <1>7, <1>8 DEF Inv

LEMMA ReceiveExitInv ==
  ASSUME Inv, NEW p \in Procs, ReceiveExit(p)
  PROVE  Inv'
<1>1. /\ UNCHANGED <<task_scheduler_, task_id_pid_tids_, available_workers_, extracted,
                     units_, toWorker>>
      /\ UNCHANGED <<todo, angry_list_, current_epoch_, round, tasks_>>
      /\ Received(p, "Exit") /\ cm_pc' = "exited"
  BY DEF ReceiveExit, workers, scheduler
<1>2. BooksTyped'
  BY <1>1 DEF Inv, BooksTyped
<1>3. FirstRuns'
  BY <1>1 DEF Inv, FirstRuns, Sequential
<1>4. MessagesFormed' /\ UnitsFormed' /\ OnePlace' /\ Booked'
  BY <1>1, ReceivesOther
<1> QED BY <1>2, <1>3, <1>4 DEF Inv

\* The tasks to look at: those with a list, or the first of the queue.
LEMMA BeginExtractInv ==
  ASSUME Inv, BeginExtract
  PROVE  Inv'
<1>1. /\ UNCHANGED <<task_scheduler_, task_id_pid_tids_, available_workers_, extracted,
                     units_, toManager, toWorker>>
      /\ UNCHANGED <<angry_list_, current_epoch_, round, tasks_>>
      /\ cm_pc' \in {"angry", "assign"}
      /\ todo' = IF Priority THEN angry_list_ ELSE ToExtract
  BY DEF BeginExtract, workers, scheduler
<1>2. \/ ~Sequential /\ todo' = angry_list_
      \/ ~Sequential /\ todo' = tasks_
      \/ Sequential /\ tasks_ # <<>> /\ todo' = <<Head(tasks_)>>
      \/ Sequential /\ todo' = <<>>
  BY <1>1 DEF ToExtract, Priority, Sequential, MayExtractNext
<1>3. BooksTyped'
  <2>1. angry_list_ \in Seq(TaskIds) /\ tasks_ \in Seq(TaskIds)
    BY DEF Inv, BooksTyped
  <2>2. tasks_ # <<>> => <<Head(tasks_)>> \in Seq(TaskIds)
    BY <2>1
  <2>3. <<>> \in Seq(TaskIds)
    OBVIOUS
  <2>4. todo' \in Seq(TaskIds)
    BY <1>2, <2>1, <2>2, <2>3
  <2> QED BY <1>1, <2>4 DEF Inv, BooksTyped
<1>4. FirstRuns'
  <2>1. cm_pc' = "angry" => Priority
    BY DEF BeginExtract
  <2> QED BY <1>1, <1>2, <2>1 DEF Inv, FirstRuns, Sequential, Priority
<1>5. MessagesFormed' /\ UnitsFormed' /\ OnePlace' /\ Booked'
  BY <1>1, Unmoved
<1> QED BY <1>3, <1>4, <1>5 DEF Inv

LEMMA OrderByPriorityInv ==
  ASSUME Inv, OrderByPriority
  PROVE  Inv'
<1>1. /\ UNCHANGED <<task_scheduler_, task_id_pid_tids_, available_workers_, extracted,
                     units_, toManager, toWorker>>
      /\ UNCHANGED <<angry_list_, current_epoch_, round, tasks_>>
      /\ cm_pc' = "assign" /\ todo' \in Orders
  BY DEF OrderByPriority, workers, scheduler
<1>2. todo' \in Seq(TaskIds)
  <2> PICK ready : ready = {id \in ToSet(tasks_) : task_status_[id] = 0}
    OBVIOUS
  <2>1. ready \subseteq TaskIds
    BY SeqToSet DEF Inv, BooksTyped
  <2>2. Cardinality(ready) \in Nat
    BY <2>1, SchedulerAssumption, FS_Subset, FS_CardinalityType
  <2>3. todo' \in [1 .. Cardinality(ready) -> ready]
    BY <1>1 DEF Orders, SetToSeqs
  <2> PICK n \in Nat : n = Cardinality(ready)
    BY <2>2
  <2>4. todo' \in [1 .. n -> TaskIds]
    BY <2>1, <2>3
  <2> QED BY <2>4, SeqDef
<1>3. BooksTyped'
  BY <1>1, <1>2 DEF Inv, BooksTyped
<1>4. FirstRuns'
  BY <1>1 DEF OrderByPriority, Inv, FirstRuns, Sequential, Priority
<1>5. MessagesFormed' /\ UnitsFormed' /\ OnePlace' /\ Booked'
  BY <1>1, Unmoved
<1> QED BY <1>3, <1>4, <1>5 DEF Inv

\* A message that speaks of a thread names a task.
LEMMA NamesTask ==
  ASSUME Inv, NEW q \in Procs, NEW t,
         NEW x \in ToSet(extracted) \cup ToSet(toWorker[q]) \cup ToSet(toManager[q]), Speaks(x, t)
  PROVE  x.task \in TaskIds
BY DEF Inv, MessagesFormed, Speaks

\* The manager takes the thread out of the books: from reported to available.
LEMMA ReceiveThreadFinishedInv ==
  ASSUME Inv, NEW p \in Procs, ReceiveThreadFinished(p)
  PROVE  Inv'
<1> PICK s, a, m, t, id : s = toManager[p] /\ a = Tail(s) /\ m = Head(s) /\ t = m.thread /\ id = m.task
  OBVIOUS
<1> PICK left : left = task_id_pid_tids_[id] \ {t}
  OBVIOUS
<1>1. /\ UNCHANGED <<task_scheduler_, extracted, units_, toWorker, todo, angry_list_, round>>
      /\ Received(p, "ThreadFinished") /\ finish_thread(id, t)
      /\ cm_pc = "recv" /\ cm_pc' \in {"recv", "extract"}
  BY DEF ReceiveThreadFinished, Received, workers
<1>2. /\ s \in Seq(ToSet(s)) /\ s # <<>> /\ m.type = "ThreadFinished" /\ DOMAIN toManager' = Procs
      /\ toManager'[p] = a /\ \A q \in Procs : q # p => toManager'[q] = toManager[q]
  BY <1>1 DEF Received, Inv, MessagesFormed
<1>3. \A o : Speaks(m, o) <=> o = t
  BY <1>2 DEF Speaks
<1>4. /\ a \in Seq(ToSet(a)) /\ ToSet(a) \subseteq ToSet(s) /\ m \in ToSet(s)
      /\ \A o : /\ Silent(s, o) => Silent(a, o)
                /\ Once(s, o) /\ ~Speaks(m, o) => Once(a, o)
                /\ Once(s, o) /\ Speaks(m, o) => Silent(a, o)
  BY <1>2, TailFacts
<1>5. id \in TaskIds /\ t \in Threads /\ get_process_id(t) = p
  BY <1>2, <1>4 DEF Inv, MessagesFormed
<1>6. t \in task_id_pid_tids_[id] /\ t \notin available_workers_
  BY <1>3, <1>4, <1>5 DEF Inv, Booked, NamedIn
<1>7. Sequential => tasks_ # <<>> /\ Head(tasks_) = id
  BY <1>5, <1>6 DEF Inv, FirstRuns
<1>8. TaskOf(id) = id
  BY <1>7 DEF TaskOf
<1>9. /\ task_id_pid_tids_' = [task_id_pid_tids_ EXCEPT ![id] = left]
      /\ available_workers_' = available_workers_ \cup {t}
      /\ \/ UNCHANGED <<current_epoch_, tasks_>>
         \/ /\ left = {}
            /\ current_epoch_' = [current_epoch_ EXCEPT ![id] = current_epoch_[id] + 1]
            /\ tasks_' = tasks_ \/ (Sequential /\ tasks_' = Tail(tasks_))
  BY <1>1, <1>8 DEF finish_thread, AddWorker, InstanceDone, TasksAfter
<1>10. /\ task_id_pid_tids_' \in [TaskIds -> SUBSET Threads]
       /\ task_id_pid_tids_'[id] = left
       /\ \A k \in TaskIds : k # id => task_id_pid_tids_'[k] = task_id_pid_tids_[k]
  BY <1>5, <1>9 DEF Inv, BooksTyped
<1>11. \A k \in TaskIds : t \notin task_id_pid_tids_'[k]
  BY <1>5, <1>6, <1>10 DEF Inv, Booked
<1>12. \A k \in TaskIds : \A o : o # t =>
         (o \in task_id_pid_tids_'[k] <=> o \in task_id_pid_tids_[k])
  BY <1>10
<1>13. BooksTyped'
  <2>1. tasks_ \in Seq(TaskIds) /\ (tasks_ # <<>> => Tail(tasks_) \in Seq(TaskIds))
    BY DEF Inv, BooksTyped
  <2>2. tasks_' \in Seq(TaskIds)
    BY <1>7, <1>9, <2>1
  <2>3. current_epoch_' \in [TaskIds -> Nat]
    <3>1. current_epoch_ \in [TaskIds -> Nat] /\ current_epoch_[id] + 1 \in Nat
      BY <1>5 DEF Inv, BooksTyped
    <3> QED BY <1>9, <3>1
  <2>4. available_workers_' \subseteq Threads
    BY <1>5, <1>9 DEF Inv, BooksTyped
  <2> QED BY <1>1, <1>10, <2>2, <2>3, <2>4 DEF Inv, BooksTyped
<1>14. FirstRuns'
  <2>1. todo' = <<>> /\ Sequential' = Sequential
    BY <1>1 DEF Inv, FirstRuns, Sequential
  <2>2. ASSUME Sequential, NEW k \in TaskIds, task_id_pid_tids_'[k] # {}
        PROVE  tasks_' # <<>> /\ k = Head(tasks_')
    <3>1. task_id_pid_tids_[k] # {}
      BY <1>10, <2>2
    <3>2. k = id
      BY <1>7, <2>2, <3>1 DEF Inv, FirstRuns
    <3>3. left # {}
      BY <1>10, <2>2, <3>2
    <3> QED BY <1>7, <1>9, <2>2, <3>2, <3>3
  <2> QED BY <1>1, <2>1, <2>2 DEF FirstRuns
<1>15. UnitsFormed'
  BY <1>1 DEF Inv, UnitsFormed
<1>16. MessagesFormed'
  BY <1>1, <1>2, <1>4 DEF Inv, MessagesFormed
<1>17. /\ units_[t] = Free /\ Silent(extracted, t) /\ Silent(toWorker[p], t) /\ Silent(a, t)
  <2>1. AtOnePlace(t, t \in available_workers_, extracted, toWorker[p], units_[t] # Free, s)
    BY <1>5 DEF Inv, OnePlace
  <2>2. ~Silent(s, t)
    BY <1>3, <1>4 DEF Silent
  <2> QED BY <1>3, <1>4, <2>1, <2>2 DEF AtOnePlace
<1>18. OnePlace'
  <2> SUFFICES ASSUME NEW o \in Threads
               PROVE  AtOnePlace(o, o \in available_workers_', extracted',
                                 toWorker'[get_process_id(o)], units_'[o] # Free,
                                 toManager'[get_process_id(o)])
    BY PlacesNext
  <2> PICK q \in Procs : q = get_process_id(o)
    BY ProcOf
  <2>1. CASE o = t
    BY <1>1, <1>2, <1>5, <1>9, <1>17, <2>1 DEF AtOnePlace
  <2>2. CASE o # t
    <3>1. AtOnePlace(o, o \in available_workers_, extracted, toWorker[q], units_[o] # Free,
                     toManager[q])
      BY DEF Inv, OnePlace
    <3>2. /\ Silent(toManager[q], o) => Silent(toManager'[q], o)
          /\ Once(toManager[q], o) => Once(toManager'[q], o)
      BY <1>2, <1>3, <1>4, <2>2
    <3>3. AtOnePlace(o, o \in available_workers_, extracted, toWorker[q], units_[o] # Free,
                     toManager'[q])
      BY <3>1, <3>2, Stays
    <3>4. (o \in available_workers_') = (o \in available_workers_)
      BY <1>9, <2>2
    <3> QED BY <1>1, <3>3, <3>4
  <2> QED BY <2>1, <2>2
<1>19. Booked'
  <2> SUFFICES ASSUME NEW o \in Threads
      PROVE  /\ \A k \in TaskIds : o \in task_id_pid_tids_'[k] => o \notin available_workers_'
             /\ \A k, other \in TaskIds :
                  o \in task_id_pid_tids_'[k] /\ o \in task_id_pid_tids_'[other] => k = other
             /\ \A x \in ToSet(extracted') \cup ToSet(toWorker'[get_process_id(o)])
                           \cup ToSet(toManager'[get_process_id(o)]) :
                  Speaks(x, o) => o \in task_id_pid_tids_'[x.task]
             /\ units_'[o] # Free => o \in task_id_pid_tids_'[units_'[o].task]
    BY BooksNext
  <2> PICK q \in Procs : q = get_process_id(o)
    BY ProcOf
  <2>1. CASE o = t
    <3>1. \A x \in ToSet(extracted') \cup ToSet(toWorker'[q]) \cup ToSet(toManager'[q]) : ~Speaks(x, o)
      BY <1>1, <1>2, <1>5, <1>17, <2>1 DEF Silent
    <3> QED BY <1>1, <1>11, <1>17, <2>1, <3>1
  <2>2. CASE o # t
    <3>1. /\ \A k \in TaskIds : o \in task_id_pid_tids_[k] => o \notin available_workers_
          /\ \A k, other \in TaskIds :
               o \in task_id_pid_tids_[k] /\ o \in task_id_pid_tids_[other] => k = other
          /\ \A x \in ToSet(extracted) \cup ToSet(toWorker[q]) \cup ToSet(toManager[q]) :
               Speaks(x, o) => o \in task_id_pid_tids_[x.task]
          /\ units_[o] # Free => o \in task_id_pid_tids_[units_[o].task]
      BY BooksNow DEF Inv
    <3>2. ASSUME NEW x \in ToSet(extracted') \cup ToSet(toWorker'[q]) \cup ToSet(toManager'[q]),
                 Speaks(x, o)
          PROVE  o \in task_id_pid_tids_'[x.task]
      <4>1. x \in ToSet(extracted) \cup ToSet(toWorker[q]) \cup ToSet(toManager[q])
        BY <1>1, <1>2, <1>4, <3>2
      <4>2. x.task \in TaskIds
        BY <3>2, <4>1, NamesTask
      <4> QED BY <1>12, <2>2, <3>1, <3>2, <4>1, <4>2
    <3>3. units_[o] # Free => units_[o].task \in TaskIds
      BY DEF Inv, UnitsFormed
    <3>4. units_'[o] # Free => o \in task_id_pid_tids_'[units_'[o].task]
      BY <1>1, <1>12, <2>2, <3>1, <3>3
    <3>5. \A k \in TaskIds : o \in task_id_pid_tids_'[k] => o \notin available_workers_'
      BY <1>9, <1>12, <2>2, <3>1
    <3>6. \A k, other \in TaskIds :
            o \in task_id_pid_tids_'[k] /\ o \in task_id_pid_tids_'[other] => k = other
      BY <1>12, <2>2, <3>1
    <3> QED BY <3>2, <3>4, <3>5, <3>6
  <2> QED BY <2>1, <2>2
<1> QED BY <1>13, <1>14, <1>15, <1>16, <1>18, <1>19 DEF Inv

\* An instance is added: its threads go from available to not yet sent.
LEMMA AddInstanceMoves ==
  ASSUME Inv, NEW id \in TaskIds, NEW threads \in SUBSET available_workers_,
         AddInstance(id, threads),
         UNCHANGED <<task_scheduler_, units_, toManager, toWorker>>
  PROVE  /\ MessagesFormed' /\ UnitsFormed' /\ OnePlace' /\ Booked'
         /\ task_id_pid_tids_' \in [TaskIds -> SUBSET Threads]
         /\ available_workers_' \subseteq Threads
         /\ \A k \in TaskIds : k # id => task_id_pid_tids_'[k] = task_id_pid_tids_[k]
<1> PICK m : m = Instance(id, current_epoch_[id], threads, IF IsAuto(id) THEN policy_'.try_iters ELSE 1)
  OBVIOUS
<1> PICK s, a : s = extracted /\ a = Append(s, m)
  OBVIOUS
<1>1. /\ extracted' = a /\ available_workers_' = available_workers_ \ threads
      /\ task_id_pid_tids_' = [task_id_pid_tids_ EXCEPT ![id] = @ \cup threads]
  BY DEF AddInstance, Erased, record_and_track
<1>2. m.type = "Task" /\ m.task = id /\ m.cluster = threads
  BY DEF Instance
<1>3. \A t : Speaks(m, t) <=> t \in threads
  BY <1>2 DEF Speaks
<1>4. s \in Seq(ToSet(s))
  BY DEF Inv, MessagesFormed
<1>5. /\ a \in Seq(ToSet(a)) /\ ToSet(a) = ToSet(s) \cup {m}
      /\ \A t : t \notin threads => /\ Silent(s, t) => Silent(a, t)
                                    /\ Once(s, t) => Once(a, t)
      /\ \A t : t \in threads /\ Silent(s, t) => Once(a, t)
  BY <1>3, <1>4, AppendFacts
<1>6. /\ task_id_pid_tids_' \in [TaskIds -> SUBSET Threads]
      /\ task_id_pid_tids_'[id] = task_id_pid_tids_[id] \cup threads
      /\ \A k \in TaskIds : k # id => task_id_pid_tids_'[k] = task_id_pid_tids_[k]
      /\ available_workers_' \subseteq Threads
  BY <1>1 DEF Inv, BooksTyped
<1>7. \A k \in TaskIds : \A t : t \notin threads =>
         (t \in task_id_pid_tids_'[k] <=> t \in task_id_pid_tids_[k])
  BY <1>6
<1>8. UnitsFormed'
  BY DEF Inv, UnitsFormed
<1>9. MessagesFormed'
  BY <1>1, <1>2, <1>5 DEF Inv, MessagesFormed
<1>10. OnePlace'
  <2> SUFFICES ASSUME NEW t \in Threads
               PROVE  AtOnePlace(t, t \in available_workers_', extracted',
                                 toWorker'[get_process_id(t)], units_'[t] # Free,
                                 toManager'[get_process_id(t)])
    BY PlacesNext
  <2> PICK q \in Procs : q = get_process_id(t)
    BY ProcOf
  <2>1. AtOnePlace(t, t \in available_workers_, extracted, toWorker[q], units_[t] # Free,
                   toManager[q])
    BY DEF Inv, OnePlace
  <2>2. CASE t \in threads
    <3>1. t \in available_workers_ /\ t \notin available_workers_'
      BY <1>1, <2>2
    <3>2. AtOnePlace(t, FALSE, a, toWorker[q], units_[t] # Free, toManager[q])
      BY <1>5, <2>1, <2>2, <3>1 DEF AtOnePlace
    <3> QED BY <1>1, <3>1, <3>2 DEF AtOnePlace
  <2>3. CASE t \notin threads
    <3>1. /\ Silent(extracted, t) => Silent(a, t)
          /\ Once(extracted, t) => Once(a, t)
      BY <1>5, <2>3
    <3>2. AtOnePlace(t, t \in available_workers_, a, toWorker[q], units_[t] # Free, toManager[q])
      BY <2>1, <3>1, Stays
    <3>3. (t \in available_workers_') = (t \in available_workers_)
      BY <1>1, <2>3
    <3> QED BY <1>1, <3>2, <3>3
  <2> QED BY <2>2, <2>3
<1>11. Booked'
  <2> SUFFICES ASSUME NEW t \in Threads
      PROVE  /\ \A k \in TaskIds : t \in task_id_pid_tids_'[k] => t \notin available_workers_'
             /\ \A k, other \in TaskIds :
                  t \in task_id_pid_tids_'[k] /\ t \in task_id_pid_tids_'[other] => k = other
             /\ \A x \in ToSet(extracted') \cup ToSet(toWorker'[get_process_id(t)])
                           \cup ToSet(toManager'[get_process_id(t)]) :
                  Speaks(x, t) => t \in task_id_pid_tids_'[x.task]
             /\ units_'[t] # Free => t \in task_id_pid_tids_'[units_'[t].task]
    BY BooksNext
  <2> PICK q \in Procs : q = get_process_id(t)
    BY ProcOf
  <2>1. /\ \A k \in TaskIds : t \in task_id_pid_tids_[k] => t \notin available_workers_
        /\ \A k, other \in TaskIds :
             t \in task_id_pid_tids_[k] /\ t \in task_id_pid_tids_[other] => k = other
        /\ \A x \in ToSet(extracted) \cup ToSet(toWorker[q]) \cup ToSet(toManager[q]) :
             Speaks(x, t) => t \in task_id_pid_tids_[x.task]
        /\ units_[t] # Free => t \in task_id_pid_tids_[units_[t].task]
    BY BooksNow DEF Inv
  <2>2. units_[t] # Free => units_[t].task \in TaskIds
    BY DEF Inv, UnitsFormed
  <2>3. ASSUME NEW x \in ToSet(extracted') \cup ToSet(toWorker'[q]) \cup ToSet(toManager'[q]),
               Speaks(x, t)
        PROVE  \/ x = m /\ t \in threads
               \/ /\ x \in ToSet(extracted) \cup ToSet(toWorker[q]) \cup ToSet(toManager[q])
                  /\ x.task \in TaskIds /\ t \in task_id_pid_tids_[x.task]
    <3>1. CASE x = m
      BY <1>3, <2>3, <3>1
    <3>2. CASE x \in ToSet(extracted) \cup ToSet(toWorker[q]) \cup ToSet(toManager[q])
      BY <2>1, <2>3, <3>2, NamesTask
    <3> QED BY <1>1, <1>5, <2>3, <3>1, <3>2
  <2>4. CASE t \in threads
    <3>1. t \in available_workers_ /\ t \notin available_workers_'
      BY <1>1, <2>4
    <3>2. \A k \in TaskIds : t \notin task_id_pid_tids_[k]
      BY <2>1, <3>1
    <3>3. \A k \in TaskIds : t \in task_id_pid_tids_'[k] <=> k = id
      BY <1>6, <2>4, <3>2
    <3>4. units_[t] = Free
      BY <2>1, <2>2, <3>2
    <3>5. \A x \in ToSet(extracted') \cup ToSet(toWorker'[q]) \cup ToSet(toManager'[q]) :
            Speaks(x, t) => t \in task_id_pid_tids_'[x.task]
      BY <1>2, <2>3, <3>2, <3>3
    <3> QED BY <3>1, <3>3, <3>4, <3>5
  <2>5. CASE t \notin threads
    <3>1. \A x \in ToSet(extracted') \cup ToSet(toWorker'[q]) \cup ToSet(toManager'[q]) :
            Speaks(x, t) => t \in task_id_pid_tids_'[x.task]
      BY <1>7, <2>3, <2>5
    <3>2. units_'[t] # Free => t \in task_id_pid_tids_'[units_'[t].task]
      BY <1>7, <2>1, <2>2, <2>5
    <3>3. /\ \A k \in TaskIds : t \in task_id_pid_tids_'[k] => t \notin available_workers_'
          /\ \A k, other \in TaskIds :
               t \in task_id_pid_tids_'[k] /\ t \in task_id_pid_tids_'[other] => k = other
      BY <1>1, <1>7, <2>1, <2>5
    <3> QED BY <3>1, <3>2, <3>3
  <2> QED BY <2>4, <2>5
<1> QED BY <1>6, <1>8, <1>9, <1>10, <1>11

LEMMA AssignInv ==
  ASSUME Inv, Assign
  PROVE  Inv'
<1> PICK id : id = Head(todo)
  OBVIOUS
<1>1. /\ UNCHANGED <<task_scheduler_, units_, toManager, toWorker>>
      /\ UNCHANGED <<tasks_, current_epoch_, round>>
      /\ cm_pc \in {"angry", "assign"} /\ todo # <<>> /\ todo' = Tail(todo)
  BY DEF Assign, workers
<1>2. id \in TaskIds /\ todo' \in Seq(TaskIds)
  BY <1>1 DEF Inv, BooksTyped
<1>3. Sequential => tasks_ # <<>> /\ id = Head(tasks_) /\ todo' = <<>>
  <2> PICK first : first = Head(tasks_)
    OBVIOUS
  <2>1. Sequential => tasks_ # <<>> /\ todo = <<first>>
    BY <1>1 DEF Inv, FirstRuns
  <2>2. Head(<<first>>) = first /\ Tail(<<first>>) = <<>>
    OBVIOUS
  <2> QED BY <1>1, <2>1, <2>2, Zenon
<1>4. angry_list_ \in Seq(TaskIds) /\ Append(angry_list_, id) \in Seq(TaskIds)
  BY <1>2 DEF Inv, BooksTyped
<1>5. erase_angry_task(id) \in Seq(TaskIds)
  BY <1>4, EraseTyped
<1>6. CASE /\ UNCHANGED <<extracted, available_workers_, task_id_pid_tids_>>
           /\ angry_list_' \in {angry_list_, Append(angry_list_, id)}
           /\ cm_pc' \in {cm_pc, "thrown"}
  <2>1. BooksTyped'
    BY <1>1, <1>2, <1>4, <1>6 DEF Inv, BooksTyped
  <2>2. FirstRuns'
    BY <1>1, <1>3, <1>6 DEF Inv, FirstRuns, Sequential, Priority
  <2>3. MessagesFormed' /\ UnitsFormed' /\ OnePlace' /\ Booked'
    BY <1>1, <1>6, Unmoved
  <2> QED BY <2>1, <2>2, <2>3 DEF Inv
<1>7. ASSUME NEW threads \in Selections(id), Succeeds(id, threads)
      PROVE  Inv'
  <2>1. threads \in SUBSET available_workers_
    BY <1>2, Selected DEF Inv
  <2>2. /\ AddInstance(id, threads) /\ cm_pc' = cm_pc
        /\ angry_list_' \in {angry_list_, erase_angry_task(id)}
    BY <1>7 DEF Succeeds, suc_sched
  <2>3. /\ MessagesFormed' /\ UnitsFormed' /\ OnePlace' /\ Booked'
        /\ task_id_pid_tids_' \in [TaskIds -> SUBSET Threads]
        /\ available_workers_' \subseteq Threads
        /\ \A k \in TaskIds : k # id => task_id_pid_tids_'[k] = task_id_pid_tids_[k]
    BY <1>1, <1>2, <2>1, <2>2, AddInstanceMoves
  <2>4. BooksTyped'
    BY <1>1, <1>2, <1>4, <1>5, <2>2, <2>3 DEF Inv, BooksTyped
  <2>5. FirstRuns'
    BY <1>1, <1>3, <2>2, <2>3 DEF Inv, FirstRuns, Sequential, Priority
  <2> QED BY <2>3, <2>4, <2>5 DEF Inv
<1>8. \/ /\ UNCHANGED <<extracted, available_workers_, task_id_pid_tids_>>
         /\ angry_list_' \in {angry_list_, Append(angry_list_, id)}
         /\ cm_pc' \in {cm_pc, "thrown"}
      \/ \E threads \in Selections(id) : Succeeds(id, threads)
  <2>1. CASE Skips(id)
    BY <2>1 DEF Assign
  <2>2. ASSUME Fails(id)
        PROVE  /\ UNCHANGED <<extracted, available_workers_, task_id_pid_tids_>>
               /\ angry_list_' \in {angry_list_, Append(angry_list_, id)}
               /\ cm_pc' \in {cm_pc, "thrown"}
    BY <2>2 DEF Fails, fail_sched
  <2>3. CASE ~Skips(id)
    <3>1. PICK threads \in Selections(id) : IF threads # {} THEN Succeeds(id, threads) ELSE Fails(id)
      BY <2>3 DEF Assign
    <3> QED BY <2>2, <3>1
  <2> QED BY <2>1, <2>3
<1> QED BY <1>6, <1>7, <1>8

\* The instances are sent: from not yet sent to on the way, in every process.
LEMMA SendInv ==
  ASSUME Inv, Send
  PROVE  Inv'
<1>1. /\ UNCHANGED <<task_scheduler_, task_id_pid_tids_, available_workers_, units_, toManager>>
      /\ UNCHANGED <<todo, angry_list_, current_epoch_, round, tasks_>>
      /\ extracted' = <<>> /\ cm_pc' = "recv" /\ todo = <<>>
  BY DEF Send, workers
<1>2. BooksTyped'
  BY <1>1 DEF Inv, BooksTyped
<1>3. FirstRuns'
  BY <1>1 DEF Inv, FirstRuns, Sequential
<1>4. UnitsFormed'
  BY <1>1 DEF Inv, UnitsFormed
<1>5. DOMAIN toWorker' = Procs
  BY DEF Send
<1>6. ASSUME NEW p \in Procs
      PROVE  /\ toWorker'[p] \in Seq(ToSet(toWorker'[p]))
             /\ \A m \in ToSet(toWorker'[p]) :
                  \/ m \in ToSet(toWorker[p]) \cup ToSet(extracted)
                  \/ m.type \in {"DirectTransferModel", "Finished"}
             /\ \A t : /\ Silent(extracted, t) /\ Silent(toWorker[p], t) => Silent(toWorker'[p], t)
                       /\ Silent(extracted, t) /\ Once(toWorker[p], t) => Once(toWorker'[p], t)
                       /\ Once(extracted, t) /\ Silent(toWorker[p], t) => Once(toWorker'[p], t)
  <2> PICK s, sent, e : /\ s = toWorker[p] 
                        /\ sent = FlattenSeq([i \in DOMAIN extracted |-> ToOneProcess(extracted[i], p)])
                        /\ e = IF is_finished THEN <<Finished>> ELSE <<>>
    OBVIOUS
  <2>1. toWorker'[p] = (s \o sent) \o e
    BY DEF Send
  <2>2. s \in Seq(ToSet(s)) /\ MessagesFormed
    BY DEF Inv, MessagesFormed
  <2>3. /\ sent \in Seq(ToSet(sent))
        /\ \A m \in ToSet(sent) : m \in ToSet(extracted) \/ m.type = "DirectTransferModel"
        /\ \A t : /\ Silent(extracted, t) => Silent(sent, t)
                  /\ Once(extracted, t) => Once(sent, t)
    BY <2>2, SentFacts
  <2>4. PICK b : b = s \o sent
    OBVIOUS
  <2>5. /\ b \in Seq(ToSet(b)) /\ ToSet(b) = ToSet(s) \cup ToSet(sent)
        /\ \A t : /\ Silent(s, t) /\ Silent(sent, t) => Silent(b, t)
                  /\ Once(s, t) /\ Silent(sent, t) => Once(b, t)
                  /\ Silent(s, t) /\ Once(sent, t) => Once(b, t)
    BY <2>2, <2>3, <2>4, ConcatFacts
  <2>6. e \in Seq(ToSet(e)) /\ (\A m \in ToSet(e) : m = Finished) /\ \A t : Silent(e, t)
    <3>1. CASE e = <<>>
      BY <3>1, EmptyFacts
    <3>2. CASE e = <<Finished>>
      <4>1. DOMAIN e = {1} /\ e[1] = Finished /\ e \in Seq({Finished})
        <5> PICK f : f = Finished
          OBVIOUS
        <5>1. <<f>> \in Seq({f}) /\ <<f>>[1] = f /\ Len(<<f>>) = 1
          OBVIOUS
        <5>2. DOMAIN <<f>> = 1 .. 1 /\ 1 .. 1 = {1}
          BY <5>1
        <5> QED BY <3>2, <5>1, <5>2, Zenon
      <4>2. ToSet(e) = {Finished}
        BY <4>1 DEF ToSet
      <4>3. \A t : ~Speaks(Finished, t)
        BY DEF Speaks, Finished
      <4> QED BY <4>1, <4>2, <4>3 DEF Silent
    <3> QED BY <3>1, <3>2
  <2>7. PICK c : c = b \o e
    OBVIOUS
  <2>8. /\ c \in Seq(ToSet(c)) /\ ToSet(c) = ToSet(b) \cup ToSet(e)
        /\ \A t : /\ Silent(b, t) /\ Silent(e, t) => Silent(c, t)
                  /\ Once(b, t) /\ Silent(e, t) => Once(c, t)
    BY <2>5, <2>6, <2>7, ConcatFacts
  <2>9. toWorker'[p] = c /\ Finished.type = "Finished"
    BY <2>1, <2>4, <2>7 DEF Finished
  <2> QED BY <2>3, <2>5, <2>6, <2>8, <2>9
<1>7. MessagesFormed'
  <2>1. \A p \in Procs : \A m \in ToSet(toWorker'[p]) :
          /\ m.type \in {"Task", "DirectTransferModel", "Finished"}
          /\ m.type = "Task" => m.task \in TaskIds
    BY <1>6 DEF Inv, MessagesFormed
  <2>2. \A p \in Procs : toWorker'[p] \in Seq(ToSet(toWorker'[p]))
    BY <1>6
  <2> QED BY <1>1, <1>5, <2>1, <2>2, EmptyFacts DEF Inv, MessagesFormed
<1>8. OnePlace'
  <2> SUFFICES ASSUME NEW t \in Threads
               PROVE  AtOnePlace(t, t \in available_workers_', extracted',
                                 toWorker'[get_process_id(t)], units_'[t] # Free,
                                 toManager'[get_process_id(t)])
    BY PlacesNext
  <2> PICK q \in Procs : q = get_process_id(t)
    BY ProcOf
  <2>1. AtOnePlace(t, t \in available_workers_, extracted, toWorker[q], units_[t] # Free,
                   toManager[q])
    BY DEF Inv, OnePlace
  <2>2. /\ Silent(extracted, t) /\ Silent(toWorker[q], t) => Silent(toWorker'[q], t)
        /\ Silent(extracted, t) /\ Once(toWorker[q], t) => Once(toWorker'[q], t)
        /\ Once(extracted, t) /\ Silent(toWorker[q], t) => Once(toWorker'[q], t)
    BY <1>6
  <2>3. AtOnePlace(t, t \in available_workers_, <<>>, toWorker'[q], units_[t] # Free, toManager[q])
    BY <2>1, <2>2, EmptyFacts DEF AtOnePlace
  <2> QED BY <1>1, <2>3
<1>9. Booked'
  <2>1. ASSUME NEW t \in Threads, NEW x \in ToSet(toWorker'[get_process_id(t)]), Speaks(x, t)
        PROVE  t \in task_id_pid_tids_[x.task]
    <3> PICK q \in Procs : q = get_process_id(t)
      BY ProcOf
    <3>1. x \in ToSet(toWorker[q]) \cup ToSet(extracted)
      BY <1>6, <2>1 DEF Speaks
    <3> QED BY <2>1, <3>1 DEF Inv, Booked, NamedIn
  <2> QED BY <1>1, <2>1, EmptyFacts DEF Inv, Booked, NamedIn
<1> QED BY <1>2, <1>3, <1>4, <1>7, <1>8, <1>9 DEF Inv

------------------------------------------------------------------------------
(* The theorems.                                                            *)

\* No step of the manager, of a process or of a thread breaks the invariant:
\* a thread is at one place, under the task whose books it is in, through all
\* of ClusterManager::serve, the schedulers and Worker::main_loop.
THEOREM Invariance == Spec => []Inv
<1>1. Inv /\ [Next]_vars => Inv'
  <2> SUFFICES ASSUME Inv, [Next]_vars PROVE Inv'
    OBVIOUS
  <2>1. CASE Manager
    BY <2>1, ReceiveTasksInv, ReceiveThreadFinishedInv, ReceiveExitInv, BeginExtractInv,
       OrderByPriorityInv, AssignInv, SendInv DEF Manager
  <2>2. ASSUME NEW p \in Procs, MainLoop(p) PROVE Inv'
    BY <2>2, SubmitInv, ExitInv, run_instanceInv, WorkerFinishThreadInv, RemoveInstanceInv,
       SendTaskInv, LeaveLoopInv DEF MainLoop
  <2>3. ASSUME NEW p \in Procs, TransferModel(p) PROVE Inv'
    BY <2>3, TransferModelInv
  <2>4. ASSUME NEW t \in Threads, ThreadEnds(t) PROVE Inv'
    BY <2>4, ThreadEndsInv
  <2>5. CASE UNCHANGED vars
    <3>1. UNCHANGED <<manager, units_, toManager, toWorker, round>>
      BY <2>5 DEF vars, workers
    <3>2. UNCHANGED <<task_scheduler_, task_id_pid_tids_, available_workers_, extracted>> /\ FirstRuns'
      BY <3>1, ManagerUnmoved
    <3>3. BooksTyped'
      BY <3>1, ManagerUnmoved DEF Inv, BooksTyped
    <3> QED BY <3>1, <3>2, <3>3, Unmoved DEF Inv
  <2> QED BY <2>1, <2>2, <2>3, <2>4, <2>5 DEF Next
<1> QED BY <1>1, InitialInv, PTL DEF Spec

LEMMA OneSpeaks ==
  ASSUME NEW seq, NEW t
  PROVE  /\ Silent(seq, t) => {m \in ToSet(seq) : Speaks(m, t)} = {}
         /\ Once(seq, t) => \E x \in ToSet(seq) : {m \in ToSet(seq) : Speaks(m, t)} = {x}
<1>1. Silent(seq, t) => {m \in ToSet(seq) : Speaks(m, t)} = {}
  BY DEF Silent
<1>2. ASSUME Once(seq, t) PROVE \E x \in ToSet(seq) : {m \in ToSet(seq) : Speaks(m, t)} = {x}
  <2>1. PICK n \in DOMAIN seq : Speaks(seq[n], t) /\ \A k \in DOMAIN seq : Speaks(seq[k], t) => k = n
    BY <1>2 DEF Once
  <2>2. \A m \in ToSet(seq) : Speaks(m, t) => m = seq[n]
    BY <2>1 DEF ToSet
  <2>3. seq[n] \in ToSet(seq)
    BY DEF ToSet
  <2> QED BY <2>1, <2>2, <2>3
<1> QED BY <1>1, <1>2

LEMMA CardOne ==
  ASSUME NEW x
  PROVE  Cardinality({x}) = 1 /\ Cardinality({}) = 0
BY FS_Singleton, FS_EmptySet

\* A thread that is not available is in the books of exactly one task.
LEMMA OneTask ==
  ASSUME Inv, NEW t \in Threads, t \notin available_workers_
  PROVE  \E id \in TaskIds : {k \in TaskIds : t \in task_id_pid_tids_[k]} = {id}
<1> PICK q \in Procs : q = get_process_id(t)
  BY ProcOf
<1>1. AtOnePlace(t, t \in available_workers_, extracted, toWorker[q], units_[t] # Free,
                 toManager[q])
  BY DEF Inv, OnePlace
<1>2. \/ units_[t] # Free
      \/ \E x \in ToSet(extracted) \cup ToSet(toWorker[q]) \cup ToSet(toManager[q]) : Speaks(x, t)
  BY <1>1 DEF AtOnePlace, Once, ToSet
<1>3. /\ \A k, other \in TaskIds :
           t \in task_id_pid_tids_[k] /\ t \in task_id_pid_tids_[other] => k = other
      /\ \A x \in ToSet(extracted) \cup ToSet(toWorker[q]) \cup ToSet(toManager[q]) :
           Speaks(x, t) => t \in task_id_pid_tids_[x.task]
      /\ units_[t] # Free => t \in task_id_pid_tids_[units_[t].task]
  BY BooksNow DEF Inv
<1>4. \E id \in TaskIds : t \in task_id_pid_tids_[id]
  <2>1. CASE units_[t] # Free
    BY <1>3, <2>1 DEF Inv, UnitsFormed
  <2>2. CASE \E x \in ToSet(extracted) \cup ToSet(toWorker[q]) \cup ToSet(toManager[q]) : Speaks(x, t)
    BY <1>3, <2>2, NamesTask
  <2> QED BY <1>2, <2>1, <2>2
<1> QED BY <1>3, <1>4

\* The books of the cluster manager agree with the processes, whatever is on
\* its way between them: no thread is lost, given out twice or counted twice,
\* whichever scheduler assigns it and however finish_thread and run_instance
\* interleave.
THEOREM Accounted == Spec => []ThreadsAccounted
<1>1. Inv => ThreadsAccounted
  <2> SUFFICES ASSUME Inv PROVE ThreadsAccounted
    OBVIOUS
  <2> SUFFICES ASSUME NEW t \in Threads
      PROVE  LET p == get_process_id(t)
                 assigned == {id \in TaskIds : t \in task_id_pid_tids_[id]}
                 coming == {m \in InTransit(p) \cup ToSet(extracted) :
                              m.type = "Task" /\ t \in m.cluster}
                 going == {m \in Reported(p) : m.type = "ThreadFinished" /\ m.thread = t}
                 busy == IF units_[t] = Free THEN 0 ELSE 1
                 known == Cardinality(coming) + busy + Cardinality(going)
             IN  IF t \in available_workers_
                   THEN assigned = {} /\ known = 0
                   ELSE Cardinality(assigned) = 1 /\ known = 1
    BY DEF ThreadsAccounted
  <2> DEFINE assigned == {id \in TaskIds : t \in task_id_pid_tids_[id]}
             coming == {m \in InTransit(get_process_id(t)) \cup ToSet(extracted) :
                          m.type = "Task" /\ t \in m.cluster}
             going == {m \in Reported(get_process_id(t)) : m.type = "ThreadFinished" /\ m.thread = t}
             busy == IF units_[t] = Free THEN 0 ELSE 1
  <2> PICK q \in Procs : q = get_process_id(t)
    BY ProcOf
  <2>1. InTransit(q) = ToSet(toWorker[q]) /\ Reported(q) = ToSet(toManager[q])
    BY DEF InTransit, Reported, ToSet
  <2>2. /\ coming = {m \in ToSet(toWorker[q]) : Speaks(m, t)} \cup {m \in ToSet(extracted) : Speaks(m, t)}
        /\ going = {m \in ToSet(toManager[q]) : Speaks(m, t)}
    BY <2>1 DEF Inv, MessagesFormed, Speaks
  <2>3. AtOnePlace(t, t \in available_workers_, extracted, toWorker[q], units_[t] # Free,
                   toManager[q])
    BY DEF Inv, OnePlace
  <2>4. t \in available_workers_ => assigned = {}
    BY DEF Inv, Booked
  <2>5. t \notin available_workers_ => Cardinality(assigned) = 1
    BY OneTask, CardOne
  <2>6. \/ t \in available_workers_ /\ coming = {} /\ busy = 0 /\ going = {}
        \/ t \notin available_workers_ /\ (\E x : coming = {x}) /\ busy = 0 /\ going = {}
        \/ t \notin available_workers_ /\ coming = {} /\ busy = 1 /\ going = {}
        \/ t \notin available_workers_ /\ coming = {} /\ busy = 0 /\ (\E x : going = {x})
    <3> DEFINE Told(seq) == {m \in ToSet(seq) : Speaks(m, t)}
    <3>1. \A seq : (Silent(seq, t) => Told(seq) = {}) /\ (Once(seq, t) => \E x : Told(seq) = {x})
      BY OneSpeaks
    <3>2. coming = Told(toWorker[q]) \cup Told(extracted) /\ going = Told(toManager[q])
      BY <2>2
    <3> HIDE DEF Told, coming, going
    <3> QED BY <2>3, <3>1, <3>2 DEF AtOnePlace
  <2> HIDE DEF assigned, coming, going, busy
  <2>7. IF t \in available_workers_
          THEN assigned = {} /\ Cardinality(coming) + busy + Cardinality(going) = 0
          ELSE Cardinality(assigned) = 1 /\ Cardinality(coming) + busy + Cardinality(going) = 1
    <3>1. \A S : (S = {} => Cardinality(S) = 0) /\ \A x : S = {x} => Cardinality(S) = 1
      BY FS_EmptySet, CardOne
    <3>2. PICK a, b : a = Cardinality(coming) /\ b = Cardinality(going)
      OBVIOUS
    <3>3. \/ t \in available_workers_ /\ a = 0 /\ busy = 0 /\ b = 0
          \/ t \notin available_workers_ /\ a = 1 /\ busy = 0 /\ b = 0
          \/ t \notin available_workers_ /\ a = 0 /\ busy = 1 /\ b = 0
          \/ t \notin available_workers_ /\ a = 0 /\ busy = 0 /\ b = 1
      BY <2>6, <3>1, <3>2, Zenon
    <3>4. \/ t \in available_workers_ /\ a + busy + b = 0
          \/ t \notin available_workers_ /\ a + busy + b = 1
      BY <3>3
    <3> QED BY <2>4, <2>5, <3>2, <3>4
  <2> QED BY <2>7 DEF assigned, coming, going, busy
<1> QED BY <1>1, Invariance, PTL

------------------------------------------------------------------------------
(* One instance of a task at a time.                                        *)

\* Messages of a type, of which there is one at most.
LEMMA OneMore ==
  ASSUME NEW s, s \in Seq(ToSet(s)), NEW m, NEW type, AtMostOne(s, type),
         m.type # type \/ \A x \in ToSet(s) : x.type # type
  PROVE  AtMostOne(Append(s, m), type)
<1> PICK n \in Nat : n = Len(s) /\ DOMAIN s = 1 .. n
  BY SeqToSet
<1> PICK a : a = Append(s, m)
  OBVIOUS
<1>1. DOMAIN a = 1 .. n + 1 /\ a[n + 1] = m /\ \A i \in 1 .. n : a[i] = s[i] /\ s[i] \in ToSet(s)
  OBVIOUS
<1>2. \A i \in 1 .. n + 1 : i \in 1 .. n \/ i = n + 1
  OBVIOUS
<1>3. ASSUME NEW i \in 1 .. n + 1, NEW k \in 1 .. n + 1, a[i].type = type, a[k].type = type
      PROVE  i = k
  <2>1. CASE i \in 1 .. n /\ k \in 1 .. n
    BY <1>1, <1>3, <2>1 DEF AtMostOne
  <2>2. CASE m.type # type
    BY <1>1, <1>2, <1>3, <2>1, <2>2
  <2>3. CASE \A x \in ToSet(s) : x.type # type
    BY <1>1, <1>2, <1>3, <2>3
  <2> QED BY <2>2, <2>3
<1> QED BY <1>1, <1>3 DEF AtMostOne

LEMMA OneLess ==
  ASSUME NEW s, s \in Seq(ToSet(s)), s # <<>>, NEW type, AtMostOne(s, type)
  PROVE  /\ AtMostOne(Tail(s), type)
         /\ Head(s).type = type => \A x \in ToSet(Tail(s)) : x.type # type
<1> PICK n \in Nat : n = Len(s) /\ DOMAIN s = 1 .. n /\ n # 0
  BY SeqToSet
<1> PICK a : a = Tail(s)
  OBVIOUS
<1>1. DOMAIN a = 1 .. n - 1 /\ Head(s) = s[1] /\ \A i \in 1 .. n - 1 : a[i] = s[i + 1]
  OBVIOUS
<1>2. \A i \in 1 .. n - 1 : i + 1 \in 1 .. n /\ i + 1 # 1 /\ 1 \in 1 .. n
  OBVIOUS
<1>3. \A i, k \in 1 .. n : s[i].type = type /\ s[k].type = type => i = k
  BY DEF AtMostOne
<1>4. ASSUME NEW i \in 1 .. n - 1, NEW k \in 1 .. n - 1, a[i].type = type, a[k].type = type
      PROVE  i = k
  <2>1. i + 1 = k + 1
    BY <1>1, <1>2, <1>3, <1>4
  <2> QED BY <2>1
<1>5. ASSUME Head(s).type = type, NEW i \in 1 .. n - 1 PROVE a[i].type # type
  BY <1>1, <1>2, <1>3, <1>5
<1>6. \A x \in ToSet(a) : \E i \in 1 .. n - 1 : x = a[i]
  BY <1>1 DEF ToSet
<1> QED BY <1>1, <1>4, <1>5, <1>6 DEF AtMostOne

LEMMA LastOnlyTail ==
  ASSUME NEW s, s \in Seq(ToSet(s)), s # <<>>, NEW p, LastOnly(s, p)
  PROVE  /\ LastOnly(Tail(s), p)
         /\ \A x \in ToSet(Tail(s)) : SameTask(Head(s), x) => Local(Head(s).cluster, p) = {}
<1> PICK n \in Nat : n = Len(s) /\ DOMAIN s = 1 .. n /\ n # 0
  BY SeqToSet
<1> PICK a : a = Tail(s)
  OBVIOUS
<1>1. DOMAIN a = 1 .. n - 1 /\ Head(s) = s[1] /\ \A i \in 1 .. n - 1 : a[i] = s[i + 1]
  OBVIOUS
<1>2. \A i \in 1 .. n - 1 : i + 1 \in 1 .. n /\ 1 < i + 1 /\ 1 \in 1 .. n
  OBVIOUS
<1>3. \A i, k \in 1 .. n - 1 : i < k => i + 1 < k + 1
  OBVIOUS
<1>4. \A i, k \in 1 .. n : i < k /\ SameTask(s[i], s[k]) => Local(s[i].cluster, p) = {}
  BY DEF LastOnly
<1>5. ASSUME NEW i \in 1 .. n - 1, NEW k \in 1 .. n - 1, i < k, SameTask(a[i], a[k])
      PROVE  Local(a[i].cluster, p) = {}
  BY <1>1, <1>2, <1>3, <1>4, <1>5
<1>6. \A x \in ToSet(a) : \E i \in 1 .. n - 1 : x = a[i]
  BY <1>1 DEF ToSet
<1>7. ASSUME NEW i \in 1 .. n - 1, SameTask(s[1], a[i]) PROVE Local(s[1].cluster, p) = {}
  BY <1>1, <1>2, <1>4, <1>7
<1>8. LastOnly(a, p)
  BY <1>1, <1>5 DEF LastOnly
<1>9. \A x \in ToSet(a) : SameTask(s[1], x) => Local(s[1].cluster, p) = {}
  BY <1>6, <1>7
<1> QED BY <1>1, <1>8, <1>9

\* The indices of a concatenation.
LEMMA ConcatIndices ==
  ASSUME NEW s, s \in Seq(ToSet(s)), NEW r, r \in Seq(ToSet(r)), NEW a, a = s \o r,
         NEW n, n = Len(s), NEW l, l = Len(r)
  PROVE  /\ n \in Nat /\ l \in Nat
         /\ DOMAIN s = 1 .. n /\ DOMAIN r = 1 .. l /\ DOMAIN a = 1 .. n + l
         /\ \A i \in 1 .. n : a[i] = s[i]
         /\ \A i \in 1 .. n + l : i \in 1 .. n \/ (i - n \in 1 .. l /\ a[i] = r[i - n])
<1>0. n \in Nat /\ l \in Nat /\ DOMAIN s = 1 .. n /\ DOMAIN r = 1 .. l
  BY SeqToSet
<1> PICK T : T = ToSet(s) \cup ToSet(r)
  OBVIOUS
<1>1. s \in Seq(T) /\ r \in Seq(T)
  BY SeqToSet
<1>2. /\ a \in Seq(T) /\ Len(a) = n + l
      /\ \A i \in 1 .. n + l : a[i] = IF i <= n THEN s[i] ELSE r[i - n]
  BY <1>1, ConcatProperties
<1>3. DOMAIN a = 1 .. n + l
  BY <1>2
<1>4. \A i \in 1 .. n : a[i] = s[i]
  BY <1>0, <1>2
<1>5. \A i \in 1 .. n + l : i \in 1 .. n \/ (i - n \in 1 .. l /\ a[i] = r[i - n])
  BY <1>0, <1>2
<1> QED BY <1>0, <1>3, <1>4, <1>5

LEMMA OneInConcat ==
  ASSUME NEW s, s \in Seq(ToSet(s)), NEW r, r \in Seq(ToSet(r)), NEW type,
         AtMostOne(s, type), AtMostOne(r, type),
         (\A x \in ToSet(s) : x.type # type) \/ (\A x \in ToSet(r) : x.type # type)
  PROVE  AtMostOne(s \o r, type)
<1> PICK a, n, l : a = s \o r /\ n = Len(s) /\ l = Len(r)
  OBVIOUS
<1>0. /\ n \in Nat /\ l \in Nat
      /\ DOMAIN s = 1 .. n /\ DOMAIN r = 1 .. l /\ DOMAIN a = 1 .. n + l
      /\ \A i \in 1 .. n : a[i] = s[i]
      /\ \A i \in 1 .. n + l : i \in 1 .. n \/ (i - n \in 1 .. l /\ a[i] = r[i - n])
  BY ConcatIndices
<1>1. (\A i \in 1 .. n : s[i] \in ToSet(s)) /\ (\A i \in 1 .. l : r[i] \in ToSet(r))
  BY <1>0 DEF ToSet
<1>2. ASSUME NEW i \in 1 .. n + l, NEW k \in 1 .. n + l, a[i].type = type, a[k].type = type
      PROVE  i = k
  <2>1. CASE \A x \in ToSet(s) : x.type # type
    <3>1. i - n \in 1 .. l /\ k - n \in 1 .. l /\ r[i - n].type = type /\ r[k - n].type = type
      BY <1>0, <1>1, <1>2, <2>1
    <3>2. i - n = k - n
      BY <1>0, <3>1 DEF AtMostOne
    <3> QED BY <3>2
  <2>2. CASE \A x \in ToSet(r) : x.type # type
    <3>1. i \in 1 .. n /\ k \in 1 .. n /\ s[i].type = type /\ s[k].type = type
      BY <1>0, <1>1, <1>2, <2>2
    <3> QED BY <1>0, <3>1 DEF AtMostOne
  <2> QED BY <2>1, <2>2
<1> QED BY <1>0, <1>2 DEF AtMostOne

LEMMA LastOnlyConcat ==
  ASSUME NEW s, s \in Seq(ToSet(s)), NEW r, r \in Seq(ToSet(r)), NEW p,
         LastOnly(s, p), LastOnly(r, p),
         \A x \in ToSet(s), y \in ToSet(r) : SameTask(x, y) => Local(x.cluster, p) = {}
  PROVE  LastOnly(s \o r, p)
<1> PICK a, n, l : a = s \o r /\ n = Len(s) /\ l = Len(r)
  OBVIOUS
<1>0. /\ n \in Nat /\ l \in Nat
      /\ DOMAIN s = 1 .. n /\ DOMAIN r = 1 .. l /\ DOMAIN a = 1 .. n + l
      /\ \A i \in 1 .. n : a[i] = s[i]
      /\ \A i \in 1 .. n + l : i \in 1 .. n \/ (i - n \in 1 .. l /\ a[i] = r[i - n])
  BY ConcatIndices
<1>1. (\A i \in 1 .. n : s[i] \in ToSet(s)) /\ (\A i \in 1 .. l : r[i] \in ToSet(r))
  BY <1>0 DEF ToSet
<1>2. ASSUME NEW i \in 1 .. n + l, NEW k \in 1 .. n + l, i < k, SameTask(a[i], a[k])
      PROVE  Local(a[i].cluster, p) = {}
  <2>1. CASE i \in 1 .. n /\ k \in 1 .. n
    BY <1>0, <1>2, <2>1 DEF LastOnly
  <2>2. CASE i \in 1 .. n /\ k - n \in 1 .. l /\ a[k] = r[k - n]
    BY <1>0, <1>1, <1>2, <2>2
  <2>3. CASE i - n \in 1 .. l /\ a[i] = r[i - n] /\ k - n \in 1 .. l /\ a[k] = r[k - n]
    <3>1. i - n < k - n
      BY <1>2
    <3> QED BY <1>0, <1>2, <2>3, <3>1 DEF LastOnly
  <2>4. i \notin 1 .. n => k \notin 1 .. n
    BY <1>2
  <2> QED BY <1>0, <2>1, <2>2, <2>3, <2>4
<1> QED BY <1>0, <1>2 DEF LastOnly

LEMMA InitialRuns == Init => RunsInv
<1> SUFFICES ASSUME Init PROVE RunsInv
  OBVIOUS
<1>0. 0 \in Procs /\ DOMAIN <<>> = {} /\ ToSet(<<>>) = {}
  BY SchedulerAssumption, EmptyFacts DEF Procs
<1>1. RunsTyped
  BY <1>0 DEF Init, RunsTyped
<1>2. Turns
  BY <1>0 DEF Init, Turns, Outside, Asked, Answered, AtMostOne, AtRest
<1>3. Marked
  BY <1>0 DEF Init, Marked, AtRest
<1>4. Unsent
  BY <1>0 DEF Init, Unsent
<1>5. \A p \in Procs, id \in TaskIds : BusyWith(p, id) = {}
  BY DEF Init, BusyWith
<1>6. OneInstance
  BY <1>0 DEF Init, OneInstance, LastOnly
<1>7. InstancesKept
  BY <1>5 DEF Init, InstancesKept
<1> QED BY <1>1, <1>2, <1>3, <1>4, <1>6, <1>7 DEF RunsInv

\* The parts of the invariant and what they are about.
LEMMA SameMarks ==
  ASSUME RunsInv, UNCHANGED <<task_scheduler_, task_id_pid_tids_, task_status_, tasks_, todo,
                              angry_list_>>
  PROVE  Marked'
BY DEF RunsInv, Marked, Sequential, Priority, AtRest

LEMMA SameUnsent ==
  ASSUME RunsInv, UNCHANGED <<extracted, task_id_pid_tids_, current_epoch_, cm_pc>>
  PROVE  Unsent'
BY DEF RunsInv, Unsent

LEMMA SameRuns ==
  ASSUME RunsInv, UNCHANGED <<toWorker, units_>>
  PROVE  OneInstance'
BY DEF RunsInv, OneInstance, LastOnly, BusyWith

LEMMA SameKept ==
  ASSUME RunsInv, UNCHANGED <<units_, instance_keeper_, instances_, loop>>
  PROVE  InstancesKept'
BY DEF RunsInv, InstancesKept, BusyWith

LEMMA SameTypes ==
  ASSUME RunsInv, UNCHANGED <<task_status_, instances_, instance_keeper_, loop, toWorker>>
  PROVE  RunsTyped'
BY DEF RunsInv, RunsTyped

LEMMA SameManager ==
  ASSUME RunsInv, UNCHANGED manager
  PROVE  /\ Marked' /\ Unsent'
         /\ UNCHANGED <<task_scheduler_, task_id_pid_tids_, task_status_, current_epoch_, cm_pc,
                        extracted>>
         /\ AtRest' = AtRest
<1>1. UNCHANGED <<task_scheduler_, task_id_pid_tids_, task_status_, tasks_, todo, angry_list_,
                  current_epoch_, cm_pc, extracted>>
  BY DEF manager, scheduler
<1>2. Marked'
  BY <1>1, SameMarks
<1>3. Unsent'
  BY <1>1, SameUnsent
<1>4. AtRest' = AtRest
  BY <1>1 DEF AtRest
<1> QED BY <1>1, <1>2, <1>3, <1>4

\* The state of a main loop, one process and the others.
LEMMA LoopStep ==
  ASSUME RunsTyped, NEW p \in Procs, NEW l, loop' = [loop EXCEPT ![p] = l]
  PROVE  /\ DOMAIN loop' = Procs /\ loop'[p] = l
         /\ \A q \in Procs : q # p => loop'[q] = loop[q]
BY DEF RunsTyped

LEMMA ZeroIsProc == 0 \in Procs
BY SchedulerAssumption DEF Procs

LEMMA SubmitRuns ==
  ASSUME Inv, RunsInv, NEW p \in Procs, Submit(p)
  PROVE  RunsInv'
<1> PICK l : l = [pc |-> "recv"]
  OBVIOUS
<1>1. /\ UNCHANGED <<manager, instances_, instance_keeper_, units_, toWorker>>
      /\ loop[p].pc = "out" /\ l.pc = "recv" /\ loop' = [loop EXCEPT ![p] = l]
  BY DEF Submit
<1>2. /\ DOMAIN loop' = Procs /\ loop'[p] = l
      /\ \A q \in Procs : q # p => loop'[q] = loop[q]
  BY <1>1, LoopStep DEF RunsInv
<1>3. /\ Marked' /\ Unsent'
      /\ UNCHANGED <<task_status_, task_id_pid_tids_, cm_pc>> /\ AtRest' = AtRest
  BY <1>1, SameManager
<1>4. OneInstance'
  BY <1>1, SameRuns
<1>5. InstancesKept'
  BY <1>1, <1>2 DEF RunsInv, InstancesKept, BusyWith
<1>6. RunsTyped'
  BY <1>1, <1>2, <1>3 DEF RunsInv, RunsTyped
<1>7. CASE p = 0
  <2> PICK s, m : s = toManager[0] /\ m = InitMessage(round[0] + 1)
    OBVIOUS
  <2> PICK a : a = Append(s, m)
    OBVIOUS
  <2>1. /\ s \in Seq(ToSet(s)) /\ m.type = "Init" /\ toManager'[0] = a
        /\ \A q \in Procs : q # 0 => toManager'[q] = toManager[q]
    BY <1>7, ZeroIsProc DEF Submit, Inv, MessagesFormed, InitMessage
  <2>2. ToSet(a) = ToSet(s) \cup {m}
    BY <2>1, AppendFacts
  <2>3. Outside /\ ~Asked /\ ~Answered /\ AtRest /\ cm_pc \notin {"extract", "angry", "assign"}
    BY <1>1, <1>7 DEF RunsInv, Turns, Outside
  <2>4. \A x \in ToSet(s) : x.type # "Init"
    BY <2>3 DEF Asked
  <2>5. AtMostOne(a, "Init")
    BY <2>1, <2>4, OneMore DEF RunsInv, Turns
  <2>6. ~Outside' /\ ~Answered' /\ AtMostOne(toWorker'[0], "Finished")
    BY <1>1, <1>2, <1>7, <2>3 DEF Outside, Answered, RunsInv, Turns
  <2>7. \A q \in Procs : \A x \in ToSet(toManager'[q]) : x.type = "Init" => q = 0
    BY <1>7, <2>1 DEF RunsInv, Turns
  <2>8. Turns'
    BY <1>3, <2>1, <2>3, <2>5, <2>6, <2>7 DEF Turns
  <2> QED BY <1>3, <1>4, <1>5, <1>6, <2>8 DEF RunsInv
<1>8. CASE p # 0
  <2>1. UNCHANGED toManager /\ loop'[0] = loop[0]
    BY <1>2, <1>8, ZeroIsProc DEF Submit
  <2>2. Turns'
    BY <1>1, <1>3, <2>1 DEF RunsInv, Turns, Outside, Asked, Answered, AtMostOne
  <2> QED BY <1>3, <1>4, <1>5, <1>6, <2>2 DEF RunsInv
<1> QED BY <1>7, <1>8

LEMMA ExitRuns ==
  ASSUME Inv, RunsInv, NEW p \in Procs, Exit(p)
  PROVE  RunsInv'
<1> PICK l : l = [pc |-> "exited"]
  OBVIOUS
<1>1. /\ UNCHANGED <<manager, instances_, instance_keeper_, units_, toWorker>>
      /\ loop[p].pc = "out" /\ l.pc = "exited" /\ loop' = [loop EXCEPT ![p] = l]
  BY DEF Exit
<1>2. /\ DOMAIN loop' = Procs /\ loop'[p] = l
      /\ \A q \in Procs : q # p => loop'[q] = loop[q]
  BY <1>1, LoopStep DEF RunsInv
<1>3. /\ Marked' /\ Unsent'
      /\ UNCHANGED <<task_status_, task_id_pid_tids_, cm_pc>> /\ AtRest' = AtRest
  BY <1>1, SameManager
<1>4. OneInstance'
  BY <1>1, SameRuns
<1>5. InstancesKept'
  BY <1>1, <1>2 DEF RunsInv, InstancesKept, BusyWith
<1>6. RunsTyped'
  BY <1>1, <1>2, <1>3 DEF RunsInv, RunsTyped
<1>7. Outside' = Outside
  BY <1>1, <1>2, ZeroIsProc DEF Outside
<1>8. CASE p = 0
  <2> PICK s, m : s = toManager[0] /\ m = ExitMessage
    OBVIOUS
  <2> PICK a : a = Append(s, m)
    OBVIOUS
  <2>1. /\ s \in Seq(ToSet(s)) /\ m.type = "Exit" /\ toManager'[0] = a
        /\ \A q \in Procs : q # 0 => toManager'[q] = toManager[q]
    BY <1>8, ZeroIsProc DEF Exit, Inv, MessagesFormed, ExitMessage
  <2>2. ToSet(a) = ToSet(s) \cup {m}
    BY <2>1, AppendFacts
  <2>3. AtMostOne(a, "Init")
    BY <2>1, OneMore DEF RunsInv, Turns
  <2>4. Asked' = Asked /\ Answered' = Answered
    BY <1>1, <2>1, <2>2 DEF Asked, Answered
  <2>5. \A q \in Procs : \A x \in ToSet(toManager'[q]) : x.type = "Init" => q = 0
    BY <2>1 DEF RunsInv, Turns
  <2>6. Turns'
    BY <1>1, <1>3, <1>7, <2>1, <2>3, <2>4, <2>5 DEF RunsInv, Turns
  <2> QED BY <1>3, <1>4, <1>5, <1>6, <2>6 DEF RunsInv
<1>9. CASE p # 0
  <2>1. UNCHANGED toManager /\ loop'[0] = loop[0]
    BY <1>2, <1>9, ZeroIsProc DEF Exit
  <2>2. Turns'
    BY <1>1, <1>3, <2>1 DEF RunsInv, Turns, Outside, Asked, Answered, AtMostOne
  <2> QED BY <1>3, <1>4, <1>5, <1>6, <2>2 DEF RunsInv
<1> QED BY <1>8, <1>9

\* A process takes a message from the manager: the others have not moved.
LEMMA TakesMessage ==
  ASSUME Inv, RunsInv, NEW p \in Procs, toWorker[p] # <<>>,
         toWorker' = [toWorker EXCEPT ![p] = Tail(@)]
  PROVE  /\ DOMAIN toWorker' = Procs /\ toWorker'[p] = Tail(toWorker[p])
         /\ \A q \in Procs : q # p => toWorker'[q] = toWorker[q]
         /\ \A q \in Procs : ToSet(toWorker'[q]) \subseteq ToSet(toWorker[q])
         /\ Head(toWorker[p]) \in ToSet(toWorker[p])
         /\ \A q \in Procs : LastOnly(toWorker'[q], q)
         /\ AtMostOne(toWorker'[0], "Finished")
         /\ p = 0 /\ Head(toWorker[p]).type = "Finished" =>
              \A x \in ToSet(toWorker'[0]) : x.type # "Finished"
         /\ Answered' => Answered
<1> PICK s, a : s = toWorker[p] /\ a = Tail(s)
  OBVIOUS
<1>1. s \in Seq(ToSet(s)) /\ s # <<>> /\ DOMAIN toWorker = Procs
  BY DEF Inv, MessagesFormed
<1>2. /\ DOMAIN toWorker' = Procs /\ toWorker'[p] = a
      /\ \A q \in Procs : q # p => toWorker'[q] = toWorker[q]
  BY <1>1
<1>3. ToSet(a) \subseteq ToSet(s) /\ Head(s) \in ToSet(s)
  BY <1>1, TailFacts
<1>4. LastOnly(a, p)
  BY <1>1, LastOnlyTail DEF RunsInv, OneInstance
<1>5. \A q \in Procs : LastOnly(toWorker'[q], q)
  BY <1>2, <1>4 DEF RunsInv, OneInstance
<1>6. p = 0 => AtMostOne(s, "Finished")
  BY DEF RunsInv, Turns
<1>7. p = 0 => /\ AtMostOne(a, "Finished")
               /\ Head(s).type = "Finished" => \A x \in ToSet(a) : x.type # "Finished"
  BY <1>1, <1>6, OneLess
<1>8. AtMostOne(toWorker'[0], "Finished")
  BY <1>2, <1>7, ZeroIsProc DEF RunsInv, Turns
<1>9. Answered' => Answered
  BY <1>2, <1>3, ZeroIsProc DEF Answered
<1> QED BY <1>2, <1>3, <1>5, <1>7, <1>8, <1>9

LEMMA LeaveLoopRuns ==
  ASSUME Inv, RunsInv, NEW p \in Procs, LeaveLoop(p)
  PROVE  RunsInv'
<1> PICK l : l = [pc |-> "out"]
  OBVIOUS
<1>1. /\ UNCHANGED <<manager, instances_, instance_keeper_, units_, toManager>>
      /\ loop[p].pc = "recv" /\ l.pc = "out" /\ loop' = [loop EXCEPT ![p] = l]
      /\ toWorker[p] # <<>> /\ Head(toWorker[p]).type = "Finished"
      /\ toWorker' = [toWorker EXCEPT ![p] = Tail(@)]
  BY DEF LeaveLoop, Arrived
<1>2. /\ DOMAIN loop' = Procs /\ loop'[p] = l
      /\ \A q \in Procs : q # p => loop'[q] = loop[q]
  BY <1>1, LoopStep DEF RunsInv
<1>3. /\ Marked' /\ Unsent'
      /\ UNCHANGED <<task_status_, task_id_pid_tids_, cm_pc>> /\ AtRest' = AtRest
  BY <1>1, SameManager
<1>4. /\ \A q \in Procs : ToSet(toWorker'[q]) \subseteq ToSet(toWorker[q])
      /\ Head(toWorker[p]) \in ToSet(toWorker[p])
      /\ \A q \in Procs : LastOnly(toWorker'[q], q)
      /\ AtMostOne(toWorker'[0], "Finished")
      /\ p = 0 /\ Head(toWorker[p]).type = "Finished" =>
           \A x \in ToSet(toWorker'[0]) : x.type # "Finished"
      /\ Answered' => Answered
  BY <1>1, TakesMessage
<1>5. OneInstance'
  BY <1>1, <1>4 DEF RunsInv, OneInstance, BusyWith
<1>6. InstancesKept'
  BY <1>1, <1>2 DEF RunsInv, InstancesKept, BusyWith
<1>7. RunsTyped'
  BY <1>1, <1>2, <1>3, <1>4 DEF RunsInv, RunsTyped
<1>8. Asked' = Asked
  BY <1>1 DEF Asked
<1>9. CASE p = 0
  <2>1. Answered /\ ~Asked /\ AtRest /\ cm_pc \notin {"extract", "angry", "assign"}
    BY <1>1, <1>4, <1>9 DEF RunsInv, Turns, Answered
  <2>2. ~Answered'
    BY <1>1, <1>4, <1>9 DEF Answered
  <2>3. Turns'
    BY <1>1, <1>3, <1>4, <1>8, <2>1, <2>2 DEF RunsInv, Turns
  <2> QED BY <1>3, <1>5, <1>6, <1>7, <2>3 DEF RunsInv
<1>10. CASE p # 0
  <2>1. Outside' = Outside
    BY <1>2, <1>10, ZeroIsProc DEF Outside
  <2>2. Turns'
    BY <1>1, <1>3, <1>4, <1>8, <2>1 DEF RunsInv, Turns
  <2> QED BY <1>3, <1>5, <1>6, <1>7, <2>2 DEF RunsInv
<1> QED BY <1>9, <1>10

LEMMA SendTaskRuns ==
  ASSUME Inv, RunsInv, NEW p \in Procs, SendTask(p)
  PROVE  RunsInv'
<1>1. /\ UNCHANGED <<manager, loop, instances_, instance_keeper_, units_, toManager>>
      /\ toWorker[p] # <<>> /\ toWorker' = [toWorker EXCEPT ![p] = Tail(@)]
  BY DEF SendTask, Arrived
<1>2. /\ Marked' /\ Unsent'
      /\ UNCHANGED <<task_status_, task_id_pid_tids_, cm_pc>> /\ AtRest' = AtRest
  BY <1>1, SameManager
<1>3. /\ \A q \in Procs : ToSet(toWorker'[q]) \subseteq ToSet(toWorker[q])
      /\ \A q \in Procs : LastOnly(toWorker'[q], q)
      /\ AtMostOne(toWorker'[0], "Finished")
      /\ Answered' => Answered
  BY <1>1, TakesMessage
<1>4. OneInstance'
  BY <1>1, <1>3 DEF RunsInv, OneInstance, BusyWith
<1>5. InstancesKept'
  BY <1>1, SameKept
<1>6. RunsTyped'
  BY <1>1, <1>2, <1>3 DEF RunsInv, RunsTyped
<1>7. Turns'
  BY <1>1, <1>2, <1>3 DEF RunsInv, Turns, Outside, Asked
<1> QED BY <1>2, <1>4, <1>5, <1>6, <1>7 DEF RunsInv

LEMMA TransferModelRuns ==
  ASSUME Inv, RunsInv, NEW p \in Procs, TransferModel(p)
  PROVE  RunsInv'
<1>1. UNCHANGED <<manager, loop, instances_, instance_keeper_, units_, toManager, toWorker>>
  BY DEF TransferModel
<1>2. /\ Marked' /\ Unsent'
      /\ UNCHANGED <<task_status_, task_id_pid_tids_, cm_pc>> /\ AtRest' = AtRest
  BY <1>1, SameManager
<1>3. Turns'
  BY <1>1, <1>2 DEF RunsInv, Turns, Outside, Asked, Answered, AtMostOne
<1> QED BY <1>1, <1>2, <1>3, SameRuns, SameKept, SameTypes DEF RunsInv

LEMMA RemoveInstanceRuns ==
  ASSUME Inv, RunsInv, NEW p \in Procs, RemoveInstance(p)
  PROVE  RunsInv'
<1> PICK l, id : l = [pc |-> "recv"] /\ id = loop[p].task
  OBVIOUS
<1>1. /\ UNCHANGED <<manager, instance_keeper_, units_, toManager, toWorker>>
      /\ loop[p].pc = "told" /\ l.pc = "recv" /\ loop' = [loop EXCEPT ![p] = l]
      /\ instances_' = IF is_instance_done(p, id)
                         THEN [instances_ EXCEPT ![p] = @ \ {id}] ELSE instances_
  BY DEF RemoveInstance
<1>2. /\ DOMAIN loop' = Procs /\ loop'[p] = l
      /\ \A q \in Procs : q # p => loop'[q] = loop[q]
  BY <1>1, LoopStep DEF RunsInv
<1>3. /\ Marked' /\ Unsent'
      /\ UNCHANGED <<task_status_, task_id_pid_tids_, cm_pc>> /\ AtRest' = AtRest
  BY <1>1, SameManager
<1>4. OneInstance'
  BY <1>1, SameRuns
<1>5. id \in TaskIds /\ instances_ \in [Procs -> SUBSET TaskIds]
  BY <1>1 DEF RunsInv, RunsTyped
<1>6. /\ instances_' \in [Procs -> SUBSET TaskIds]
      /\ \A q \in Procs : q # p => instances_'[q] = instances_[q]
      /\ instances_'[p] = IF is_instance_done(p, id) THEN instances_[p] \ {id} ELSE instances_[p]
  BY <1>1, <1>5
<1>7. RunsTyped'
  BY <1>1, <1>2, <1>3, <1>6 DEF RunsInv, RunsTyped
<1>8. ASSUME NEW k \in instances_'[p] PROVE BusyWith(p, k) # {}
  <2>1. k \in instances_[p] /\ (k = id => ~is_instance_done(p, id))
    BY <1>6, <1>8
  <2>2. CASE k = id
    BY <1>5, <2>1, <2>2 DEF is_instance_done, RunsInv, InstancesKept
  <2>3. CASE k # id
    BY <1>1, <2>1, <2>3 DEF RunsInv, InstancesKept
  <2> QED BY <2>2, <2>3
<1>9. InstancesKept'
  <2>1. \A q, k : BusyWith(q, k)' = BusyWith(q, k)
    BY <1>1 DEF BusyWith
  <2> QED BY <1>1, <1>2, <1>6, <1>8, <2>1 DEF RunsInv, InstancesKept
<1>10. Outside' = Outside
  BY <1>1, <1>2, ZeroIsProc DEF Outside
<1>11. Turns'
  BY <1>1, <1>3, <1>10 DEF RunsInv, Turns, Asked, Answered, AtMostOne
<1> QED BY <1>3, <1>4, <1>7, <1>9, <1>11 DEF RunsInv

LEMMA ThreadEndsRuns ==
  ASSUME Inv, RunsInv, NEW t \in Threads, ThreadEnds(t)
  PROVE  RunsInv'
<1>1. UNCHANGED <<manager, loop, instances_, instance_keeper_, toManager, toWorker>>
  BY DEF ThreadEnds
<1>2. /\ Marked' /\ Unsent'
      /\ UNCHANGED <<task_status_, task_id_pid_tids_, cm_pc>> /\ AtRest' = AtRest
  BY <1>1, SameManager
<1>3. Turns'
  BY <1>1, <1>2 DEF RunsInv, Turns, Outside, Asked, Answered, AtMostOne
<1>4. /\ units_[t] # Free /\ units_[t].task \in TaskIds /\ DOMAIN units_[t] = DOMAIN Free
  BY DEF ThreadEnds, Free, Inv, UnitsFormed
<1>5. /\ \A o \in Threads : o # t => units_'[o] = units_[o]
      /\ units_'[t].task = units_[t].task
  BY <1>4 DEF ThreadEnds, Inv, UnitsFormed, Free
<1>6. units_'[t] # Free
  <2>1. Free.task \notin TaskIds
    BY ClusterAssumption DEF Free
  <2> QED BY <1>4, <1>5, <2>1
<1>7. \A q, k : BusyWith(q, k)' = BusyWith(q, k)
  BY <1>4, <1>5, <1>6 DEF BusyWith
<1>8. OneInstance'
  BY <1>1, <1>7 DEF RunsInv, OneInstance, LastOnly
<1>9. InstancesKept'
  BY <1>1, <1>7 DEF RunsInv, InstancesKept
<1> QED BY <1>1, <1>2, <1>3, <1>8, <1>9, SameTypes DEF RunsInv

LEMMA WorkerFinishThreadRuns ==
  ASSUME Inv, RunsInv, NEW t \in Threads, WorkerFinishThread(t)
  PROVE  RunsInv'
<1> PICK p \in Procs : p = get_process_id(t)
  BY ProcOf
<1> PICK id, l, m : id = units_[t].task /\ l = [pc |-> "told", task |-> id] /\ m = ThreadFinished(id, t)
  OBVIOUS
<1>1. /\ UNCHANGED <<manager, instances_, toWorker>>
      /\ loop[p].pc = "recv" /\ l.pc = "told" /\ l.task = id /\ loop' = [loop EXCEPT ![p] = l]
      /\ units_[t] # Free /\ units_' = [units_ EXCEPT ![t] = Free]
      /\ instance_keeper_' = [instance_keeper_ EXCEPT ![p][id] = @ \ {t}]
      /\ toManager' = [toManager EXCEPT ![p] = Append(@, m)] /\ m.type = "ThreadFinished"
  BY DEF WorkerFinishThread, ThreadFinished
<1>2. /\ DOMAIN loop' = Procs /\ loop'[p] = l
      /\ \A q \in Procs : q # p => loop'[q] = loop[q]
  BY <1>1, LoopStep DEF RunsInv
<1>3. /\ Marked' /\ Unsent'
      /\ UNCHANGED <<task_status_, task_id_pid_tids_, cm_pc>> /\ AtRest' = AtRest
  BY <1>1, SameManager
<1>4. id \in TaskIds
  BY <1>1 DEF Inv, UnitsFormed
<1>5. units_'[t] = Free /\ \A o \in Threads : o # t => units_'[o] = units_[o]
  BY <1>1 DEF Inv, UnitsFormed
<1>6. \A q \in Procs, k \in TaskIds :
        BusyWith(q, k)' = IF q = p /\ k = id THEN BusyWith(q, k) \ {t} ELSE BusyWith(q, k)
  BY <1>1, <1>5 DEF BusyWith
<1>7. \A q \in Procs : \A k : BusyWith(q, k)' \subseteq BusyWith(q, k)
  BY <1>5 DEF BusyWith
<1>8. /\ instance_keeper_' \in [Procs -> [TaskIds -> SUBSET Threads]]
      /\ \A q \in Procs, k \in TaskIds :
           instance_keeper_'[q][k] = IF q = p /\ k = id THEN instance_keeper_[q][k] \ {t}
                                     ELSE instance_keeper_[q][k]
  <2>1. instance_keeper_ \in [Procs -> [TaskIds -> SUBSET Threads]]
    BY DEF RunsInv, RunsTyped
  <2>2. PICK row : row = [instance_keeper_[p] EXCEPT ![id] = @ \ {t}]
    OBVIOUS
  <2>3. row \in [TaskIds -> SUBSET Threads] /\ \A k \in TaskIds : row[k] =
          IF k = id THEN instance_keeper_[p][k] \ {t} ELSE instance_keeper_[p][k]
    <3>1. PICK old : old = instance_keeper_[p] /\ old \in [TaskIds -> SUBSET Threads]
      BY <2>1
    <3>2. PICK rest : rest = old[id] \ {t} /\ rest \in SUBSET Threads
      BY <1>4, <3>1
    <3>3. row = [old EXCEPT ![id] = rest]
      BY <2>2, <3>1, <3>2
    <3> QED BY <1>4, <3>1, <3>2, <3>3
  <2>4. instance_keeper_' = [instance_keeper_ EXCEPT ![p] = row]
    BY <1>1, <2>2
  <2>5. /\ instance_keeper_' \in [Procs -> [TaskIds -> SUBSET Threads]]
        /\ instance_keeper_'[p] = row
        /\ \A q \in Procs : q # p => instance_keeper_'[q] = instance_keeper_[q]
    BY <2>1, <2>3, <2>4
  <2> QED BY <2>3, <2>5
<1>9. OneInstance'
  BY <1>1, <1>7 DEF RunsInv, OneInstance, LastOnly
<1>10. InstancesKept'
  <2>1. \A q \in Procs, k \in TaskIds : instance_keeper_'[q][k] = BusyWith(q, k)'
    <3>1. \A q \in Procs, k \in TaskIds : instance_keeper_[q][k] = BusyWith(q, k)
      BY DEF RunsInv, InstancesKept
    <3> SUFFICES ASSUME NEW q \in Procs, NEW k \in TaskIds
                 PROVE  instance_keeper_'[q][k] = BusyWith(q, k)'
      OBVIOUS
    <3>2. CASE q = p /\ k = id
      <4>1. BusyWith(q, k)' = BusyWith(q, k) \ {t}
        BY <1>6, <3>2
      <4>2. instance_keeper_'[q][k] = instance_keeper_[q][k] \ {t}
        BY <1>8, <3>2
      <4> QED BY <3>1, <4>1, <4>2
    <3>3. CASE ~(q = p /\ k = id)
      <4>1. BusyWith(q, k)' = BusyWith(q, k)
        BY <1>6, <3>3
      <4>2. instance_keeper_'[q][k] = instance_keeper_[q][k]
        BY <1>8, <3>3
      <4> QED BY <3>1, <4>1, <4>2
    <3> QED BY <3>2, <3>3
  <2>2. ASSUME NEW q \in Procs, NEW k \in instances_'[q]
        PROVE  BusyWith(q, k)' # {} \/ (loop'[q].pc = "told" /\ loop'[q].task = k)
    <3>1. k \in instances_[q] /\ k \in TaskIds
      BY <1>1, <2>2 DEF RunsInv, RunsTyped
    <3>2. CASE q = p /\ k = id
      BY <1>1, <1>2, <3>2
    <3>3. CASE q = p /\ k # id
      BY <1>1, <1>6, <3>1, <3>3 DEF RunsInv, InstancesKept
    <3>4. CASE q # p
      BY <1>2, <1>6, <3>1, <3>4 DEF RunsInv, InstancesKept
    <3> QED BY <3>2, <3>3, <3>4
  <2> QED BY <2>1, <2>2 DEF InstancesKept
<1>11. RunsTyped'
  BY <1>1, <1>2, <1>3, <1>4, <1>8 DEF RunsInv, RunsTyped
<1>12. Outside' = Outside /\ Answered' = Answered /\ toWorker'[0] = toWorker[0]
  BY <1>1, <1>2, ZeroIsProc DEF Outside, Answered
<1>13. Asked' = Asked /\ AtMostOne(toManager'[0], "Init")
       /\ \A q \in Procs : \A x \in ToSet(toManager'[q]) : x.type = "Init" => q = 0
  <2> PICK s, a : s = toManager[p] /\ a = Append(s, m)
    OBVIOUS
  <2>1. /\ s \in Seq(ToSet(s)) /\ toManager'[p] = a
        /\ \A q \in Procs : q # p => toManager'[q] = toManager[q]
    BY <1>1 DEF Inv, MessagesFormed
  <2>2. ToSet(a) = ToSet(s) \cup {m}
    BY <2>1, AppendFacts
  <2>3. p = 0 => AtMostOne(a, "Init")
    BY <1>1, <2>1, OneMore DEF RunsInv, Turns
  <2>4. AtMostOne(toManager'[0], "Init")
    BY <2>1, <2>3, ZeroIsProc DEF RunsInv, Turns
  <2>5. Asked' = Asked
    BY <1>1, <2>1, <2>2, ZeroIsProc DEF Asked
  <2> QED BY <1>1, <2>1, <2>2, <2>4, <2>5 DEF RunsInv, Turns
<1>14. Turns'
  BY <1>1, <1>3, <1>12, <1>13 DEF RunsInv, Turns
<1> QED BY <1>3, <1>9, <1>10, <1>11, <1>14 DEF RunsInv

LEMMA run_instanceRuns ==
  ASSUME Inv, RunsInv, NEW p \in Procs, run_instance(p)
  PROVE  RunsInv'
<1> PICK s, a, m, id : s = toWorker[p] /\ a = Tail(s) /\ m = Head(s) /\ id = m.task
  OBVIOUS
<1> PICK mine : mine = Local(m.cluster, p)
  OBVIOUS
<1>1. /\ UNCHANGED <<manager, loop, toManager>>
      /\ s # <<>> /\ m.type = "Task" /\ loop[p].pc = "recv"
      /\ toWorker' = [toWorker EXCEPT ![p] = Tail(@)]
      /\ IF mine = {} THEN UNCHANGED <<instances_, instance_keeper_>>
         ELSE /\ instances_' = [instances_ EXCEPT ![p] = @ \cup {id}]
              /\ instance_keeper_' = [instance_keeper_ EXCEPT ![p][id] = mine]
  BY DEF run_instance, Arrived
<1>2. /\ Marked' /\ Unsent'
      /\ UNCHANGED <<task_status_, task_id_pid_tids_, cm_pc>> /\ AtRest' = AtRest
  BY <1>1, SameManager
<1>3. /\ toWorker'[p] = a
      /\ \A q \in Procs : q # p => toWorker'[q] = toWorker[q]
      /\ \A q \in Procs : ToSet(toWorker'[q]) \subseteq ToSet(toWorker[q])
      /\ m \in ToSet(s)
      /\ \A q \in Procs : LastOnly(toWorker'[q], q)
      /\ AtMostOne(toWorker'[0], "Finished")
      /\ Answered' => Answered
  BY <1>1, TakesMessage
<1>4. id \in TaskIds /\ m.cluster \subseteq Threads /\ BusyWith(p, id) = {}
  BY <1>1, <1>3 DEF Inv, MessagesFormed, RunsInv, RunsTyped, OneInstance
<1>5. mine \subseteq Threads /\ \A t \in Threads : t \in mine <=> t \in m.cluster /\ get_process_id(t) = p
  BY <1>4 DEF Local
<1>6. \A t \in Threads :
        /\ t \in mine => units_'[t] # Free /\ units_'[t].task = id /\ units_[t] = Free
        /\ t \notin mine => units_'[t] = units_[t]
  <2>1. \A t \in Threads :
          units_'[t] = IF t \in mine
                       THEN [task |-> id, epoch |-> m.epoch, done |-> FALSE,
                             runs |-> IF IsAuto(m.task) /\ t # Leader(m.cluster) THEN 0 ELSE m.iters]
                       ELSE units_[t]
    BY DEF run_instance
  <2>2. Free.task \notin TaskIds
    BY ClusterAssumption DEF Free
  <2>3. ASSUME NEW t \in Threads, t \in mine PROVE units_'[t].task = id
    <3> PICK r : r = IF IsAuto(m.task) /\ t # Leader(m.cluster) THEN 0 ELSE m.iters
      OBVIOUS
    <3>1. units_'[t] = [task |-> id, epoch |-> m.epoch, done |-> FALSE, runs |-> r]
      BY <2>1, <2>3
    <3> QED BY <3>1
  <2>4. ASSUME NEW t \in Threads, t \in mine PROVE units_[t] = Free
    <3>1. Speaks(m, t) /\ get_process_id(t) = p
      BY <1>1, <1>5, <2>4 DEF Speaks
    <3>2. ~Silent(s, t)
      BY <1>3, <3>1 DEF Silent
    <3> QED BY <3>1, <3>2 DEF Inv, OnePlace, AtOnePlace
  <2> QED BY <1>4, <2>1, <2>2, <2>3, <2>4
<1>7. \A q \in Procs, k \in TaskIds :
        BusyWith(q, k)' = IF q = p /\ k = id THEN mine ELSE BusyWith(q, k)
  <2> SUFFICES ASSUME NEW q \in Procs, NEW k \in TaskIds
               PROVE  BusyWith(q, k)' = IF q = p /\ k = id THEN mine ELSE BusyWith(q, k)
    OBVIOUS
  <2>1. CASE q = p /\ k = id
    BY <1>4, <1>5, <1>6, <2>1 DEF BusyWith
  <2>2. CASE ~(q = p /\ k = id)
    BY <1>5, <1>6, <2>2 DEF BusyWith
  <2> QED BY <2>1, <2>2
<1>8. /\ instances_' \in [Procs -> SUBSET TaskIds]
      /\ instance_keeper_' \in [Procs -> [TaskIds -> SUBSET Threads]]
      /\ \A q \in Procs, k \in TaskIds :
           instance_keeper_'[q][k] = IF q = p /\ k = id THEN mine ELSE instance_keeper_[q][k]
      /\ \A q \in Procs : \A k \in instances_'[q] :
           k \in instances_[q] \/ (q = p /\ k = id /\ mine # {})
  <2>1. /\ instance_keeper_ \in [Procs -> [TaskIds -> SUBSET Threads]]
        /\ instances_ \in [Procs -> SUBSET TaskIds]
        /\ instance_keeper_[p][id] = {}
    BY <1>4 DEF RunsInv, RunsTyped, InstancesKept
  <2>2. CASE mine = {}
    BY <1>1, <2>1, <2>2
  <2>3. CASE mine # {}
    <3>1. PICK row : row = [instance_keeper_[p] EXCEPT ![id] = mine]
      OBVIOUS
    <3>2. row \in [TaskIds -> SUBSET Threads] /\ \A k \in TaskIds : row[k] =
            IF k = id THEN mine ELSE instance_keeper_[p][k]
      BY <1>4, <1>5, <2>1, <3>1
    <3>3. instance_keeper_' = [instance_keeper_ EXCEPT ![p] = row]
      BY <1>1, <2>3, <3>1
    <3>4. /\ instance_keeper_' \in [Procs -> [TaskIds -> SUBSET Threads]]
          /\ instance_keeper_'[p] = row
          /\ \A q \in Procs : q # p => instance_keeper_'[q] = instance_keeper_[q]
      BY <2>1, <3>2, <3>3
    <3>5. /\ instances_' \in [Procs -> SUBSET TaskIds]
          /\ instances_'[p] = instances_[p] \cup {id}
          /\ \A q \in Procs : q # p => instances_'[q] = instances_[q]
      BY <1>1, <1>4, <2>1, <2>3
    <3> QED BY <2>3, <3>2, <3>4, <3>5
  <2> QED BY <2>2, <2>3
<1>9. OneInstance'
  <2> SUFFICES ASSUME NEW q \in Procs, NEW x \in ToSet(toWorker'[q]), x.type = "Task"
               PROVE  BusyWith(q, x.task)' = {}
    BY <1>3 DEF OneInstance
  <2>1. x \in ToSet(toWorker[q]) /\ x.task \in TaskIds /\ BusyWith(q, x.task) = {}
    BY <1>3 DEF RunsInv, OneInstance, Inv, MessagesFormed
  <2>2. CASE q = p /\ x.task = id
    <3>1. s \in Seq(ToSet(s)) /\ LastOnly(s, p)
      BY DEF RunsInv, OneInstance, Inv, MessagesFormed
    <3>2. SameTask(m, x) /\ x \in ToSet(a)
      BY <1>1, <1>3, <2>2 DEF SameTask
    <3>3. mine = {}
      BY <1>1, <3>1, <3>2, LastOnlyTail
    <3> QED BY <1>7, <2>1, <2>2, <3>3
  <2>3. CASE ~(q = p /\ x.task = id)
    BY <1>7, <2>1, <2>3
  <2> QED BY <2>2, <2>3
<1>10. InstancesKept'
  <2>1. \A q \in Procs, k \in TaskIds : instance_keeper_'[q][k] = BusyWith(q, k)'
    BY <1>7, <1>8 DEF RunsInv, InstancesKept
  <2>2. ASSUME NEW q \in Procs, NEW k \in instances_'[q]
        PROVE  BusyWith(q, k)' # {} \/ (loop'[q].pc = "told" /\ loop'[q].task = k)
    <3>1. k \in TaskIds
      BY <1>8, <2>2
    <3>2. CASE q = p /\ k = id /\ mine # {}
      BY <1>4, <1>7, <3>2
    <3>3. CASE k \in instances_[q]
      <4>1. BusyWith(q, k) # {} \/ (loop[q].pc = "told" /\ loop[q].task = k)
        BY <3>3 DEF RunsInv, InstancesKept
      <4>2. ~(q = p /\ k = id)
        BY <1>1, <1>4, <4>1
      <4> QED BY <1>1, <1>7, <3>1, <4>1, <4>2
    <3> QED BY <1>8, <2>2, <3>2, <3>3
  <2> QED BY <2>1, <2>2 DEF InstancesKept
<1>11. RunsTyped'
  BY <1>1, <1>2, <1>3, <1>8 DEF RunsInv, RunsTyped
<1>12. Turns'
  BY <1>1, <1>2, <1>3 DEF RunsInv, Turns, Outside, Asked
<1> QED BY <1>2, <1>9, <1>10, <1>11, <1>12 DEF RunsInv

\* The manager takes a message.
LEMMA TakesReport ==
  ASSUME Inv, RunsInv, NEW p \in Procs, NEW type, Received(p, type)
  PROVE  /\ toManager'[p] = Tail(toManager[p])
         /\ \A q \in Procs : q # p => toManager'[q] = toManager[q]
         /\ \A q \in Procs : ToSet(toManager'[q]) \subseteq ToSet(toManager[q])
         /\ Head(toManager[p]) \in ToSet(toManager[p])
         /\ AtMostOne(toManager'[0], "Init")
         /\ type = "Init" => p = 0 /\ Asked /\ ~Asked'
         /\ Asked' => Asked
<1> PICK s, a : s = toManager[p] /\ a = Tail(s)
  OBVIOUS
<1>1. s \in Seq(ToSet(s)) /\ s # <<>> /\ Head(s).type = type /\ DOMAIN toManager = Procs
  BY DEF Received, Inv, MessagesFormed
<1>2. /\ toManager'[p] = a
      /\ \A q \in Procs : q # p => toManager'[q] = toManager[q]
  BY <1>1 DEF Received
<1>3. ToSet(a) \subseteq ToSet(s) /\ Head(s) \in ToSet(s)
  BY <1>1, TailFacts
<1>4. p = 0 => AtMostOne(s, "Init")
  BY DEF RunsInv, Turns
<1>5. p = 0 => /\ AtMostOne(a, "Init")
               /\ Head(s).type = "Init" => \A x \in ToSet(a) : x.type # "Init"
  BY <1>1, <1>4, OneLess
<1>6. AtMostOne(toManager'[0], "Init")
  BY <1>2, <1>5, ZeroIsProc DEF RunsInv, Turns
<1>7. type = "Init" => p = 0
  BY <1>1, <1>3 DEF RunsInv, Turns
<1>8. type = "Init" => Asked /\ ~Asked'
  BY <1>1, <1>2, <1>3, <1>5, <1>7 DEF Asked
<1>9. Asked' => Asked
  BY <1>2, <1>3, ZeroIsProc DEF Asked
<1> QED BY <1>2, <1>3, <1>6, <1>7, <1>8, <1>9

LEMMA ReceiveTasksRuns ==
  ASSUME Inv, RunsInv, NEW p \in Procs, ReceiveTasks(p)
  PROVE  RunsInv'
<1> PICK ids : ids = Rounds[task_scheduler_][Head(toManager[p]).round]
  OBVIOUS
<1>1. /\ UNCHANGED <<task_scheduler_, current_epoch_, task_id_pid_tids_, angry_list_, todo, extracted>>
      /\ UNCHANGED <<loop, instances_, instance_keeper_, units_, toWorker>>
      /\ Received(p, "Init") /\ init_tasks(ids)
  BY DEF ReceiveTasks, workers
<1>2. /\ \A q \in Procs : ToSet(toManager'[q]) \subseteq ToSet(toManager[q])
      /\ AtMostOne(toManager'[0], "Init")
      /\ Asked /\ ~Asked'
  BY <1>1, TakesReport
<1>3. AtRest /\ AtRest' /\ ~Outside /\ ~Answered
  BY <1>1, <1>2 DEF RunsInv, Turns, AtRest
<1>4. cm_pc = "recv" /\ todo = <<>> /\ extracted = <<>>
  BY <1>1 DEF Received, Inv, FirstRuns, RunsInv, Unsent
<1>5. Turns'
  BY <1>1, <1>2, <1>3 DEF RunsInv, Turns, Outside, Answered
<1>6. Unsent'
  BY <1>1, <1>4, EmptyFacts DEF Unsent
<1>7. /\ OneInstance' /\ InstancesKept'
  BY <1>1, SameRuns, SameKept
<1>8. task_status_' \in [TaskIds -> 0 .. 3]
  <2>1. CASE task_status_' = [id \in TaskIds |-> IF Contains(ids, id) THEN 0 ELSE 2]
    BY <2>1
  <2>2. CASE task_status_' = task_status_
    BY <2>2 DEF RunsInv, RunsTyped
  <2> QED BY <1>1, <2>1, <2>2 DEF init_tasks
<1>9. RunsTyped'
  BY <1>1, <1>8 DEF RunsInv, RunsTyped
<1>10. Marked'
  <2>1. Priority => ToSet(angry_list_) \subseteq ToSet(tasks_')
    <3> HAVE Priority
    <3>1. ToSet(angry_list_) \subseteq ToSet(tasks_)
      BY DEF RunsInv, Marked, Priority, Sequential
    <3>2. tasks_' = tasks_ \/ tasks_' = tasks_ \o ids
      BY <1>1 DEF init_tasks, NewTasks, add_tasks, Priority
    <3>3. tasks_ \in Seq(TaskIds) /\ ids \in Seq(TaskIds)
      <4>1. Rounds[task_scheduler_] \in Seq(Seq(TaskIds))
        BY ClusterAssumption DEF Inv, BooksTyped
      <4>2. Head(toManager[p]) \in ToSet(toManager[p])
        BY <1>1, TakesReport
      <4>3. Head(toManager[p]).round \in DOMAIN Rounds[task_scheduler_]
        BY <1>1, <4>2 DEF Received, Inv, MessagesFormed
      <4> QED BY <4>1, <4>3 DEF Inv, BooksTyped
    <3>4. tasks_ \in Seq(ToSet(tasks_)) /\ ids \in Seq(ToSet(ids))
      BY <3>3, SeqToSet
    <3>5. ToSet(tasks_ \o ids) = ToSet(tasks_) \cup ToSet(ids)
      BY <3>4, ConcatFacts
    <3> QED BY <3>1, <3>2, <3>5
  <2>2. Priority' = Priority /\ Sequential' = Sequential
    BY <1>1 DEF Priority, Sequential
  <2>3. ToSet(todo') = {}
    BY <1>1, <1>4, EmptyFacts
  <2> QED BY <1>1, <1>3, <1>4, <2>1, <2>2, <2>3 DEF Marked, AtRest
<1> QED BY <1>5, <1>6, <1>7, <1>9, <1>10 DEF RunsInv

LEMMA ReceiveExitRuns ==
  ASSUME Inv, RunsInv, NEW p \in Procs, ReceiveExit(p)
  PROVE  RunsInv'
<1>1. /\ UNCHANGED <<task_scheduler_, task_id_pid_tids_, task_status_, tasks_, todo, angry_list_,
                     current_epoch_, extracted>>
      /\ UNCHANGED <<loop, instances_, instance_keeper_, units_, toWorker>>
      /\ Received(p, "Exit") /\ cm_pc' = "exited"
  BY DEF ReceiveExit, scheduler, workers
<1>2. /\ \A q \in Procs : ToSet(toManager'[q]) \subseteq ToSet(toManager[q])
      /\ AtMostOne(toManager'[0], "Init")
      /\ Asked' => Asked
  BY <1>1, TakesReport
<1>3. extracted = <<>> /\ AtRest' = AtRest
  BY <1>1 DEF Received, RunsInv, Unsent, AtRest
<1>4. Turns'
  BY <1>1, <1>2, <1>3 DEF RunsInv, Turns, Outside, Answered
<1>5. Unsent'
  BY <1>1, <1>3, EmptyFacts DEF Unsent
<1> QED BY <1>1, <1>4, <1>5, SameMarks, SameRuns, SameKept, SameTypes DEF RunsInv

LEMMA BeginExtractRuns ==
  ASSUME Inv, RunsInv, BeginExtract
  PROVE  RunsInv'
<1>1. /\ UNCHANGED <<task_scheduler_, task_id_pid_tids_, task_status_, tasks_, angry_list_,
                     current_epoch_, extracted>>
      /\ UNCHANGED <<loop, instances_, instance_keeper_, units_, toWorker, toManager>>
      /\ cm_pc = "extract" /\ cm_pc' \in {"angry", "assign"}
      /\ todo' = IF Priority THEN angry_list_ ELSE ToExtract
  BY DEF BeginExtract, scheduler, workers
<1>2. ~Outside /\ ~Asked /\ ~Answered /\ extracted = <<>>
  BY <1>1 DEF RunsInv, Turns, Unsent
<1>3. Turns'
  BY <1>1, <1>2 DEF RunsInv, Turns, Outside, Asked, Answered, AtMostOne
<1>4. Unsent'
  BY <1>1, <1>2, EmptyFacts DEF Unsent
<1>5. Marked'
  <2>1. /\ Priority' = Priority /\ Sequential' = Sequential /\ AtRest' = AtRest
        /\ Priority => ~Sequential
    BY <1>1 DEF Priority, Sequential, AtRest
  <2>2. Sequential /\ todo' # <<>> => AtRest
    BY <1>1, <2>1 DEF ToExtract, MayExtractNext, AtRest
  <2>3. ~Sequential => ToSet(todo') \subseteq ToSet(tasks_)
    BY <1>1 DEF ToExtract, RunsInv, Marked
  <2> QED BY <1>1, <2>1, <2>2, <2>3 DEF RunsInv, Marked
<1> QED BY <1>1, <1>3, <1>4, <1>5, SameRuns, SameKept, SameTypes DEF RunsInv

LEMMA OrderByPriorityRuns ==
  ASSUME Inv, RunsInv, OrderByPriority
  PROVE  RunsInv'
<1>1. /\ UNCHANGED <<task_scheduler_, task_id_pid_tids_, task_status_, tasks_, angry_list_,
                     current_epoch_, extracted>>
      /\ UNCHANGED <<loop, instances_, instance_keeper_, units_, toWorker, toManager>>
      /\ cm_pc = "angry" /\ cm_pc' = "assign" /\ todo' \in Orders
  BY DEF OrderByPriority, scheduler, workers
<1>2. ~Outside /\ ~Asked /\ ~Answered
  BY <1>1 DEF RunsInv, Turns
<1>3. Turns'
  BY <1>1, <1>2 DEF RunsInv, Turns, Outside, Asked, Answered, AtMostOne
<1>4. Unsent'
  BY <1>1 DEF RunsInv, Unsent
<1>5. Marked'
  <2>1. /\ Priority' = Priority /\ Sequential' = Sequential /\ AtRest' = AtRest
        /\ Priority /\ ~Sequential
    BY <1>1 DEF Priority, Sequential, AtRest, Inv, FirstRuns
  <2>2. ToSet(todo') \subseteq ToSet(tasks_)
    <3> PICK ready : ready = {id \in ToSet(tasks_) : task_status_[id] = 0}
      OBVIOUS
    <3>1. todo' \in [1 .. Cardinality(ready) -> ready]
      BY <1>1 DEF Orders, SetToSeqs
    <3>2. \A i \in DOMAIN todo' : todo'[i] \in ready
      BY <3>1
    <3> QED BY <3>2 DEF ToSet
  <2> QED BY <1>1, <2>1, <2>2 DEF RunsInv, Marked
<1> QED BY <1>1, <1>3, <1>4, <1>5, SameRuns, SameKept, SameTypes DEF RunsInv

\* What finish_thread does to the books: the thread leaves those of its task,
\* whose epoch may be over when it was the last one.
ThreadLeaves(p, t, id) ==
  /\ t \in Threads /\ get_process_id(t) = p /\ id \in TaskIds /\ t \in task_id_pid_tids_[id]
  /\ units_[t] = Free /\ Silent(toWorker[p], t)
  /\ task_id_pid_tids_'[id] = task_id_pid_tids_[id] \ {t}
  /\ \A k \in TaskIds : k # id => task_id_pid_tids_'[k] = task_id_pid_tids_[k]
  /\ current_epoch_' \in [TaskIds -> Nat] /\ task_status_' \in [TaskIds -> 0 .. 3]
  /\ \A k \in TaskIds : k # id => /\ current_epoch_'[k] = current_epoch_[k]
                                  /\ task_status_'[k] = task_status_[k]
  /\ task_id_pid_tids_'[id] # {} =>
       /\ current_epoch_'[id] = current_epoch_[id] /\ task_status_'[id] = task_status_[id]
       /\ tasks_' = tasks_
  /\ task_id_pid_tids_'[id] = {} /\ ~IsAuto(id) => current_epoch_'[id] = current_epoch_[id] + 1
  /\ ~Sequential => tasks_' = tasks_
  /\ cm_pc = "recv" /\ todo = <<>> /\ extracted = <<>>

LEMMA FinishThread ==
  ASSUME Inv, RunsInv, NEW p \in Procs, ReceiveThreadFinished(p)
  PROVE  ThreadLeaves(p, Head(toManager[p]).thread, Head(toManager[p]).task)
<1> PICK t, id : t = Head(toManager[p]).thread /\ id = Head(toManager[p]).task
  OBVIOUS
<1> SUFFICES ThreadLeaves(p, t, id)
  OBVIOUS
<1> PICK s, m : s = toManager[p] /\ m = Head(s)
  OBVIOUS
<1> PICK left : left = task_id_pid_tids_[id] \ {t}
  OBVIOUS
<1>1. /\ Received(p, "ThreadFinished") /\ finish_thread(id, t) /\ cm_pc = "recv"
      /\ s \in Seq(ToSet(s)) /\ s # <<>> /\ m.type = "ThreadFinished"
  BY DEF ReceiveThreadFinished, Received, Inv, MessagesFormed
<1>2. m \in ToSet(s)
  BY <1>1, TailFacts
<1>3. id \in TaskIds /\ t \in Threads /\ get_process_id(t) = p /\ Speaks(m, t)
  BY <1>1, <1>2 DEF Inv, MessagesFormed, Speaks
<1>4. t \in task_id_pid_tids_[id]
  BY <1>2, <1>3 DEF Inv, Booked, NamedIn
<1>5. units_[t] = Free /\ Silent(toWorker[p], t)
  <2>1. AtOnePlace(t, t \in available_workers_, extracted, toWorker[p], units_[t] # Free, s)
    BY <1>3 DEF Inv, OnePlace
  <2>2. ~Silent(s, t)
    BY <1>2, <1>3 DEF Silent
  <2> QED BY <2>1, <2>2 DEF AtOnePlace
<1>6. TaskOf(id) = id
  BY <1>3, <1>4 DEF TaskOf, Inv, FirstRuns
<1>7. /\ task_id_pid_tids_' = [task_id_pid_tids_ EXCEPT ![id] = left]
      /\ IF left = {} /\ EpochDone(id)
           THEN /\ current_epoch_' = [current_epoch_ EXCEPT ![id] = current_epoch_[id] + 1]
                /\ \E st \in {0, 2} : task_status_' = [task_status_ EXCEPT ![id] = st]
                /\ tasks_' = tasks_ \/ Sequential
           ELSE UNCHANGED <<current_epoch_, task_status_, tasks_>>
  BY <1>1, <1>6 DEF finish_thread, InstanceDone, TasksAfter, StatusAfter
<1>8. /\ task_id_pid_tids_'[id] = left
      /\ \A k \in TaskIds : k # id => task_id_pid_tids_'[k] = task_id_pid_tids_[k]
  BY <1>3, <1>7 DEF Inv, BooksTyped
<1>9. /\ current_epoch_ \in [TaskIds -> Nat] /\ task_status_ \in [TaskIds -> 0 .. 3]
  BY DEF Inv, BooksTyped, RunsInv, RunsTyped
<1>10. todo = <<>> /\ extracted = <<>>
  BY <1>1 DEF Inv, FirstRuns, RunsInv, Unsent
<1>11. CASE left = {} /\ EpochDone(id)
  <2>1. /\ current_epoch_' \in [TaskIds -> Nat] /\ current_epoch_'[id] = current_epoch_[id] + 1
        /\ \A k \in TaskIds : k # id => current_epoch_'[k] = current_epoch_[k]
    BY <1>3, <1>7, <1>9, <1>11
  <2>2. /\ task_status_' \in [TaskIds -> 0 .. 3]
        /\ \A k \in TaskIds : k # id => task_status_'[k] = task_status_[k]
    BY <1>3, <1>7, <1>9, <1>11
  <2>3. ~Sequential => tasks_' = tasks_
    BY <1>7, <1>11
  <2> QED BY <1>1, <1>3, <1>4, <1>5, <1>8, <1>10, <1>11, <2>1, <2>2, <2>3 DEF ThreadLeaves
<1>12. CASE ~(left = {} /\ EpochDone(id))
  <2>1. ~IsAuto(id) => EpochDone(id)
    BY DEF EpochDone
  <2> QED BY <1>1, <1>3, <1>4, <1>5, <1>7, <1>8, <1>9, <1>10, <1>12, <2>1 DEF ThreadLeaves
<1> QED BY <1>11, <1>12

LEMMA ReceiveThreadFinishedRuns ==
  ASSUME Inv, RunsInv, NEW p \in Procs, ReceiveThreadFinished(p)
  PROVE  RunsInv'
<1> PICK t, id : t = Head(toManager[p]).thread /\ id = Head(toManager[p]).task
  OBVIOUS
<1>1. /\ UNCHANGED <<task_scheduler_, extracted, todo, angry_list_>>
      /\ UNCHANGED <<loop, instances_, instance_keeper_, units_, toWorker>>
      /\ Received(p, "ThreadFinished")
  BY DEF ReceiveThreadFinished, workers
<1>2. /\ t \in Threads /\ get_process_id(t) = p /\ id \in TaskIds /\ t \in task_id_pid_tids_[id]
      /\ task_id_pid_tids_'[id] = task_id_pid_tids_[id] \ {t}
      /\ \A k \in TaskIds : k # id => task_id_pid_tids_'[k] = task_id_pid_tids_[k]
      /\ task_status_' \in [TaskIds -> 0 .. 3]
      /\ \A k \in TaskIds : k # id => task_status_'[k] = task_status_[k]
      /\ task_id_pid_tids_'[id] # {} => task_status_'[id] = task_status_[id] /\ tasks_' = tasks_
      /\ ~Sequential => tasks_' = tasks_
      /\ cm_pc = "recv" /\ todo = <<>> /\ extracted = <<>>
  <2>1. ThreadLeaves(p, t, id)
    BY FinishThread
  <2> QED BY <2>1 DEF ThreadLeaves
<1>3. /\ \A q \in Procs : ToSet(toManager'[q]) \subseteq ToSet(toManager[q])
      /\ AtMostOne(toManager'[0], "Init") /\ (Asked' => Asked)
  BY <1>1, TakesReport
<1>4. ~AtRest
  BY <1>2 DEF AtRest
<1>5. ~Outside /\ ~Asked /\ ~Answered
  BY <1>4 DEF RunsInv, Turns
<1>6. Turns'
  BY <1>1, <1>3, <1>5 DEF RunsInv, Turns, Outside, Answered
<1>7. Unsent'
  BY <1>1, <1>2, EmptyFacts DEF Unsent
<1>8. RunsTyped'
  BY <1>1, <1>2 DEF RunsInv, RunsTyped
<1>9. Marked'
  <2>1. Priority' = Priority /\ Sequential' = Sequential
    BY <1>1 DEF Priority, Sequential
  <2>2. ASSUME ~Sequential, NEW k \in TaskIds, task_id_pid_tids_'[k] # {}
        PROVE  task_status_'[k] = 1 /\ k \in ToSet(tasks_')
    <3>1. task_id_pid_tids_[k] # {} /\ task_status_'[k] = task_status_[k]
      BY <1>2, <2>2
    <3> QED BY <1>2, <2>2, <3>1 DEF RunsInv, Marked
  <2> QED BY <1>1, <1>2, <2>1, <2>2 DEF RunsInv, Marked
<1> QED BY <1>1, <1>6, <1>7, <1>8, <1>9, SameRuns, SameKept DEF RunsInv

\* A task that is looked at and not skipped has no threads.
LEMMA NoThreads ==
  ASSUME Inv, RunsInv, todo # <<>>, NEW id, id = Head(todo), ~Skips(id)
  PROVE  id \in TaskIds /\ task_id_pid_tids_[id] = {}
<1>1. id \in TaskIds
  BY DEF Inv, BooksTyped
<1>2. CASE Sequential
  BY <1>1, <1>2 DEF RunsInv, Marked, AtRest
<1>3. CASE ~Sequential
  <2>1. task_status_[id] # 1
    BY <1>3 DEF Skips
  <2> QED BY <1>1, <1>3, <2>1 DEF RunsInv, Marked
<1> QED BY <1>1, <1>2, <1>3

LEMMA AssignRuns ==
  ASSUME Inv, RunsInv, Assign
  PROVE  RunsInv'
<1> PICK id : id = Head(todo)
  OBVIOUS
<1>1. /\ UNCHANGED <<task_scheduler_, tasks_, current_epoch_, toManager, toWorker>>
      /\ UNCHANGED <<loop, instances_, instance_keeper_, units_>>
      /\ cm_pc \in {"angry", "assign"} /\ todo # <<>> /\ todo' = Tail(todo)
  BY DEF Assign, workers
<1>2. id \in TaskIds /\ tasks_ \in Seq(TaskIds) /\ angry_list_ \in Seq(TaskIds) /\ todo \in Seq(TaskIds)
  BY <1>1 DEF Inv, BooksTyped
<1>3. ~Outside /\ ~Asked /\ ~Answered
  BY <1>1 DEF RunsInv, Turns
<1>4. Turns'
  BY <1>1, <1>3 DEF RunsInv, Turns, Outside, Asked, Answered, AtMostOne
<1>5. /\ OneInstance' /\ InstancesKept'
  BY <1>1, SameRuns, SameKept
<1>6. /\ Sequential' = Sequential /\ Priority' = Priority
      /\ Sequential => todo' = <<>>
  <2> PICK first : first = Head(tasks_)
    OBVIOUS
  <2>1. Sequential => todo = <<first>>
    BY <1>1 DEF Inv, FirstRuns
  <2>2. Tail(<<first>>) = <<>>
    OBVIOUS
  <2>3. Sequential => todo' = <<>>
    BY <1>1, <2>1, <2>2, Zenon
  <2> QED BY <1>1, <2>3 DEF Sequential, Priority
<1>7. ToSet(todo') \subseteq ToSet(todo) /\ id \in ToSet(todo)
  <2>1. todo \in Seq(ToSet(todo))
    BY <1>2, SeqToSet
  <2> QED BY <1>1, <2>1, TailFacts
<1>8. ~Sequential => id \in ToSet(tasks_) /\ ToSet(todo') \subseteq ToSet(tasks_)
  BY <1>7 DEF RunsInv, Marked
<1>9. CASE Skips(id)
  <2>1. UNCHANGED <<cm_pc, extracted, task_id_pid_tids_, task_status_, angry_list_>>
    BY <1>9 DEF Assign
  <2>2. Marked'
    BY <1>1, <1>6, <1>8, <2>1 DEF RunsInv, Marked
  <2> QED BY <1>1, <1>4, <1>5, <2>1, <2>2, SameUnsent, SameTypes DEF RunsInv
<1>10. ASSUME ~Skips(id), Fails(id) PROVE RunsInv'
  <2>1. /\ UNCHANGED <<extracted, task_id_pid_tids_>>
        /\ cm_pc' \in {cm_pc, "thrown"}
        /\ angry_list_' \in {angry_list_, Append(angry_list_, id)}
        /\ task_status_' = task_status_ \/ task_status_' = [task_status_ EXCEPT ![id] = 3]
    BY <1>10 DEF Fails, fail_sched
  <2>2. task_id_pid_tids_[id] = {}
    BY <1>1, <1>10, NoThreads
  <2>3. /\ task_status_' \in [TaskIds -> 0 .. 3]
        /\ \A k \in TaskIds : k # id => task_status_'[k] = task_status_[k]
    BY <1>2, <2>1 DEF RunsInv, RunsTyped
  <2>4. ~Sequential /\ Priority => ToSet(angry_list_') \subseteq ToSet(tasks_)
    <3>1. angry_list_ \in Seq(ToSet(angry_list_))
      BY <1>2, SeqToSet
    <3>2. ToSet(Append(angry_list_, id)) = ToSet(angry_list_) \cup {id}
      BY <3>1, AppendFacts
    <3> QED BY <1>8, <2>1, <3>2 DEF RunsInv, Marked
  <2>5. Marked'
    <3>1. AtRest' = AtRest
      BY <2>1 DEF AtRest
    <3> QED BY <1>1, <1>6, <1>8, <2>1, <2>2, <2>3, <2>4, <3>1 DEF RunsInv, Marked
  <2>6. Unsent'
    BY <1>1, <2>1 DEF RunsInv, Unsent
  <2>7. RunsTyped'
    BY <1>1, <2>3 DEF RunsInv, RunsTyped
  <2> QED BY <1>4, <1>5, <2>5, <2>6, <2>7 DEF RunsInv
<1>11. ASSUME ~Skips(id), NEW threads \in Selections(id), threads # {}, Succeeds(id, threads)
       PROVE  RunsInv'
  <2> PICK m : m = Instance(id, current_epoch_[id], threads, IF IsAuto(id) THEN policy_'.try_iters ELSE 1)
    OBVIOUS
  <2>1. /\ extracted' = Append(extracted, m)
        /\ task_id_pid_tids_' = [task_id_pid_tids_ EXCEPT ![id] = @ \cup threads]
        /\ task_status_' = [task_status_ EXCEPT ![id] = 1]
        /\ cm_pc' = cm_pc
        /\ angry_list_' \in {angry_list_, erase_angry_task(id)}
    BY <1>11 DEF Succeeds, AddInstance, record_and_track, suc_sched
  <2>2. m.task = id /\ m.cluster = threads /\ m.epoch = current_epoch_[id]
    BY DEF Instance
  <2>3. task_id_pid_tids_[id] = {}
    BY <1>1, <1>11, NoThreads
  <2>4. /\ task_id_pid_tids_'[id] = threads
        /\ \A k \in TaskIds : k # id => task_id_pid_tids_'[k] = task_id_pid_tids_[k]
    BY <1>2, <2>1, <2>3 DEF Inv, BooksTyped
  <2>5. /\ task_status_' \in [TaskIds -> 0 .. 3] /\ task_status_'[id] = 1
        /\ \A k \in TaskIds : k # id => task_status_'[k] = task_status_[k]
    BY <1>2, <2>1 DEF RunsInv, RunsTyped
  <2>6. ToSet(extracted') = ToSet(extracted) \cup {m}
    BY <2>1, AppendFacts DEF Inv, MessagesFormed
  <2>7. \A x \in ToSet(extracted) : x.task \in TaskIds /\ x.task # id
    BY <2>3 DEF RunsInv, Unsent, Inv, MessagesFormed
  <2>8. Unsent'
    <3>1. ASSUME NEW x \in ToSet(extracted')
          PROVE  /\ x.cluster # {} /\ x.cluster = task_id_pid_tids_'[x.task]
                 /\ x.epoch = current_epoch_'[x.task]
      <4>1. CASE x = m
        BY <1>1, <1>11, <2>2, <2>4, <4>1
      <4>2. CASE x \in ToSet(extracted)
        BY <1>1, <2>4, <2>7, <4>2 DEF RunsInv, Unsent
      <4> QED BY <2>6, <3>1, <4>1, <4>2
    <3>2. \A x, y \in ToSet(extracted') : x.task = y.task => x = y
      BY <2>2, <2>6, <2>7 DEF RunsInv, Unsent
    <3> QED BY <1>1, <2>1, <3>1, <3>2 DEF Unsent
  <2>9. ~Sequential /\ Priority => ToSet(angry_list_') \subseteq ToSet(tasks_)
    <3> HAVE ~Sequential /\ Priority
    <3> PICK T : T = ToSet(tasks_)
      OBVIOUS
    <3>1. ToSet(angry_list_) \subseteq T
      BY DEF RunsInv, Marked
    <3>2. angry_list_ \in Seq(ToSet(angry_list_))
      BY <1>2, SeqToSet
    <3>3. angry_list_ \in Seq(T)
      BY <3>1, <3>2
    <3>4. erase_angry_task(id) \in Seq(T)
      BY <3>3, EraseTyped
    <3>5. angry_list_' \in Seq(T)
      BY <2>1, <3>3, <3>4
    <3> QED BY <3>5, SeqToSet
  <2>10. Marked'
    BY <1>1, <1>6, <1>8, <2>4, <2>5, <2>9 DEF RunsInv, Marked
  <2>11. RunsTyped'
    BY <1>1, <2>5 DEF RunsInv, RunsTyped
  <2> QED BY <1>4, <1>5, <2>8, <2>10, <2>11 DEF RunsInv
<1>12. CASE ~Skips(id)
  <2>1. PICK threads \in Selections(id) : IF threads # {} THEN Succeeds(id, threads) ELSE Fails(id)
    BY <1>12 DEF Assign
  <2> QED BY <1>10, <1>11, <1>12, <2>1
<1> QED BY <1>9, <1>12

\* What is on the way to a process when the instances have been sent: what was
\* there, the instances and the end of the round.
OnTheWay(p, s, sent, b, e) ==
  /\ s = toWorker[p]
  /\ sent = FlattenSeq([i \in DOMAIN extracted |-> ToOneProcess(extracted[i], p)])
  /\ b = s \o sent /\ e = IF is_finished THEN <<Finished>> ELSE <<>>
  /\ toWorker'[p] = b \o e
  /\ s \in Seq(ToSet(s)) /\ sent \in Seq(ToSet(sent)) /\ e \in Seq(ToSet(e)) /\ b \in Seq(ToSet(b))
  /\ ToSet(b) = ToSet(s) \cup ToSet(sent) /\ ToSet(toWorker'[p]) = ToSet(b) \cup ToSet(e)
  /\ \A m \in ToSet(sent) : m \in ToSet(extracted) \/ m.type = "DirectTransferModel"
  /\ \A t : Once(extracted, t) => Once(sent, t)
  /\ \A m \in ToSet(e) : is_finished /\ m.type = "Finished"
  /\ \A i, k \in DOMAIN e : i = k
  /\ is_finished => \E m \in ToSet(e) : m.type = "Finished"

LEMMA SendParts ==
  ASSUME Inv, Send, NEW p \in Procs
  PROVE  \E s, sent, b, e : OnTheWay(p, s, sent, b, e)
<1> PICK s, sent, e : /\ s = toWorker[p]
                      /\ sent = FlattenSeq([i \in DOMAIN extracted |-> ToOneProcess(extracted[i], p)])
                      /\ e = IF is_finished THEN <<Finished>> ELSE <<>>
  OBVIOUS
<1> PICK b : b = s \o sent
  OBVIOUS
<1>1. toWorker'[p] = b \o e
  BY DEF Send
<1>2. s \in Seq(ToSet(s)) /\ MessagesFormed
  BY DEF Inv, MessagesFormed
<1>3. /\ sent \in Seq(ToSet(sent))
      /\ \A m \in ToSet(sent) : m \in ToSet(extracted) \/ m.type = "DirectTransferModel"
      /\ \A t : Once(extracted, t) => Once(sent, t)
  BY <1>2, SentFacts
<1>4. b \in Seq(ToSet(b)) /\ ToSet(b) = ToSet(s) \cup ToSet(sent)
  BY <1>2, <1>3, ConcatFacts
<1>5. /\ e \in Seq(ToSet(e)) /\ \A m \in ToSet(e) : is_finished /\ m.type = "Finished"
      /\ \A i, k \in DOMAIN e : i = k
      /\ is_finished => \E m \in ToSet(e) : m.type = "Finished"
  <2>1. CASE ~is_finished
    <3>1. e = <<>> /\ DOMAIN <<>> = {}
      BY <2>1
    <3> QED BY <2>1, <3>1, EmptyFacts
  <2>2. CASE is_finished
    <3> PICK f : f = Finished
      OBVIOUS
    <3>1. <<f>> \in Seq({f}) /\ <<f>>[1] = f /\ Len(<<f>>) = 1
      OBVIOUS
    <3>2. DOMAIN <<f>> = 1 .. 1 /\ 1 .. 1 = {1}
      BY <3>1
    <3>3. DOMAIN e = {1} /\ e[1] = f /\ e \in Seq({f})
      BY <2>2, <3>1, <3>2, Zenon
    <3>4. ToSet(e) = {f} /\ f.type = "Finished"
      BY <3>3 DEF ToSet, Finished
    <3> QED BY <2>2, <3>3, <3>4
  <2> QED BY <2>1, <2>2
<1>6. ToSet(b \o e) = ToSet(b) \cup ToSet(e)
  BY <1>4, <1>5, ConcatFacts
<1>7. OnTheWay(p, s, sent, b, e)
  BY <1>1, <1>2, <1>3, <1>4, <1>5, <1>6 DEF OnTheWay
<1> QED BY <1>7

\* When all tasks are done nothing runs.
LEMMA FinishedAtRest ==
  ASSUME Inv, RunsInv, is_finished
  PROVE  AtRest
<1>1. CASE Sequential
  BY <1>1 DEF is_finished, AtRest, Inv, FirstRuns
<1>2. CASE ~Sequential
  <2>1. \A id \in ToSet(tasks_) : task_status_[id] = 2
    BY <1>2 DEF is_finished, AllFinished, ToSet
  <2> QED BY <1>2, <2>1 DEF AtRest, RunsInv, Marked
<1> QED BY <1>1, <1>2

\* The threads of an instance not yet sent are nowhere else.
LEMMA OnlyUnsent ==
  ASSUME Inv, RunsInv, NEW m \in ToSet(extracted)
  PROVE  /\ m.type = "Task" /\ m.task \in TaskIds /\ m.cluster # {} /\ m.cluster \subseteq Threads
         /\ m.cluster = task_id_pid_tids_[m.task]
         /\ \A t \in m.cluster : /\ Once(extracted, t) /\ units_[t] = Free
                                 /\ Silent(toWorker[get_process_id(t)], t)
<1>1. /\ m.type = "Task" /\ m.task \in TaskIds /\ m.cluster # {}
      /\ m.cluster = task_id_pid_tids_[m.task]
  BY DEF RunsInv, Unsent, Inv, MessagesFormed
<1>2. m.cluster \subseteq Threads
  BY <1>1 DEF Inv, BooksTyped
<1>3. ASSUME NEW t \in m.cluster
      PROVE  /\ Once(extracted, t) /\ units_[t] = Free
             /\ Silent(toWorker[get_process_id(t)], t)
  <2>1. ~Silent(extracted, t)
    BY <1>1 DEF Silent, Speaks
  <2> QED BY <1>2, <2>1 DEF Inv, OnePlace, AtOnePlace
<1> QED BY <1>1, <1>2, <1>3

\* An instance that is sent is the only one of its task with threads.
LEMMA SentAlone ==
  ASSUME Inv, RunsInv, NEW p \in Procs, NEW m \in ToSet(extracted)
  PROVE  /\ BusyWith(p, m.task) = {}
         /\ \A x \in ToSet(toWorker[p]) : SameTask(x, m) => Local(x.cluster, p) = {}
<1>1. /\ m.type = "Task" /\ m.task \in TaskIds
      /\ m.cluster = task_id_pid_tids_[m.task]
      /\ \A t \in m.cluster : units_[t] = Free /\ Silent(toWorker[get_process_id(t)], t)
  BY OnlyUnsent
<1>2. ASSUME NEW t \in BusyWith(p, m.task) PROVE FALSE
  <2>1. t \in Threads /\ units_[t] # Free /\ units_[t].task = m.task
    BY <1>2 DEF BusyWith
  <2>2. t \in m.cluster
    BY <1>1, <2>1 DEF Inv, Booked
  <2> QED BY <1>1, <2>1, <2>2
<1>3. ASSUME NEW x \in ToSet(toWorker[p]), SameTask(x, m), NEW t \in Local(x.cluster, p) PROVE FALSE
  <2>1. x.type = "Task" /\ x.task = m.task /\ t \in x.cluster /\ get_process_id(t) = p
    BY <1>3 DEF SameTask, Local
  <2>2. t \in Threads /\ Speaks(x, t)
    BY <2>1 DEF RunsInv, RunsTyped, Speaks
  <2>3. t \in m.cluster
    BY <1>1, <2>1, <2>2 DEF Inv, Booked, NamedIn
  <2> QED BY <1>1, <2>1, <2>2, <2>3 DEF Silent
<1> QED BY <1>2, <1>3

LEMMA SendRuns ==
  ASSUME Inv, RunsInv, Send
  PROVE  RunsInv'
<1>1. /\ UNCHANGED <<task_scheduler_, task_id_pid_tids_, task_status_, tasks_, todo, angry_list_,
                     current_epoch_>>
      /\ UNCHANGED <<loop, instances_, instance_keeper_, units_, toManager>>
      /\ cm_pc = "assign" /\ cm_pc' = "recv" /\ extracted' = <<>>
  BY DEF Send, workers
<1>2. ~Outside /\ ~Asked /\ ~Answered
  BY <1>1 DEF RunsInv, Turns
<1>3. \A m, n \in ToSet(extracted) : m.task = n.task => m = n
  BY DEF RunsInv, Unsent
<1>4. ASSUME NEW p \in Procs
      PROVE  /\ LastOnly(toWorker'[p], p)
             /\ \A m \in ToSet(toWorker'[p]) : m.type = "Task" =>
                  m \in ToSet(toWorker[p]) \/ m \in ToSet(extracted)
             /\ \A m \in ToSet(toWorker'[p]) : m.type = "Finished" =>
                  m \in ToSet(toWorker[p]) \/ is_finished
             /\ (\A m \in ToSet(toWorker[p]) : m.type # "Finished")
                  => AtMostOne(toWorker'[p], "Finished")
  <2>0. PICK s, sent, b, e : OnTheWay(p, s, sent, b, e)
    BY SendParts, Zenon
  <2>1. /\ s = toWorker[p] /\ b = s \o sent /\ toWorker'[p] = b \o e
        /\ s \in Seq(ToSet(s)) /\ sent \in Seq(ToSet(sent)) /\ e \in Seq(ToSet(e)) /\ b \in Seq(ToSet(b))
        /\ ToSet(b) = ToSet(s) \cup ToSet(sent) /\ ToSet(toWorker'[p]) = ToSet(b) \cup ToSet(e)
        /\ \A m \in ToSet(sent) : m \in ToSet(extracted) \/ m.type = "DirectTransferModel"
        /\ \A t : Once(extracted, t) => Once(sent, t)
        /\ \A m \in ToSet(e) : is_finished /\ m.type = "Finished"
        /\ \A i, k \in DOMAIN e : i = k
        /\ is_finished => \E m \in ToSet(e) : m.type = "Finished"
    BY <2>0 DEF OnTheWay
  <2>2. \A m \in ToSet(extracted) : m.type = "Task"
    BY DEF Inv, MessagesFormed
  <2>3. LastOnly(sent, p)
    <3> SUFFICES ASSUME NEW i \in DOMAIN sent, NEW k \in DOMAIN sent, i < k, SameTask(sent[i], sent[k])
                 PROVE  FALSE
      BY DEF LastOnly
    <3> PICK m, n : m = sent[i] /\ n = sent[k]
      OBVIOUS
    <3>1. m \in ToSet(extracted) /\ n \in ToSet(extracted) /\ m.task = n.task
      <4>1. m \in ToSet(sent) /\ n \in ToSet(sent)
        BY DEF ToSet
      <4> QED BY <2>1, <4>1 DEF SameTask
    <3>2. m = n
      BY <1>3, <3>1
    <3>3. PICK t \in m.cluster : Once(extracted, t) /\ m.type = "Task"
      BY <3>1, OnlyUnsent
    <3>4. Once(sent, t) /\ Speaks(m, t)
      BY <2>1, <3>3 DEF Speaks
    <3>5. i = k
      BY <3>2, <3>4 DEF Once
    <3>6. i \in Nat
      BY <2>1, SeqToSet
    <3> QED BY <3>5, <3>6
  <2>4. LastOnly(s, p)
    BY <2>1 DEF RunsInv, OneInstance
  <2>5. ASSUME NEW x \in ToSet(s), NEW y \in ToSet(sent), SameTask(x, y)
        PROVE  Local(x.cluster, p) = {}
    <3>1. y \in ToSet(extracted)
      BY <2>1, <2>5 DEF SameTask
    <3> QED BY <2>1, <2>5, <3>1, SentAlone
  <2>6. LastOnly(b, p)
    BY <2>1, <2>3, <2>4, <2>5, LastOnlyConcat
  <2>7. LastOnly(e, p)
    <3>1. \A i, k \in DOMAIN e : ~(i < k)
      <4>1. \A i \in DOMAIN e : i \in Nat
        BY <2>1, SeqToSet
      <4> QED BY <2>1, <4>1
    <3> QED BY <3>1 DEF LastOnly
  <2>8. \A x \in ToSet(b), y \in ToSet(e) : ~SameTask(x, y)
    BY <2>1 DEF SameTask
  <2>9. LastOnly(b \o e, p)
    BY <2>1, <2>6, <2>7, <2>8, LastOnlyConcat
  <2>10. ASSUME \A m \in ToSet(s) : m.type # "Finished"
         PROVE  AtMostOne(b \o e, "Finished")
    <3>1. \A m \in ToSet(b) : m.type # "Finished"
      BY <2>1, <2>2, <2>10
    <3>2. AtMostOne(b, "Finished") /\ AtMostOne(e, "Finished")
      <4>1. \A i \in DOMAIN b : b[i] \in ToSet(b)
        BY DEF ToSet
      <4> QED BY <2>1, <3>1, <4>1 DEF AtMostOne
    <3> QED BY <2>1, <3>1, <3>2, OneInConcat
  <2> QED BY <2>1, <2>2, <2>9, <2>10
<1>5. OneInstance'
  <2> SUFFICES ASSUME NEW p \in Procs, NEW m \in ToSet(toWorker'[p]), m.type = "Task"
               PROVE  BusyWith(p, m.task)' = {}
    BY <1>4 DEF OneInstance
  <2>1. BusyWith(p, m.task)' = BusyWith(p, m.task)
    BY <1>1 DEF BusyWith
  <2>2. CASE m \in ToSet(toWorker[p])
    BY <2>1, <2>2 DEF RunsInv, OneInstance
  <2>3. CASE m \in ToSet(extracted)
    BY <2>1, <2>3, SentAlone
  <2> QED BY <1>4, <2>2, <2>3
<1>6. RunsTyped'
  <2>1. \A p \in Procs : \A m \in ToSet(toWorker'[p]) : m.type = "Task" => m.cluster \subseteq Threads
    BY <1>4, OnlyUnsent DEF RunsInv, RunsTyped
  <2> QED BY <1>1, <2>1 DEF RunsInv, RunsTyped
<1>7. Turns'
  <2>1. Answered' => is_finished
    BY <1>2, <1>4, ZeroIsProc DEF Answered
  <2>2. Answered' => AtRest'
    BY <1>1, <2>1, FinishedAtRest DEF AtRest
  <2>3. AtMostOne(toWorker'[0], "Finished")
    BY <1>2, <1>4, ZeroIsProc DEF Answered
  <2>4. ~Outside' /\ ~Asked'
    BY <1>1, <1>2 DEF Outside, Asked
  <2> QED BY <1>1, <2>2, <2>3, <2>4 DEF RunsInv, Turns
<1>8. Unsent'
  BY <1>1, EmptyFacts DEF Unsent
<1> QED BY <1>1, <1>5, <1>6, <1>7, <1>8, SameMarks, SameKept DEF RunsInv

\* The two invariants together.
THEOREM RunsInvariance == Spec => [](Inv /\ RunsInv)
<1>1. Inv /\ RunsInv /\ [Next]_vars => RunsInv'
  <2> SUFFICES ASSUME Inv, RunsInv, [Next]_vars PROVE RunsInv'
    OBVIOUS
  <2>1. CASE Manager
    BY <2>1, ReceiveTasksRuns, ReceiveThreadFinishedRuns, ReceiveExitRuns, BeginExtractRuns,
       OrderByPriorityRuns, AssignRuns, SendRuns DEF Manager
  <2>2. ASSUME NEW p \in Procs, MainLoop(p) PROVE RunsInv'
    BY <2>2, SubmitRuns, ExitRuns, run_instanceRuns, WorkerFinishThreadRuns, RemoveInstanceRuns,
       SendTaskRuns, LeaveLoopRuns DEF MainLoop
  <2>3. ASSUME NEW p \in Procs, TransferModel(p) PROVE RunsInv'
    BY <2>3, TransferModelRuns
  <2>4. ASSUME NEW t \in Threads, ThreadEnds(t) PROVE RunsInv'
    BY <2>4, ThreadEndsRuns
  <2>5. CASE UNCHANGED vars
    <3>1. /\ UNCHANGED <<manager, loop, instances_, instance_keeper_, units_, toManager, toWorker>>
      BY <2>5 DEF vars, workers
    <3>2. /\ Marked' /\ Unsent'
          /\ UNCHANGED <<task_status_, task_id_pid_tids_, cm_pc>> /\ AtRest' = AtRest
      BY <3>1, SameManager
    <3>3. Turns'
      BY <3>1, <3>2 DEF RunsInv, Turns, Outside, Asked, Answered, AtMostOne
    <3> QED BY <3>1, <3>2, <3>3, SameRuns, SameKept, SameTypes DEF RunsInv
  <2> QED BY <2>1, <2>2, <2>3, <2>4, <2>5 DEF Next
<1> QED BY <1>1, InitialRuns, Invariance, PTL DEF Spec

\* run_instance never finds an instance of the same task on its process, nor a
\* unit that is still joinable, although the manager is told that a thread is
\* done before the instance is removed: ASSERT_MSG in InstanceRunner holds.
THEOREM RunsOneInstance == Spec => []RunInstanceAsserts
<1>1. Inv /\ RunsInv => RunInstanceAsserts
  <2> SUFFICES ASSUME Inv, RunsInv, NEW p \in Procs, Arrived(p, "Task"), NEW m, m = Head(toWorker[p])
               PROVE  m.task \notin instances_[p] /\ \A t \in Local(m.cluster, p) : units_[t] = Free
    BY DEF RunInstanceAsserts
  <2>1. toWorker[p] # <<>> /\ m.type = "Task" /\ loop[p].pc = "recv"
    BY DEF Arrived
  <2>2. m \in ToSet(toWorker[p])
    BY <2>1, TailFacts DEF Inv, MessagesFormed
  <2>3. m.task \notin instances_[p]
    BY <2>1, <2>2 DEF RunsInv, OneInstance, InstancesKept
  <2>4. ASSUME NEW t \in Local(m.cluster, p) PROVE units_[t] = Free
    <3>1. t \in Threads /\ get_process_id(t) = p /\ Speaks(m, t)
      BY <2>1, <2>2 DEF Local, RunsInv, RunsTyped, Speaks
    <3>2. ~Silent(toWorker[p], t)
      BY <2>2, <3>1 DEF Silent
    <3> QED BY <3>1, <3>2 DEF Inv, OnePlace, AtOnePlace
  <2> QED BY <2>3, <2>4
<1> QED BY <1>1, RunsInvariance, PTL

------------------------------------------------------------------------------
(* Direct model transfer.                                                   *)

LEMMA OnceEachTail ==
  ASSUME NEW s, s \in Seq(ToSet(s)), s # <<>>, OnceEach(s)
  PROVE  /\ OnceEach(Tail(s))
         /\ \A x \in ToSet(Tail(s)) : ~SameOrder(Head(s), x)
<1> PICK n \in Nat : n = Len(s) /\ DOMAIN s = 1 .. n /\ n # 0
  BY SeqToSet
<1> PICK a : a = Tail(s)
  OBVIOUS
<1>1. DOMAIN a = 1 .. n - 1 /\ Head(s) = s[1] /\ \A i \in 1 .. n - 1 : a[i] = s[i + 1]
  OBVIOUS
<1>2. \A i \in 1 .. n - 1 : i + 1 \in 1 .. n /\ 1 # i + 1 /\ 1 \in 1 .. n
  OBVIOUS
<1>3. \A i, k \in 1 .. n : SameOrder(s[i], s[k]) => i = k
  BY DEF OnceEach
<1>4. ASSUME NEW i \in 1 .. n - 1, NEW k \in 1 .. n - 1, SameOrder(a[i], a[k])
      PROVE  i = k
  <2>1. i + 1 = k + 1
    BY <1>1, <1>2, <1>3, <1>4
  <2> QED BY <2>1
<1>5. \A x \in ToSet(a) : \E i \in 1 .. n - 1 : x = a[i]
  BY <1>1 DEF ToSet
<1>6. \A i \in 1 .. n - 1 : ~SameOrder(s[1], a[i])
  BY <1>1, <1>2, <1>3
<1>7. OnceEach(a)
  BY <1>1, <1>4 DEF OnceEach
<1>8. \A x \in ToSet(a) : ~SameOrder(s[1], x)
  BY <1>5, <1>6
<1> QED BY <1>1, <1>7, <1>8

LEMMA OnceEachConcat ==
  ASSUME NEW s, s \in Seq(ToSet(s)), NEW r, r \in Seq(ToSet(r)), OnceEach(s), OnceEach(r),
         \A x \in ToSet(s), y \in ToSet(r) : ~SameOrder(x, y)
  PROVE  OnceEach(s \o r)
<1> PICK a, n, l : a = s \o r /\ n = Len(s) /\ l = Len(r)
  OBVIOUS
<1>0. /\ n \in Nat /\ l \in Nat
      /\ DOMAIN s = 1 .. n /\ DOMAIN r = 1 .. l /\ DOMAIN a = 1 .. n + l
      /\ \A i \in 1 .. n : a[i] = s[i]
      /\ \A i \in 1 .. n + l : i \in 1 .. n \/ (i - n \in 1 .. l /\ a[i] = r[i - n])
  BY ConcatIndices
<1>1. (\A i \in 1 .. n : s[i] \in ToSet(s)) /\ (\A i \in 1 .. l : r[i] \in ToSet(r))
  BY <1>0 DEF ToSet
<1>2. \A x, y : SameOrder(x, y) => SameOrder(y, x)
  BY DEF SameOrder
<1>3. ASSUME NEW i \in 1 .. n + l, NEW k \in 1 .. n + l, SameOrder(a[i], a[k])
      PROVE  i = k
  <2>1. CASE i \in 1 .. n /\ k \in 1 .. n
    BY <1>0, <1>3, <2>1 DEF OnceEach
  <2>2. CASE i \in 1 .. n /\ k - n \in 1 .. l /\ a[k] = r[k - n]
    BY <1>0, <1>1, <1>3, <2>2
  <2>3. CASE k \in 1 .. n /\ i - n \in 1 .. l /\ a[i] = r[i - n]
    BY <1>0, <1>1, <1>2, <1>3, <2>3
  <2>4. CASE i - n \in 1 .. l /\ a[i] = r[i - n] /\ k - n \in 1 .. l /\ a[k] = r[k - n]
    <3>1. i - n = k - n
      BY <1>0, <1>3, <2>4 DEF OnceEach
    <3> QED BY <1>0, <3>1
  <2> QED BY <1>0, <2>1, <2>2, <2>3, <2>4
<1> QED BY <1>0, <1>3 DEF OnceEach

LEMMA OnceEachAppend ==
  ASSUME NEW s, s \in Seq(ToSet(s)), OnceEach(s), NEW m,
         \A x \in ToSet(s) : ~SameOrder(m, x)
  PROVE  OnceEach(Append(s, m))
<1> PICK n \in Nat : n = Len(s) /\ DOMAIN s = 1 .. n
  BY SeqToSet
<1> PICK a : a = Append(s, m)
  OBVIOUS
<1>1. DOMAIN a = 1 .. n + 1 /\ a[n + 1] = m /\ \A i \in 1 .. n : a[i] = s[i] /\ s[i] \in ToSet(s)
  OBVIOUS
<1>2. \A i \in 1 .. n + 1 : i \in 1 .. n \/ i = n + 1
  OBVIOUS
<1>3. \A x, y : SameOrder(x, y) => SameOrder(y, x)
  BY DEF SameOrder
<1>4. ASSUME NEW i \in 1 .. n + 1, NEW k \in 1 .. n + 1, SameOrder(a[i], a[k])
      PROVE  i = k
  <2>1. CASE i \in 1 .. n /\ k \in 1 .. n
    BY <1>1, <1>4, <2>1 DEF OnceEach
  <2>2. CASE i \in 1 .. n /\ k = n + 1
    BY <1>1, <1>3, <1>4, <2>2
  <2>3. CASE k \in 1 .. n /\ i = n + 1
    BY <1>1, <1>4, <2>3
  <2> QED BY <1>2, <2>1, <2>2, <2>3
<1> QED BY <1>1, <1>4 DEF OnceEach

LEMMA InitialModels == Init => ModelsInv
<1> SUFFICES ASSUME Init PROVE ModelsInv
  OBVIOUS
<1>0. DOMAIN <<>> = {} /\ ToSet(<<>>) = {} /\ <<>> \in Seq(ToSet(<<>>)) /\ -1 \in Int
  BY EmptyFacts
<1>1. ModelsTyped
  <2>1. loaded \in [TaskIds -> Int] /\ model_store_ \in [Procs -> [TaskIds -> Int]]
    BY DEF Init
  <2>2. \A p \in Procs : transfers[p] = <<>> /\ toWorker[p] = <<>>
    BY DEF Init
  <2>3. DOMAIN transfers = Procs
    BY DEF Init
  <2> QED BY <1>0, <2>1, <2>2, <2>3 DEF ModelsTyped
<1>2. EpochsKept
  BY <1>0, ProcOf DEF Init, EpochsKept
<1>3. \A id \in TaskIds : ~Sent(id) /\ current_epoch_[id] = 0 /\ loaded[id] = -1
  BY DEF Init, Sent
<1>4. ModelsLeft
  BY <1>3 DEF ModelsLeft, ModelKept
<1>5. \A p \in Procs : toWorker[p] = <<>> /\ transfers[p] = <<>>
  BY DEF Init
<1>6. OrdersOnce
  BY <1>0, <1>5 DEF OrdersOnce, OnceEach
<1>7. OrdersServed
  BY <1>0, <1>5 DEF OrdersServed, Ordered
<1> QED BY <1>1, <1>2, <1>4, <1>6, <1>7 DEF ModelsInv

\* What is known of a task stays true while its books, its leader, its models
\* and the orders for it stay and its leader still has to run.
LEMMA ModelStays ==
  ASSUME ModelsInv, NEW id \in TaskIds,
         Sent(id)' <=> Sent(id), current_epoch_'[id] = current_epoch_[id],
         last_instance_'[id] = last_instance_[id], loaded'[id] = loaded[id],
         \A q \in Procs : model_store_'[q][id] = model_store_[q][id],
         \A t \in Threads : Pending(t, id) => Pending(t, id)',
         \A q \in Procs : Ordered(id, q)' => Ordered(id, q)
  PROVE  /\ Tasks[id].dmt => ModelKept(id)'
         /\ \A p \in Procs : Ordered(id, p)' => Served(id, p)'
<1> PICK t : t = last_instance_[id]
  OBVIOUS
<1>1. Pending(last_instance_[id], id)' <=> Pending(t, id)'
  BY DEF Pending
<1>2. ASSUME t \in Threads, Pending(last_instance_[id], id) PROVE Pending(last_instance_[id], id)'
  BY <1>1, <1>2
<1>3. \A e : ModelAt(id, e) => ModelAt(id, e)'
  BY ProcOf DEF ModelAt
<1>4. ModelAt(id, current_epoch_[id]) => ModelAt(id, current_epoch_[id])'
  BY <1>3 DEF ModelAt
<1>5. ModelAt(id, current_epoch_[id] - 1) => ModelAt(id, current_epoch_[id] - 1)'
  BY <1>3 DEF ModelAt
<1>6. Tasks[id].dmt => ModelKept(id)
  BY DEF ModelsInv, ModelsLeft
<1>7. Tasks[id].dmt => ModelKept(id)'
  BY <1>2, <1>4, <1>5, <1>6 DEF ModelKept
<1>8. ASSUME NEW p \in Procs, Ordered(id, p)' PROVE Served(id, p)'
  <2>1. Served(id, p)
    BY <1>8 DEF ModelsInv, OrdersServed
  <2>2. t \in Threads
    BY <1>6, <2>1 DEF Served, ModelKept
  <2> QED BY <1>2, <2>1, <2>2 DEF Served
<1> QED BY <1>7, <1>8

\* The parts of the invariant that the messages are about.
LEMMA SameMessages ==
  ASSUME ModelsInv, UNCHANGED <<toWorker, transfers, loaded, model_store_>>
  PROVE  ModelsTyped' /\ OrdersOnce' /\ \A id \in TaskIds, q \in Procs : Ordered(id, q)' <=> Ordered(id, q)
<1>1. ModelsTyped'
  BY DEF ModelsInv, ModelsTyped
<1>2. OrdersOnce'
  BY DEF ModelsInv, OrdersOnce, OnceEach
<1>3. \A id \in TaskIds, q \in Procs : Ordered(id, q)' <=> Ordered(id, q)
  BY DEF Ordered
<1> QED BY <1>1, <1>2, <1>3

LEMMA ModelsTogether ==
  ASSUME ModelsTyped', EpochsKept', OrdersOnce',
         \A id \in TaskIds : /\ Tasks[id].dmt => ModelKept(id)'
                             /\ \A p \in Procs : Ordered(id, p)' => Served(id, p)'
  PROVE  ModelsInv'
<1>1. ModelsLeft'
  BY DEF ModelsLeft
<1>2. OrdersServed'
  BY DEF OrdersServed
<1> QED BY <1>1, <1>2 DEF ModelsInv

\* The steps that touch no threads, messages to the processes or models.
LEMMA OtherModels ==
  ASSUME ModelsInv, UNCHANGED <<task_id_pid_tids_, extracted, current_epoch_, last_instance_,
                                units_, toWorker, transfers, loaded, model_store_>>
  PROVE  ModelsInv'
<1>1. ModelsTyped' /\ OrdersOnce' /\ \A id \in TaskIds, q \in Procs : Ordered(id, q)' <=> Ordered(id, q)
  BY SameMessages
<1>2. EpochsKept'
  BY DEF ModelsInv, EpochsKept
<1>3. \A t \in Threads, id \in TaskIds : Pending(t, id)' <=> Pending(t, id)
  BY DEF Pending
<1>4. \A id \in TaskIds : Sent(id)' <=> Sent(id)
  BY DEF Sent
<1>5. ASSUME NEW id \in TaskIds
      PROVE  /\ Tasks[id].dmt => ModelKept(id)'
             /\ \A p \in Procs : Ordered(id, p)' => Served(id, p)'
  BY <1>1, <1>3, <1>4, ModelStays
<1> QED BY <1>1, <1>2, <1>5, ModelsTogether

LEMMA HeadOrTail ==
  ASSUME NEW s, s \in Seq(ToSet(s)), s # <<>>
  PROVE  \A x \in ToSet(s) : x = Head(s) \/ x \in ToSet(Tail(s))
<1> PICK n \in Nat : n = Len(s) /\ DOMAIN s = 1 .. n /\ n # 0
  BY SeqToSet
<1> PICK a : a = Tail(s)
  OBVIOUS
<1>1. DOMAIN a = 1 .. n - 1 /\ Head(s) = s[1] /\ \A i \in 1 .. n - 1 : a[i] = s[i + 1]
  OBVIOUS
<1>2. ASSUME NEW i \in 1 .. n, i # 1 PROVE s[i] \in ToSet(a)
  <2>1. i - 1 \in 1 .. n - 1 /\ (i - 1) + 1 = i
    BY <1>2
  <2>2. a[i - 1] = s[i]
    BY <1>1, <2>1
  <2> QED BY <1>1, <2>1, <2>2 DEF ToSet
<1>3. \A x \in ToSet(s) : \E i \in 1 .. n : x = s[i]
  BY DEF ToSet
<1> QED BY <1>1, <1>2, <1>3

\* A thread that has yet to run is in the books of its task, which has been sent.
LEMMA PendingSent ==
  ASSUME Inv, RunsInv, NEW t \in Threads, NEW id \in TaskIds, Pending(t, id)
  PROVE  t \in task_id_pid_tids_[id] /\ Sent(id)
<1>1. t \in task_id_pid_tids_[id]
  BY DEF Pending, Inv, Booked, NamedIn
<1>2. ASSUME NEW m \in ToSet(extracted), m.task = id PROVE FALSE
  <2>1. /\ m.cluster = task_id_pid_tids_[m.task]
        /\ \A o \in m.cluster : units_[o] = Free /\ Silent(toWorker[get_process_id(o)], o)
    BY OnlyUnsent
  <2>2. units_[t] = Free /\ Silent(toWorker[get_process_id(t)], t)
    BY <1>1, <1>2, <2>1
  <2> QED BY <2>2 DEF Pending, Silent
<1> QED BY <1>1, <1>2 DEF Sent

\* A process takes a message from the manager.
LEMMA TakesOrder ==
  ASSUME Inv, RunsInv, ModelsInv, NEW p \in Procs, toWorker[p] # <<>>,
         toWorker' = [toWorker EXCEPT ![p] = Tail(@)]
  PROVE  /\ \A q \in Procs : ToSet(toWorker'[q]) \subseteq ToSet(toWorker[q])
         /\ \A q \in Procs : \A x \in ToSet(toWorker[q]) :
              x \in ToSet(toWorker'[q]) \/ (q = p /\ x = Head(toWorker[p]))
         /\ \A q \in Procs : OnceEach(toWorker'[q])
         /\ \A x \in ToSet(toWorker'[p]) : ~SameOrder(Head(toWorker[p]), x)
<1> PICK s, a : s = toWorker[p] /\ a = Tail(s)
  OBVIOUS
<1>1. s \in Seq(ToSet(s)) /\ s # <<>> /\ OnceEach(s)
  BY DEF Inv, MessagesFormed, ModelsInv, OrdersOnce
<1>2. /\ toWorker'[p] = a
      /\ \A q \in Procs : q # p => toWorker'[q] = toWorker[q]
      /\ \A q \in Procs : ToSet(toWorker'[q]) \subseteq ToSet(toWorker[q])
  BY TakesMessage
<1>3. OnceEach(a) /\ \A x \in ToSet(a) : ~SameOrder(Head(s), x)
  BY <1>1, OnceEachTail
<1>4. \A x \in ToSet(s) : x = Head(s) \/ x \in ToSet(a)
  BY <1>1, HeadOrTail
<1>5. \A q \in Procs : OnceEach(toWorker'[q])
  BY <1>2, <1>3 DEF ModelsInv, OrdersOnce
<1>6. \A q \in Procs : \A x \in ToSet(toWorker[q]) :
        x \in ToSet(toWorker'[q]) \/ (q = p /\ x = Head(toWorker[p]))
  BY <1>2, <1>4
<1> QED BY <1>2, <1>3, <1>5, <1>6

LEMMA LeaveLoopModels ==
  ASSUME Inv, RunsInv, ModelsInv, NEW p \in Procs, LeaveLoop(p)
  PROVE  ModelsInv'
<1>1. /\ UNCHANGED <<task_id_pid_tids_, extracted, current_epoch_, last_instance_, units_, transfers,
                     loaded, model_store_>>
      /\ toWorker[p] # <<>> /\ Head(toWorker[p]).type = "Finished"
      /\ toWorker' = [toWorker EXCEPT ![p] = Tail(@)]
  BY DEF LeaveLoop, Arrived, manager, scheduler, records, models
<1>2. /\ \A q \in Procs : ToSet(toWorker'[q]) \subseteq ToSet(toWorker[q])
      /\ \A q \in Procs : \A x \in ToSet(toWorker[q]) :
           x \in ToSet(toWorker'[q]) \/ (q = p /\ x = Head(toWorker[p]))
      /\ \A q \in Procs : OnceEach(toWorker'[q])
  BY <1>1, TakesOrder
<1>3. ModelsTyped'
  BY <1>1, <1>2 DEF ModelsInv, ModelsTyped
<1>4. EpochsKept'
  BY <1>1, <1>2, ProcOf DEF ModelsInv, EpochsKept
<1>5. OrdersOnce'
  BY <1>1, <1>2 DEF ModelsInv, OrdersOnce
<1>6. \A t \in Threads, id \in TaskIds : Pending(t, id) => Pending(t, id)'
  BY <1>1, <1>2, ProcOf DEF Pending, Speaks
<1>7. \A id \in TaskIds, q \in Procs : Ordered(id, q)' => Ordered(id, q)
  BY <1>1, <1>2 DEF Ordered
<1>8. \A id \in TaskIds : Sent(id)' <=> Sent(id)
  BY <1>1 DEF Sent
<1>9. ASSUME NEW id \in TaskIds
      PROVE  /\ Tasks[id].dmt => ModelKept(id)'
             /\ \A q \in Procs : Ordered(id, q)' => Served(id, q)'
  BY <1>1, <1>6, <1>7, <1>8, ModelStays
<1> QED BY <1>3, <1>4, <1>5, <1>9, ModelsTogether

LEMMA SendTaskModels ==
  ASSUME Inv, RunsInv, ModelsInv, NEW p \in Procs, SendTask(p)
  PROVE  ModelsInv'
<1> PICK m, r : m = Head(toWorker[p]) /\ r = transfers[p]
  OBVIOUS
<1>1. /\ UNCHANGED <<task_id_pid_tids_, extracted, current_epoch_, last_instance_, units_,
                     loaded, model_store_>>
      /\ toWorker[p] # <<>> /\ m.type = "DirectTransferModel"
      /\ toWorker' = [toWorker EXCEPT ![p] = Tail(@)]
      /\ transfers' = [transfers EXCEPT ![p] = Append(@, m)]
  BY DEF SendTask, Arrived, manager, scheduler, records
<1>2. /\ \A q \in Procs : ToSet(toWorker'[q]) \subseteq ToSet(toWorker[q])
      /\ \A q \in Procs : \A x \in ToSet(toWorker[q]) :
           x \in ToSet(toWorker'[q]) \/ (q = p /\ x = m)
      /\ \A q \in Procs : OnceEach(toWorker'[q])
      /\ \A x \in ToSet(toWorker'[p]) : ~SameOrder(m, x)
  BY <1>1, TakesOrder
<1>3. m \in ToSet(toWorker[p]) /\ m.task \in TaskIds
  <2>1. m \in ToSet(toWorker[p])
    BY <1>1, TakesMessage
  <2> QED BY <1>1, <2>1 DEF ModelsInv, ModelsTyped
<1>4. r \in Seq(ToSet(r)) /\ OnceEach(r) /\ \A x \in ToSet(r) : ~SameOrder(m, x)
  BY <1>3 DEF ModelsInv, ModelsTyped, OrdersOnce
<1>5. /\ DOMAIN transfers' = Procs /\ transfers'[p] = Append(r, m)
      /\ \A q \in Procs : q # p => transfers'[q] = transfers[q]
  BY <1>1 DEF ModelsInv, ModelsTyped
<1>6. /\ Append(r, m) \in Seq(ToSet(Append(r, m))) /\ ToSet(Append(r, m)) = ToSet(r) \cup {m}
  BY <1>4, AppendFacts
<1>7. OnceEach(Append(r, m))
  BY <1>4, OnceEachAppend
<1>8. ModelsTyped'
  BY <1>1, <1>2, <1>3, <1>5, <1>6 DEF ModelsInv, ModelsTyped
<1>9. EpochsKept'
  BY <1>1, <1>2, ProcOf DEF ModelsInv, EpochsKept
<1>10. OrdersOnce'
  <2>1. \A x, y : SameOrder(x, y) => SameOrder(y, x)
    BY DEF SameOrder
  <2>2. ASSUME NEW q \in Procs, NEW x \in ToSet(toWorker'[q]), NEW y \in ToSet(transfers'[q])
        PROVE  ~SameOrder(x, y)
    <3>1. x \in ToSet(toWorker[q])
      BY <1>2
    <3>2. CASE y \in ToSet(transfers[q])
      BY <3>1, <3>2 DEF ModelsInv, OrdersOnce
    <3>3. CASE q = p /\ y = m
      BY <1>2, <2>1, <3>3
    <3>4. CASE q # p
      BY <1>5, <2>2, <3>2, <3>4
    <3>5. CASE q = p
      BY <1>5, <1>6, <2>2, <3>2, <3>3, <3>5
    <3> QED BY <3>4, <3>5
  <2>3. \A q \in Procs : OnceEach(transfers'[q])
    BY <1>5, <1>7 DEF ModelsInv, OrdersOnce
  <2> QED BY <1>2, <2>2, <2>3 DEF OrdersOnce
<1>11. \A t \in Threads, id \in TaskIds : Pending(t, id) => Pending(t, id)'
  BY <1>1, <1>2, ProcOf DEF Pending, Speaks
<1>12. \A id \in TaskIds, q \in Procs : Ordered(id, q)' => Ordered(id, q)
  <2> SUFFICES ASSUME NEW id \in TaskIds, NEW q \in Procs, Ordered(id, q)' PROVE Ordered(id, q)
    OBVIOUS
  <2>1. PICK x \in ToSet(toWorker'[q]) \cup ToSet(transfers'[q]) :
          x.type = "DirectTransferModel" /\ x.task = id
    BY DEF Ordered
  <2>2. x \in ToSet(transfers'[q]) => x \in ToSet(transfers[q]) \/ (q = p /\ x = m)
    <3>1. CASE q = p
      BY <1>5, <1>6, <3>1
    <3>2. CASE q # p
      BY <1>5, <3>2
    <3> QED BY <3>1, <3>2
  <2>3. x \in ToSet(toWorker[q]) \cup ToSet(transfers[q])
    BY <1>2, <1>3, <2>1, <2>2
  <2> QED BY <2>1, <2>3 DEF Ordered
<1>13. \A id \in TaskIds : Sent(id)' <=> Sent(id)
  BY <1>1 DEF Sent
<1>14. ASSUME NEW id \in TaskIds
       PROVE  /\ Tasks[id].dmt => ModelKept(id)'
              /\ \A q \in Procs : Ordered(id, q)' => Served(id, q)'
  BY <1>1, <1>11, <1>12, <1>13, ModelStays
<1> QED BY <1>8, <1>9, <1>10, <1>14, ModelsTogether

\* The order is carried out: the task has its model, and there is no other order.
LEMMA TransferModelModels ==
  ASSUME Inv, RunsInv, ModelsInv, NEW p \in Procs, TransferModel(p)
  PROVE  ModelsInv'
<1> PICK r, m, id : r = transfers[p] /\ m = Head(r) /\ id = m.task
  OBVIOUS
<1>1. /\ UNCHANGED <<task_id_pid_tids_, extracted, current_epoch_, last_instance_, units_, toWorker>>
      /\ r # <<>> /\ transfers' = [transfers EXCEPT ![p] = Tail(@)]
      /\ loaded' = [loaded EXCEPT ![id] = model_store_[p][id]]
      /\ model_store_' = [model_store_ EXCEPT ![p][id] = -1]
  BY DEF TransferModel, manager, scheduler, records
<1>2. r \in Seq(ToSet(r)) /\ OnceEach(r)
  BY DEF ModelsInv, ModelsTyped, OrdersOnce
<1>3. /\ Tail(r) \in Seq(ToSet(Tail(r))) /\ ToSet(Tail(r)) \subseteq ToSet(r) /\ m \in ToSet(r)
  BY <1>1, <1>2, TailFacts
<1>4. OnceEach(Tail(r)) /\ \A x \in ToSet(Tail(r)) : ~SameOrder(m, x)
  BY <1>1, <1>2, OnceEachTail
<1>5. /\ DOMAIN transfers' = Procs /\ transfers'[p] = Tail(r)
      /\ \A q \in Procs : q # p => transfers'[q] = transfers[q]
  BY <1>1 DEF ModelsInv, ModelsTyped
<1>6. m.type = "DirectTransferModel" /\ id \in TaskIds
  BY <1>3 DEF ModelsInv, ModelsTyped
<1>7. Ordered(id, p)
  BY <1>3, <1>6 DEF Ordered
<1>8. Served(id, p)
  BY <1>6, <1>7 DEF ModelsInv, OrdersServed
<1>9. \A q \in Procs : ToSet(transfers'[q]) \subseteq ToSet(transfers[q])
  BY <1>3, <1>5
<1>10. \A k \in TaskIds, q \in Procs : Ordered(k, q)' => Ordered(k, q)
  BY <1>1, <1>9 DEF Ordered
<1>11. ASSUME NEW q \in Procs, Ordered(id, q)' PROVE FALSE
  <2>1. q = p
    BY <1>6, <1>8, <1>10, <1>11 DEF Served
  <2>2. PICK x \in ToSet(toWorker[p]) \cup ToSet(Tail(r)) :
          x.type = "DirectTransferModel" /\ x.task = id
    BY <1>1, <1>5, <1>11, <2>1 DEF Ordered
  <2>3. SameOrder(m, x) /\ SameOrder(x, m)
    BY <1>6, <2>2 DEF SameOrder
  <2>4. CASE x \in ToSet(toWorker[p])
    BY <1>3, <2>3, <2>4 DEF ModelsInv, OrdersOnce
  <2> QED BY <1>4, <2>2, <2>3, <2>4
<1>12. /\ loaded' \in [TaskIds -> Int] /\ loaded'[id] = current_epoch_[id] - 1
       /\ \A k \in TaskIds : k # id => loaded'[k] = loaded[k]
  <2>1. PICK v : v = model_store_[p][id] /\ v \in Int
    BY <1>6 DEF ModelsInv, ModelsTyped
  <2>2. v = current_epoch_[id] - 1
    BY <1>8, <2>1 DEF Served
  <2>3. loaded' = [loaded EXCEPT ![id] = v] /\ loaded \in [TaskIds -> Int]
    BY <1>1, <2>1 DEF ModelsInv, ModelsTyped
  <2>4. /\ loaded' \in [TaskIds -> Int] /\ loaded'[id] = v
        /\ \A k \in TaskIds : k # id => loaded'[k] = loaded[k]
    BY <1>6, <2>1, <2>3
  <2> QED BY <2>2, <2>4
<1>13. /\ model_store_' \in [Procs -> [TaskIds -> Int]]
       /\ \A q \in Procs, k \in TaskIds : k # id => model_store_'[q][k] = model_store_[q][k]
  <2>1. PICK old : old = model_store_[p] /\ old \in [TaskIds -> Int]
    BY DEF ModelsInv, ModelsTyped
  <2> PICK none \in Int : none = -1
    OBVIOUS
  <2>2. PICK row : row = [old EXCEPT ![id] = none]
    OBVIOUS
  <2>3. row \in [TaskIds -> Int] /\ \A k \in TaskIds : k # id => row[k] = old[k]
    BY <1>6, <2>1, <2>2
  <2>4. model_store_' = [model_store_ EXCEPT ![p] = row]
    BY <1>1, <2>1, <2>2
  <2> QED BY <2>1, <2>3, <2>4 DEF ModelsInv, ModelsTyped
<1>14. ModelsTyped'
  BY <1>1, <1>3, <1>5, <1>9, <1>12, <1>13 DEF ModelsInv, ModelsTyped
<1>15. EpochsKept'
  BY <1>1 DEF ModelsInv, EpochsKept
<1>16. OrdersOnce'
  <2>1. \A q \in Procs : OnceEach(transfers'[q])
    BY <1>4, <1>5 DEF ModelsInv, OrdersOnce
  <2> QED BY <1>1, <1>9, <2>1 DEF ModelsInv, OrdersOnce
<1>17. \A t \in Threads, k \in TaskIds : Pending(t, k)' <=> Pending(t, k)
  BY <1>1 DEF Pending
<1>18. \A k \in TaskIds : Sent(k)' <=> Sent(k)
  BY <1>1 DEF Sent
<1>19. ASSUME NEW k \in TaskIds
       PROVE  /\ Tasks[k].dmt => ModelKept(k)'
              /\ \A q \in Procs : Ordered(k, q)' => Served(k, q)'
  <2>1. CASE k # id
    <3>1. /\ loaded'[k] = loaded[k] /\ \A q \in Procs : model_store_'[q][k] = model_store_[q][k]
      BY <1>12, <1>13, <2>1
    <3> QED BY <1>1, <1>10, <1>17, <1>18, <3>1, ModelStays
  <2>2. CASE k = id
    <3> PICK t : t = last_instance_[id]
      OBVIOUS
    <3>1. ModelKept(id)
      BY <1>6, <1>8 DEF ModelsInv, ModelsLeft, Served
    <3>2. t \in Threads /\ Pending(t, id) /\ Sent(id)
      BY <1>8, <3>1 DEF Served, ModelKept
    <3>3. Sent(id)' /\ Pending(t, id)'
      BY <1>6, <1>17, <1>18, <3>2
    <3>4. Pending(last_instance_[id], id)'
      BY <1>1, <3>3 DEF Pending
    <3>5. loaded'[id] <= current_epoch_'[id] - 1
      <4>1. current_epoch_[id] - 1 \in Int
        BY <1>6 DEF Inv, BooksTyped
      <4> QED BY <1>1, <1>12, <4>1
    <3>6. ModelKept(id)'
      BY <1>1, <3>2, <3>3, <3>4, <3>5 DEF ModelKept
    <3> QED BY <1>11, <2>2, <3>6
  <2> QED BY <2>1, <2>2
<1> QED BY <1>14, <1>15, <1>16, <1>19, ModelsTogether

\* The thread leaves its model.  It had the model it needs, so that there is no
\* order for its task.
LEMMA ThreadEndsModels ==
  ASSUME Inv, RunsInv, ModelsInv, NEW t \in Threads, ThreadEnds(t)
  PROVE  ModelsInv'
<1> PICK u, id, p : u = units_[t] /\ id = u.task /\ p = get_process_id(t)
  OBVIOUS
<1>1. /\ UNCHANGED <<task_id_pid_tids_, extracted, current_epoch_, last_instance_, toWorker, transfers,
                     loaded>>
      /\ ~u.done /\ HasModel(u)
      /\ model_store_' = IF Tasks[id].dmt THEN [model_store_ EXCEPT ![p][id] = u.epoch] ELSE model_store_
  BY DEF ThreadEnds, manager, scheduler, records
<1>2. /\ units_[t] # Free /\ id \in TaskIds /\ DOMAIN u = DOMAIN Free /\ p \in Procs
  BY <1>1, ProcOf DEF Free, Inv, UnitsFormed
<1>3. /\ \A o \in Threads : o # t => units_'[o] = units_[o]
      /\ units_'[t].task = id /\ units_'[t].epoch = u.epoch
  BY <1>2 DEF ThreadEnds, Inv, UnitsFormed, Free
<1>4. /\ u.epoch = current_epoch_[id] /\ u.epoch \in Nat
  BY <1>2 DEF ModelsInv, EpochsKept, Inv, BooksTyped
<1>5. Pending(t, id)
  BY <1>1, <1>2 DEF Pending
<1>6. Sent(id)
  BY <1>2, <1>5, PendingSent
<1>7. ASSUME NEW q \in Procs, Ordered(id, q) PROVE FALSE
  <2>1. Served(id, q)
    BY <1>2, <1>7 DEF ModelsInv, OrdersServed
  <2> QED BY <1>1, <1>4, <2>1 DEF Served, HasModel
<1>8. /\ model_store_' \in [Procs -> [TaskIds -> Int]]
      /\ \A q \in Procs, k \in TaskIds : k # id => model_store_'[q][k] = model_store_[q][k]
      /\ \A q \in Procs : model_store_'[q][id] \in {model_store_[q][id], u.epoch}
      /\ Tasks[id].dmt => model_store_'[p][id] = u.epoch
  <2>1. CASE ~Tasks[id].dmt
    BY <1>1, <2>1 DEF ModelsInv, ModelsTyped
  <2>2. CASE Tasks[id].dmt
    <3>1. PICK old : old = model_store_[p] /\ old \in [TaskIds -> Int]
      BY <1>2 DEF ModelsInv, ModelsTyped
    <3>2. PICK e : e = u.epoch /\ e \in Int
      BY <1>4
    <3>3. PICK row : row = [old EXCEPT ![id] = e]
      OBVIOUS
    <3>4. row \in [TaskIds -> Int] /\ row[id] = e /\ \A k \in TaskIds : k # id => row[k] = old[k]
      BY <1>2, <3>1, <3>2, <3>3
    <3>5. model_store_' = [model_store_ EXCEPT ![p] = row]
      BY <1>1, <2>2, <3>1, <3>2, <3>3
    <3>6. /\ model_store_' \in [Procs -> [TaskIds -> Int]] /\ model_store_'[p] = row
          /\ \A q \in Procs : q # p => model_store_'[q] = model_store_[q]
      BY <1>2, <3>4, <3>5 DEF ModelsInv, ModelsTyped
    <3> QED BY <1>2, <3>1, <3>2, <3>4, <3>6
  <2> QED BY <2>1, <2>2
<1>9. ModelsTyped'
  BY <1>1, <1>8 DEF ModelsInv, ModelsTyped
<1>10. EpochsKept'
  <2>1. ASSUME NEW o \in Threads, units_'[o] # Free
        PROVE  units_'[o].epoch = current_epoch_'[units_'[o].task]
    <3>1. CASE o = t
      BY <1>1, <1>3, <1>4, <3>1
    <3>2. CASE o # t
      BY <1>1, <1>3, <2>1, <3>2 DEF ModelsInv, EpochsKept
    <3> QED BY <3>1, <3>2
  <2> QED BY <1>1, <2>1 DEF ModelsInv, EpochsKept
<1>11. OrdersOnce'
  BY <1>1 DEF ModelsInv, OrdersOnce, OnceEach
<1>12. \A o \in Threads, k \in TaskIds : o # t \/ k # id => (Pending(o, k) => Pending(o, k)')
  BY <1>1, <1>3 DEF Pending
<1>13. \A k \in TaskIds : Sent(k)' <=> Sent(k)
  BY <1>1 DEF Sent
<1>14. \A k \in TaskIds, q \in Procs : Ordered(k, q)' <=> Ordered(k, q)
  BY <1>1 DEF Ordered
<1>15. ASSUME NEW k \in TaskIds
       PROVE  /\ Tasks[k].dmt => ModelKept(k)'
              /\ \A q \in Procs : Ordered(k, q)' => Served(k, q)'
  <2>1. CASE k # id
    <3>1. \A q \in Procs : model_store_'[q][k] = model_store_[q][k]
      BY <1>8, <2>1
    <3>2. \A o \in Threads : Pending(o, k) => Pending(o, k)'
      BY <1>12, <2>1
    <3> QED BY <1>1, <1>13, <1>14, <3>1, <3>2, ModelStays
  <2>2. CASE k = id
    <3> PICK last : last = last_instance_[id]
      OBVIOUS
    <3>1. ASSUME Tasks[id].dmt PROVE ModelKept(id)'
      <4>1. ModelKept(id)
        BY <1>2, <3>1 DEF ModelsInv, ModelsLeft
      <4>2. /\ last \in Threads /\ loaded[id] <= current_epoch_[id] - 1
            /\ Pending(last, id) \/ ModelAt(id, current_epoch_[id])
        BY <1>6, <4>1 DEF ModelKept
      <4>3. ASSUME model_store_'[get_process_id(last)][id] = current_epoch_[id]
            PROVE  ModelAt(id, current_epoch_[id])'
        BY <1>1, <4>2, <4>3 DEF ModelAt
      <4>4. Pending(last_instance_[id], id)' \/ ModelAt(id, current_epoch_[id])'
        <5>1. CASE last = t
          BY <1>4, <1>8, <3>1, <4>3, <5>1
        <5>2. CASE last # t /\ Pending(last, id)
          <6>1. Pending(last, id)'
            BY <1>2, <1>12, <4>2, <5>2
          <6> QED BY <1>1, <6>1 DEF Pending
        <5>3. CASE ModelAt(id, current_epoch_[id])
          <6>1. model_store_[get_process_id(last)][id] = current_epoch_[id]
            BY <5>3 DEF ModelAt
          <6>2. model_store_'[get_process_id(last)][id] = current_epoch_[id]
            BY <1>4, <1>8, <4>2, <6>1, ProcOf
          <6> QED BY <4>3, <6>2
        <5> QED BY <4>2, <5>1, <5>2, <5>3
      <4> QED BY <1>1, <1>2, <1>6, <1>13, <4>2, <4>4 DEF ModelKept
    <3> QED BY <1>7, <1>14, <2>2, <3>1
  <2> QED BY <2>1, <2>2
<1> QED BY <1>9, <1>10, <1>11, <1>15, ModelsTogether

LEMMA WorkerFinishThreadModels ==
  ASSUME Inv, RunsInv, ModelsInv, NEW t \in Threads, WorkerFinishThread(t)
  PROVE  ModelsInv'
<1>1. /\ UNCHANGED <<task_id_pid_tids_, extracted, current_epoch_, last_instance_, toWorker, transfers,
                     loaded, model_store_>>
      /\ units_[t].done /\ units_' = [units_ EXCEPT ![t] = Free]
  BY DEF WorkerFinishThread, manager, scheduler, records, models
<1>2. units_'[t] = Free /\ \A o \in Threads : o # t => units_'[o] = units_[o]
  BY <1>1 DEF Inv, UnitsFormed
<1>3. ModelsTyped' /\ OrdersOnce' /\ \A id \in TaskIds, q \in Procs : Ordered(id, q)' <=> Ordered(id, q)
  BY <1>1, SameMessages
<1>4. EpochsKept'
  BY <1>1, <1>2 DEF ModelsInv, EpochsKept
<1>5. \A o \in Threads, id \in TaskIds : Pending(o, id) => Pending(o, id)'
  BY <1>1, <1>2 DEF Pending
<1>6. \A id \in TaskIds : Sent(id)' <=> Sent(id)
  BY <1>1 DEF Sent
<1>7. ASSUME NEW id \in TaskIds
      PROVE  /\ Tasks[id].dmt => ModelKept(id)'
             /\ \A p \in Procs : Ordered(id, p)' => Served(id, p)'
  BY <1>1, <1>3, <1>5, <1>6, ModelStays
<1> QED BY <1>3, <1>4, <1>7, ModelsTogether

LEMMA run_instanceModels ==
  ASSUME Inv, RunsInv, ModelsInv, NEW p \in Procs, run_instance(p)
  PROVE  ModelsInv'
<1> PICK m, id : m = Head(toWorker[p]) /\ id = m.task
  OBVIOUS
<1> PICK mine : mine = Local(m.cluster, p)
  OBVIOUS
<1>1. /\ UNCHANGED <<task_id_pid_tids_, extracted, current_epoch_, last_instance_, transfers,
                     loaded, model_store_>>
      /\ toWorker[p] # <<>> /\ m.type = "Task"
      /\ toWorker' = [toWorker EXCEPT ![p] = Tail(@)]
  BY DEF run_instance, Arrived, manager, scheduler, records, models
<1>2. /\ \A q \in Procs : ToSet(toWorker'[q]) \subseteq ToSet(toWorker[q])
      /\ \A q \in Procs : \A x \in ToSet(toWorker[q]) :
           x \in ToSet(toWorker'[q]) \/ (q = p /\ x = m)
      /\ \A q \in Procs : OnceEach(toWorker'[q])
  BY <1>1, TakesOrder
<1>3. m \in ToSet(toWorker[p])
  BY <1>1, TakesMessage
<1>4. id \in TaskIds /\ m.cluster \subseteq Threads
  BY <1>1, <1>3 DEF Inv, MessagesFormed, RunsInv, RunsTyped
<1>5. \A t \in Threads : t \in mine <=> t \in m.cluster /\ get_process_id(t) = p
  BY <1>4 DEF Local
<1>6. ASSUME NEW t \in Threads, t \in mine
      PROVE  /\ units_'[t].task = id /\ units_'[t].epoch = m.epoch /\ ~units_'[t].done
             /\ units_'[t] # Free /\ units_[t] = Free /\ m.epoch = current_epoch_[id]
  <2> PICK r : r = IF IsAuto(m.task) /\ t # Leader(m.cluster) THEN 0 ELSE m.iters
    OBVIOUS
  <2>1. units_'[t] = [task |-> id, epoch |-> m.epoch, done |-> FALSE, runs |-> r]
    BY <1>6 DEF run_instance
  <2>2. units_'[t].task = id /\ units_'[t].epoch = m.epoch /\ ~units_'[t].done
    BY <2>1
  <2>3. Free.task \notin TaskIds
    BY ClusterAssumption DEF Free
  <2>4. Speaks(m, t) /\ get_process_id(t) = p
    BY <1>1, <1>5, <1>6 DEF Speaks
  <2>5. ~Silent(toWorker[p], t)
    BY <1>3, <2>4 DEF Silent
  <2>6. units_[t] = Free
    BY <2>4, <2>5 DEF Inv, OnePlace, AtOnePlace
  <2>7. m.epoch = current_epoch_[id]
    BY <1>3, <2>4 DEF ModelsInv, EpochsKept
  <2> QED BY <1>4, <2>2, <2>3, <2>6, <2>7
<1>7. \A t \in Threads : t \notin mine => units_'[t] = units_[t]
  BY DEF run_instance
<1>8. ModelsTyped'
  BY <1>1, <1>2 DEF ModelsInv, ModelsTyped
<1>9. EpochsKept'
  <2>1. ASSUME NEW t \in Threads, units_'[t] # Free
        PROVE  units_'[t].epoch = current_epoch_'[units_'[t].task]
    <3>1. CASE t \in mine
      BY <1>1, <1>6, <3>1
    <3>2. CASE t \notin mine
      BY <1>1, <1>7, <2>1, <3>2 DEF ModelsInv, EpochsKept
    <3> QED BY <3>1, <3>2
  <2> QED BY <1>1, <1>2, <2>1, ProcOf DEF ModelsInv, EpochsKept
<1>10. OrdersOnce'
  BY <1>1, <1>2 DEF ModelsInv, OrdersOnce
<1>11. ASSUME NEW t \in Threads, NEW k \in TaskIds, Pending(t, k) PROVE Pending(t, k)'
  <2>1. CASE t \in mine
    <3>1. PICK x \in ToSet(toWorker[get_process_id(t)]) : Speaks(x, t) /\ x.task = k
      BY <1>6, <1>11, <2>1 DEF Pending
    <3>2. CASE x = m
      BY <1>6, <2>1, <3>1, <3>2 DEF Pending
    <3>3. CASE x # m
      BY <1>2, <3>1, <3>3, ProcOf DEF Pending
    <3> QED BY <3>2, <3>3
  <2>2. CASE t \notin mine
    <3>1. CASE units_[t] # Free /\ units_[t].task = k /\ ~units_[t].done
      BY <1>7, <2>2, <3>1 DEF Pending
    <3>2. ASSUME NEW x \in ToSet(toWorker[get_process_id(t)]), Speaks(x, t), x.task = k
          PROVE  Pending(t, k)'
      <4>1. ~(get_process_id(t) = p /\ x = m)
        BY <1>1, <1>5, <2>2, <3>2 DEF Speaks
      <4>2. x \in ToSet(toWorker'[get_process_id(t)])
        BY <1>2, <3>2, <4>1, ProcOf
      <4> QED BY <3>2, <4>2 DEF Pending
    <3> QED BY <1>11, <3>1, <3>2 DEF Pending
  <2> QED BY <2>1, <2>2
<1>12. \A k \in TaskIds, q \in Procs : Ordered(k, q)' => Ordered(k, q)
  BY <1>1, <1>2 DEF Ordered
<1>13. \A k \in TaskIds : Sent(k)' <=> Sent(k)
  BY <1>1 DEF Sent
<1>14. ASSUME NEW k \in TaskIds
       PROVE  /\ Tasks[k].dmt => ModelKept(k)'
              /\ \A q \in Procs : Ordered(k, q)' => Served(k, q)'
  BY <1>1, <1>11, <1>12, <1>13, ModelStays
<1> QED BY <1>8, <1>9, <1>10, <1>14, ModelsTogether

\* The manager takes a thread out of the books.  With the last one the epoch is
\* over, and the leader has left the model.
LEMMA ReceiveThreadFinishedModels ==
  ASSUME Inv, RunsInv, ModelsInv, NEW p \in Procs, ReceiveThreadFinished(p)
  PROVE  ModelsInv'
<1> PICK t, id : t = Head(toManager[p]).thread /\ id = Head(toManager[p]).task
  OBVIOUS
<1>1. UNCHANGED <<extracted, last_instance_, units_, toWorker, transfers, loaded, model_store_>>
  BY DEF ReceiveThreadFinished, workers, models
<1>2. /\ t \in Threads /\ get_process_id(t) = p /\ id \in TaskIds /\ t \in task_id_pid_tids_[id]
      /\ units_[t] = Free /\ Silent(toWorker[p], t)
      /\ task_id_pid_tids_'[id] = task_id_pid_tids_[id] \ {t}
      /\ \A k \in TaskIds : k # id => task_id_pid_tids_'[k] = task_id_pid_tids_[k]
      /\ \A k \in TaskIds : k # id => current_epoch_'[k] = current_epoch_[k]
      /\ task_id_pid_tids_'[id] # {} => current_epoch_'[id] = current_epoch_[id]
      /\ task_id_pid_tids_'[id] = {} /\ ~IsAuto(id) => current_epoch_'[id] = current_epoch_[id] + 1
      /\ extracted = <<>>
  <2>1. ThreadLeaves(p, t, id)
    BY FinishThread
  <2> QED BY <2>1 DEF ThreadLeaves
<1>3. ModelsTyped' /\ OrdersOnce' /\ \A k \in TaskIds, q \in Procs : Ordered(k, q)' <=> Ordered(k, q)
  BY <1>1, SameMessages
<1>4. \A o \in Threads, k \in TaskIds : Pending(o, k)' <=> Pending(o, k)
  BY <1>1 DEF Pending
<1>5. \A k \in TaskIds : (Sent(k) <=> task_id_pid_tids_[k] # {}) /\ (Sent(k)' <=> task_id_pid_tids_'[k] # {})
  BY <1>1, <1>2, EmptyFacts DEF Sent
<1>6. ~Pending(t, id)
  BY <1>2 DEF Pending, Silent
<1>7. \A k \in TaskIds : (\E o \in task_id_pid_tids_'[k] : TRUE) => current_epoch_'[k] = current_epoch_[k]
  BY <1>2
<1>8. EpochsKept'
  <2>1. ASSUME NEW o \in Threads, units_'[o] # Free
        PROVE  units_'[o].epoch = current_epoch_'[units_'[o].task]
    <3> PICK k : k = units_[o].task
      OBVIOUS
    <3>1. units_[o] # Free /\ units_'[o] = units_[o]
      BY <1>1, <2>1
    <3>2. k \in TaskIds /\ o \in task_id_pid_tids_[k] /\ units_[o].epoch = current_epoch_[k]
      BY <3>1 DEF Inv, UnitsFormed, Booked, ModelsInv, EpochsKept
    <3>3. o # t
      BY <1>2, <3>1
    <3>4. o \in task_id_pid_tids_'[k]
      BY <1>2, <3>2, <3>3
    <3> QED BY <1>7, <3>1, <3>2, <3>4
  <2>2. ASSUME NEW o \in Threads, NEW x \in ToSet(toWorker'[get_process_id(o)]), Speaks(x, o)
        PROVE  x.epoch = current_epoch_'[x.task]
    <3>1. x \in ToSet(toWorker[get_process_id(o)])
      BY <1>1, <2>2
    <3>2. x.task \in TaskIds
      BY <2>2, <3>1, NamesTask, ProcOf
    <3>3. o \in task_id_pid_tids_[x.task] /\ x.epoch = current_epoch_[x.task]
      BY <2>2, <3>1 DEF Inv, Booked, NamedIn, ModelsInv, EpochsKept
    <3>4. o # t
      BY <1>2, <2>2, <3>1 DEF Silent
    <3>5. o \in task_id_pid_tids_'[x.task]
      BY <1>2, <3>2, <3>3, <3>4
    <3> QED BY <1>7, <3>2, <3>3, <3>5
  <2> QED BY <2>1, <2>2 DEF EpochsKept
<1>9. ASSUME NEW k \in TaskIds
      PROVE  /\ Tasks[k].dmt => ModelKept(k)'
             /\ \A q \in Procs : Ordered(k, q)' => Served(k, q)'
  <2>1. CASE k # id \/ task_id_pid_tids_'[id] # {}
    <3>0. current_epoch_'[k] = current_epoch_[k] /\ (task_id_pid_tids_'[k] # {} <=> task_id_pid_tids_[k] # {})
      BY <1>2, <2>1
    <3>1. current_epoch_'[k] = current_epoch_[k] /\ (Sent(k)' <=> Sent(k))
      BY <1>5, <3>0
    <3> QED BY <1>1, <1>3, <1>4, <3>1, ModelStays
  <2>2. CASE k = id /\ task_id_pid_tids_'[id] = {}
    <3> PICK last : last = last_instance_[id]
      OBVIOUS
    <3>1. last \in Threads => ~Pending(last, id)
      <4> SUFFICES ASSUME last \in Threads, Pending(last, id) PROVE FALSE
        OBVIOUS
      <4>1. last \in task_id_pid_tids_[id]
        BY <1>2, PendingSent
      <4> QED BY <1>2, <1>6, <2>2, <4>1
    <3>2. Sent(id) /\ ~Sent(id)'
      <4>1. id \in TaskIds /\ task_id_pid_tids_[id] # {} /\ ~(task_id_pid_tids_'[id] # {})
        BY <1>2, <2>2
      <4> QED BY <1>5, <4>1, Zenon
    <3>3. ASSUME Tasks[id].dmt
          PROVE  /\ last \in Threads /\ loaded[id] <= current_epoch_[id] - 1
                 /\ ModelAt(id, current_epoch_[id])
      <4>1. ModelKept(id)
        BY <1>2, <3>3 DEF ModelsInv, ModelsLeft
      <4> QED BY <3>1, <3>2, <4>1 DEF ModelKept
    <3>4. ASSUME NEW q \in Procs, Ordered(id, q) PROVE FALSE
      <4>1. Served(id, q)
        BY <1>2, <3>4 DEF ModelsInv, OrdersServed
      <4> QED BY <3>1, <3>3, <4>1 DEF Served
    <3>5. ASSUME Tasks[id].dmt PROVE ModelKept(id)'
      <4>1. ~IsAuto(id)
        BY <1>2, <3>5, SchedulerAssumption DEF IsAuto
      <4> PICK c \in Nat : c = current_epoch_[id]
        BY <1>2 DEF Inv, BooksTyped
      <4>2. current_epoch_'[id] = c + 1
        BY <1>2, <2>2, <4>1
      <4>3. /\ last \in Threads /\ model_store_[get_process_id(last)][id] = c
            /\ loaded[id] <= c - 1 /\ loaded[id] \in Int
        BY <1>2, <3>3, <3>5 DEF ModelAt, ModelsInv, ModelsTyped
      <4>4. current_epoch_'[id] > 0 /\ current_epoch_'[id] - 1 = c /\ loaded[id] < c
            /\ current_epoch_'[id] # 0
        BY <4>2, <4>3
      <4>5. ModelAt(id, current_epoch_[id] - 1)'
        BY <1>1, <4>3, <4>4 DEF ModelAt
      <4> QED BY <1>1, <3>2, <4>4, <4>5 DEF ModelKept
    <3> QED BY <1>3, <2>2, <3>4, <3>5
  <2> QED BY <2>1, <2>2
<1> QED BY <1>3, <1>8, <1>9, ModelsTogether

LEMMA AssignModels ==
  ASSUME Inv, RunsInv, ModelsInv, Assign
  PROVE  ModelsInv'
<1> PICK id : id = Head(todo)
  OBVIOUS
<1>1. /\ UNCHANGED <<current_epoch_, last_instance_, units_, toWorker, transfers, loaded, model_store_>>
      /\ todo # <<>>
  BY DEF Assign, workers, models
<1>2. CASE Skips(id)
  <2>1. UNCHANGED <<extracted, task_id_pid_tids_>>
    BY <1>2 DEF Assign
  <2> QED BY <1>1, <2>1, OtherModels
<1>3. ASSUME Fails(id) PROVE ModelsInv'
  <2>1. UNCHANGED <<extracted, task_id_pid_tids_>>
    BY <1>3 DEF Fails
  <2> QED BY <1>1, <2>1, OtherModels
<1>4. ASSUME ~Skips(id), NEW threads, Succeeds(id, threads)
      PROVE  ModelsInv'
  <2> PICK m : m = Instance(id, current_epoch_[id], threads, IF IsAuto(id) THEN policy_'.try_iters ELSE 1)
    OBVIOUS
  <2>1. /\ extracted' = Append(extracted, m) /\ m.task = id
        /\ task_id_pid_tids_' = [task_id_pid_tids_ EXCEPT ![id] = @ \cup threads]
    BY <1>4 DEF Succeeds, AddInstance, record_and_track, Instance
  <2>2. id \in TaskIds /\ task_id_pid_tids_[id] = {}
    BY <1>1, <1>4, NoThreads
  <2>3. \A k \in TaskIds : k # id => task_id_pid_tids_'[k] = task_id_pid_tids_[k]
    BY <2>1, <2>2 DEF Inv, BooksTyped
  <2>4. ToSet(extracted') = ToSet(extracted) \cup {m}
    BY <2>1, AppendFacts DEF Inv, MessagesFormed
  <2>5. \A k \in TaskIds : Sent(k)' <=> Sent(k)
    BY <2>1, <2>2, <2>3, <2>4 DEF Sent
  <2>6. ModelsTyped' /\ OrdersOnce' /\ \A k \in TaskIds, q \in Procs : Ordered(k, q)' <=> Ordered(k, q)
    BY <1>1, SameMessages
  <2>7. EpochsKept'
    BY <1>1 DEF ModelsInv, EpochsKept
  <2>8. \A o \in Threads, k \in TaskIds : Pending(o, k)' <=> Pending(o, k)
    BY <1>1 DEF Pending
  <2>9. ASSUME NEW k \in TaskIds
        PROVE  /\ Tasks[k].dmt => ModelKept(k)'
               /\ \A q \in Procs : Ordered(k, q)' => Served(k, q)'
    BY <1>1, <2>5, <2>6, <2>8, ModelStays
  <2> QED BY <2>6, <2>7, <2>9, ModelsTogether
<1>5. CASE ~Skips(id)
  <2>1. PICK threads \in Selections(id) : IF threads # {} THEN Succeeds(id, threads) ELSE Fails(id)
    BY <1>5 DEF Assign
  <2> QED BY <1>3, <1>4, <1>5, <2>1
<1> QED BY <1>2, <1>5

\* The orders that Send adds to the messages for a process: one at most of a
\* task, for an instance that is sent.
LEMMA SentOrders ==
  ASSUME MessagesFormed, NEW p \in Procs,
         NEW sent, sent = FlattenSeq([i \in DOMAIN extracted |-> ToOneProcess(extracted[i], p)]),
         \A i, k \in DOMAIN extracted : extracted[i].task = extracted[k].task => i = k
  PROVE  /\ OnceEach(sent)
         /\ \A y \in ToSet(sent) : y.type = "DirectTransferModel" =>
              \E m \in ToSet(extracted) : y.task = m.task /\ TransferTo(m, p)
<1> DEFINE seqs == [i \in DOMAIN extracted |-> ToOneProcess(extracted[i], p)]
<1>1. PICK n \in Nat : n = Len(extracted) /\ DOMAIN extracted = 1 .. n
  BY SeqToSet DEF MessagesFormed
<1>2. Len(seqs) = n
  BY <1>1
<1>3. CASE n = 0
  <2>1. sent = seqs
    BY <1>2, <1>3, Zenon DEF FlattenSeq
  <2>2. DOMAIN sent = {}
    BY <1>1, <1>3, <2>1
  <2> QED BY <2>2 DEF OnceEach, ToSet
<1>4. CASE n # 0
  <2>1. PICK g : /\ sent = g[n]
                 /\ \A i \in 1 .. n : g[i] = IF i = 1 THEN seqs[i] ELSE g[i - 1] \o seqs[i]
    <3>1. sent = FlattenSeq(seqs) /\ n \in Nat \ {0}
      BY <1>4
    <3> HIDE DEF seqs
    <3>2. \E g : /\ FlattenSeq(seqs) = g[n]
                 /\ \A i \in 1 .. n : g[i] = IF i = 1 THEN seqs[i] ELSE g[i - 1] \o seqs[i]
      BY <1>2, <3>1, FlattenRec, Zenon
    <3> QED BY <3>1, <3>2, Zenon
  <2>2. ASSUME NEW i \in 1 .. n
        PROVE  /\ seqs[i] \in Seq(ToSet(seqs[i])) /\ OnceEach(seqs[i])
               /\ \A y \in ToSet(seqs[i]) : y.type = "DirectTransferModel" =>
                    y.task = extracted[i].task /\ TransferTo(extracted[i], p)
    <3> PICK m : m = extracted[i]
      OBVIOUS
    <3> PICK d : d = DirectTransferModel(Leader(m.cluster), m.task)
      OBVIOUS
    <3>1. d.type = "DirectTransferModel" /\ d.task = m.task
      BY DEF DirectTransferModel
    <3>2. m.type = "Task"
      BY <1>1 DEF MessagesFormed, ToSet
    <3>3. PICK e : e = <<>> /\ e \in Seq(ToSet(e)) /\ ToSet(e) = {}
      BY EmptyFacts
    <3>4. OnceEach(e)
      <4>1. DOMAIN <<>> = {}
        OBVIOUS
      <4> QED BY <3>3, <4>1 DEF OnceEach
    <3>5. PICK one : one = Append(e, m)
      OBVIOUS
    <3>6. one \in Seq(ToSet(one)) /\ ToSet(one) = {m}
      <4>1. e \in Seq(ToSet(e))
        BY <3>3
      <4>2. one \in Seq(ToSet(one)) /\ ToSet(one) = ToSet(e) \cup {m}
        BY <3>5, <4>1, AppendFacts
      <4> QED BY <3>3, <4>2
    <3>7. OnceEach(one)
      <4>1. e \in Seq(ToSet(e)) /\ \A x \in ToSet(e) : ~SameOrder(m, x)
        BY <3>3
      <4>2. OnceEach(Append(e, m))
        BY <3>4, <4>1, OnceEachAppend
      <4> QED BY <3>5, <4>2
    <3>8. PICK two : two = Append(one, d)
      OBVIOUS
    <3>9. two \in Seq(ToSet(two)) /\ ToSet(two) = {m, d}
      <4>1. two \in Seq(ToSet(two)) /\ ToSet(two) = ToSet(one) \cup {d}
        BY <3>6, <3>8, AppendFacts
      <4> QED BY <3>6, <4>1
    <3>10. ~SameOrder(d, m)
      BY <3>2 DEF SameOrder
    <3>11. OnceEach(two)
      BY <3>6, <3>7, <3>8, <3>10, OnceEachAppend
    <3>12. IF TransferTo(m, p) THEN seqs[i] = two ELSE seqs[i] = one
      <4>1. seqs[i] = <<m>> \o (IF TransferTo(m, p) THEN <<d>> ELSE <<>>)
        BY <1>1 DEF ToOneProcess
      <4>2. one = <<m>>
        BY <3>3, <3>5
      <4>3. one \o <<>> = one
        BY <3>6, ConcatEmptySeq
      <4>4. one \o <<d>> = two
        <5>1. one \in Seq({m, d}) /\ d \in {m, d}
          BY <4>2
        <5> QED BY <3>8, <5>1, AppendIsConcat
      <4> QED BY <4>1, <4>2, <4>3, <4>4
    <3> HIDE DEF seqs
    <3> QED BY <3>1, <3>2, <3>6, <3>7, <3>9, <3>11, <3>12
  <2> HIDE DEF seqs
  <2> DEFINE Good(k) ==
        /\ g[k] \in Seq(ToSet(g[k])) /\ OnceEach(g[k])
        /\ \A y \in ToSet(g[k]) : y.type = "DirectTransferModel" =>
             \E i \in 1 .. k : y.task = extracted[i].task /\ TransferTo(extracted[i], p)
  <2>3. Good(1)
    <3>1. 1 \in 1 .. n /\ 1 \in 1 .. 1
      BY <1>4
    <3>2. g[1] = seqs[1]
      BY <2>1, <3>1
    <3> QED BY <2>2, <3>1, <3>2
  <2>4. ASSUME NEW k \in 1 .. n, k + 1 \in 1 .. n, Good(k) PROVE Good(k + 1)
    <3>1. g[k + 1] = g[k] \o seqs[k + 1]
      <4>1. k + 1 # 1 /\ (k + 1) - 1 = k
        OBVIOUS
      <4> QED BY <2>1, <2>4, <4>1
    <3> PICK a, b : a = g[k] /\ b = seqs[k + 1]
      OBVIOUS
    <3>2. /\ a \in Seq(ToSet(a)) /\ b \in Seq(ToSet(b)) /\ OnceEach(a) /\ OnceEach(b)
      BY <2>2, <2>4
    <3>3. a \o b \in Seq(ToSet(a \o b)) /\ ToSet(a \o b) = ToSet(a) \cup ToSet(b)
      BY <3>2, ConcatFacts
    <3>4. /\ \A i \in 1 .. k : i \in 1 .. k + 1 /\ i # k + 1 /\ i \in 1 .. n
          /\ k + 1 \in 1 .. k + 1
      OBVIOUS
    <3>5. \A y \in ToSet(a) : y.type = "DirectTransferModel" =>
            \E i \in 1 .. k : y.task = extracted[i].task /\ TransferTo(extracted[i], p)
      BY <2>4
    <3>6. \A y \in ToSet(b) : y.type = "DirectTransferModel" =>
            y.task = extracted[k + 1].task /\ TransferTo(extracted[k + 1], p)
      BY <2>2, <2>4
    <3>7. ASSUME NEW x \in ToSet(a), NEW y \in ToSet(b), SameOrder(x, y) PROVE FALSE
      <4>1. x.type = "DirectTransferModel" /\ y.type = "DirectTransferModel" /\ x.task = y.task
        BY <3>7 DEF SameOrder
      <4>2. PICK i \in 1 .. k : x.task = extracted[i].task
        BY <3>5, <4>1
      <4>3. extracted[i].task = extracted[k + 1].task
        BY <3>6, <4>1, <4>2
      <4> QED BY <1>1, <2>4, <3>4, <4>3
    <3>8. OnceEach(a \o b)
      BY <3>2, <3>7, OnceEachConcat
    <3>9. \A y \in ToSet(a \o b) : y.type = "DirectTransferModel" =>
            \E i \in 1 .. k + 1 : y.task = extracted[i].task /\ TransferTo(extracted[i], p)
      BY <3>3, <3>4, <3>5, <3>6
    <3> QED BY <3>1, <3>3, <3>8, <3>9
  <2>5. Good(n)
    <3> DEFINE S == {k \in 1 .. n : ~Good(k)}
    <3> HIDE DEF Good
    <3> SUFFICES ASSUME S # {} PROVE FALSE
      BY <1>4
    <3>1. PICK k \in S : \A j \in S : k <= j
      <4>1. S \in SUBSET Nat
        OBVIOUS
      <4> HIDE DEF S
      <4> QED BY <4>1, Least
    <3>2. k \in 1 .. n /\ ~Good(k) /\ k # 1
      BY <2>3
    <3>3. k - 1 \in 1 .. n /\ ~(k <= k - 1) /\ (k - 1) + 1 = k
      BY <3>2
    <3>4. Good(k - 1)
      BY <3>1, <3>3
    <3> PICK j \in 1 .. n : j = k - 1 /\ j + 1 = k
      BY <3>3
    <3>5. Good(j + 1)
      BY <2>4, <3>2, <3>4
    <3> QED BY <3>2, <3>5
  <2>6. \A i \in 1 .. n : extracted[i] \in ToSet(extracted)
    BY <1>1 DEF ToSet
  <2> QED BY <2>1, <2>5, <2>6
<1> QED BY <1>3, <1>4

\* The instances are sent, with an order to the process that has the model.
LEMMA SendModels ==
  ASSUME Inv, RunsInv, ModelsInv, Send
  PROVE  ModelsInv'
<1>1. /\ UNCHANGED <<task_id_pid_tids_, current_epoch_, units_, transfers, loaded, model_store_>>
      /\ extracted' = <<>>
  BY DEF Send, workers, models
<1>2. \A m, n \in ToSet(extracted) : m.task = n.task => m = n
  BY DEF RunsInv, Unsent
<1>3. ASSUME NEW m \in ToSet(extracted)
      PROVE  /\ m.type = "Task" /\ m.task \in TaskIds /\ m.cluster # {} /\ m.cluster \subseteq Threads
             /\ m.cluster = task_id_pid_tids_[m.task] /\ m.epoch = current_epoch_[m.task]
             /\ \A t \in m.cluster : Once(extracted, t)
             /\ ~Sent(m.task)
  BY OnlyUnsent DEF RunsInv, Unsent, Sent
<1>4. ASSUME NEW i \in DOMAIN extracted, NEW k \in DOMAIN extracted, extracted[i].task = extracted[k].task
      PROVE  i = k
  <2> PICK m : m = extracted[i]
    OBVIOUS
  <2>1. m \in ToSet(extracted) /\ extracted[k] = m
    BY <1>2, <1>4 DEF ToSet
  <2>2. PICK t \in m.cluster : Once(extracted, t) /\ m.type = "Task"
    BY <1>3, <2>1
  <2>3. Speaks(extracted[i], t) /\ Speaks(extracted[k], t)
    BY <2>1, <2>2 DEF Speaks
  <2> QED BY <2>2, <2>3 DEF Once
<1>5. ASSUME NEW p \in Procs
      PROVE  /\ OnceEach(toWorker'[p])
             /\ ToSet(toWorker[p]) \subseteq ToSet(toWorker'[p])
             /\ \A y \in ToSet(toWorker'[p]) :
                  \/ y \in ToSet(toWorker[p]) \/ y \in ToSet(extracted)
                  \/ /\ y.type = "DirectTransferModel"
                     /\ \E m \in ToSet(extracted) : y.task = m.task /\ TransferTo(m, p)
                  \/ y.type = "Finished"
             /\ \A t : Once(extracted, t) =>
                  \E m \in ToSet(extracted) : Speaks(m, t) /\ m \in ToSet(toWorker'[p])
  <2>0. PICK s, sent, b, e : OnTheWay(p, s, sent, b, e)
    BY SendParts, Zenon
  <2>1. /\ s = toWorker[p] /\ b = s \o sent /\ toWorker'[p] = b \o e
        /\ sent = FlattenSeq([i \in DOMAIN extracted |-> ToOneProcess(extracted[i], p)])
        /\ s \in Seq(ToSet(s)) /\ sent \in Seq(ToSet(sent)) /\ e \in Seq(ToSet(e)) /\ b \in Seq(ToSet(b))
        /\ ToSet(b) = ToSet(s) \cup ToSet(sent) /\ ToSet(toWorker'[p]) = ToSet(b) \cup ToSet(e)
        /\ \A m \in ToSet(sent) : m \in ToSet(extracted) \/ m.type = "DirectTransferModel"
        /\ \A t : Once(extracted, t) => Once(sent, t)
        /\ \A m \in ToSet(e) : m.type = "Finished"
        /\ \A i, k \in DOMAIN e : i = k
    BY <2>0 DEF OnTheWay
  <2>2. /\ OnceEach(sent)
        /\ \A y \in ToSet(sent) : y.type = "DirectTransferModel" =>
             \E m \in ToSet(extracted) : y.task = m.task /\ TransferTo(m, p)
    <3>1. sent = FlattenSeq([i \in DOMAIN extracted |-> ToOneProcess(extracted[i], p)]) /\ MessagesFormed
      BY <2>1 DEF Inv
    <3> QED BY <1>4, <3>1, SentOrders
  <2>3. OnceEach(s)
    BY <2>1 DEF ModelsInv, OrdersOnce
  <2>4. ASSUME NEW x \in ToSet(s), NEW y \in ToSet(sent), SameOrder(x, y) PROVE FALSE
    <3>1. x.type = "DirectTransferModel" /\ y.type = "DirectTransferModel" /\ x.task = y.task
      BY <2>4 DEF SameOrder
    <3>2. PICK m \in ToSet(extracted) : y.task = m.task
      BY <2>2, <3>1
    <3>3. Ordered(m.task, p) /\ m.task \in TaskIds
      BY <1>3, <2>1, <3>1, <3>2 DEF Ordered
    <3>4. Sent(m.task)
      BY <3>3 DEF ModelsInv, OrdersServed, Served
    <3> QED BY <1>3, <3>4
  <2>5. OnceEach(b)
    BY <2>1, <2>2, <2>3, <2>4, OnceEachConcat
  <2>6. OnceEach(e)
    BY <2>1 DEF OnceEach
  <2>7. \A x \in ToSet(b), y \in ToSet(e) : ~SameOrder(x, y)
    BY <2>1 DEF SameOrder
  <2>8. OnceEach(b \o e)
    BY <2>1, <2>5, <2>6, <2>7, OnceEachConcat
  <2>9. ASSUME NEW t, Once(extracted, t)
        PROVE  \E m \in ToSet(extracted) : Speaks(m, t) /\ m \in ToSet(toWorker'[p])
    <3>1. PICK n \in DOMAIN sent : Speaks(sent[n], t)
      BY <2>1, <2>9 DEF Once
    <3>2. sent[n] \in ToSet(sent)
      BY DEF ToSet
    <3>3. sent[n] \in ToSet(extracted)
      BY <2>1, <3>1, <3>2 DEF Speaks
    <3> QED BY <2>1, <3>1, <3>2, <3>3
  <2> QED BY <2>1, <2>2, <2>8, <2>9
<1>6. ASSUME NEW k \in TaskIds, \A m \in ToSet(extracted) : m.task # k
      PROVE  last_instance_'[k] = last_instance_[k]
  BY <1>6 DEF Send
<1>7. ASSUME NEW m \in ToSet(extracted)
      PROVE  last_instance_'[m.task] \in m.cluster
  <2> PICK c : c = CHOOSE x \in ToSet(extracted) : x.task = m.task
    OBVIOUS
  <2>1. c \in ToSet(extracted) /\ c.task = m.task
    OBVIOUS
  <2>2. c = m
    BY <1>2, <2>1
  <2>3. last_instance_'[m.task] = Leader(m.cluster)
    BY <1>3, <2>2 DEF Send
  <2>4. Leader(m.cluster) \in m.cluster
    BY <1>3 DEF Leader
  <2> QED BY <2>3, <2>4
<1>8. ModelsTyped'
  <2>1. \A p \in Procs : \A y \in ToSet(toWorker'[p]) : y.type = "DirectTransferModel" => y.task \in TaskIds
    BY <1>3, <1>5 DEF ModelsInv, ModelsTyped
  <2> QED BY <1>1, <2>1 DEF ModelsInv, ModelsTyped
<1>9. EpochsKept'
  <2>1. ASSUME NEW t \in Threads, NEW y \in ToSet(toWorker'[get_process_id(t)]), Speaks(y, t)
        PROVE  y.epoch = current_epoch_'[y.task]
    <3>1. CASE y \in ToSet(toWorker[get_process_id(t)])
      BY <1>1, <2>1, <3>1 DEF ModelsInv, EpochsKept
    <3>2. CASE y \in ToSet(extracted)
      BY <1>1, <1>3, <3>2
    <3> QED BY <1>5, <2>1, <3>1, <3>2, ProcOf DEF Speaks
  <2> QED BY <1>1, <2>1 DEF ModelsInv, EpochsKept
<1>10. \A k \in TaskIds, p \in Procs : Ordered(k, p)' =>
         Ordered(k, p) \/ \E m \in ToSet(extracted) : m.task = k /\ TransferTo(m, p)
  BY <1>1, <1>3, <1>5 DEF Ordered
<1>11. OrdersOnce'
  <2>1. ASSUME NEW p \in Procs, NEW x \in ToSet(toWorker'[p]), NEW y \in ToSet(transfers'[p]), SameOrder(x, y)
        PROVE  FALSE
    <3>1. x.type = "DirectTransferModel" /\ y.type = "DirectTransferModel" /\ x.task = y.task
          /\ y \in ToSet(transfers[p])
      BY <1>1, <2>1 DEF SameOrder
    <3>2. CASE x \in ToSet(toWorker[p])
      BY <2>1, <3>1, <3>2 DEF ModelsInv, OrdersOnce
    <3>3. ASSUME NEW m \in ToSet(extracted), x.task = m.task PROVE FALSE
      <4>1. Ordered(m.task, p) /\ m.task \in TaskIds
        BY <1>3, <3>1, <3>3 DEF Ordered
      <4>2. Sent(m.task)
        BY <4>1 DEF ModelsInv, OrdersServed, Served
      <4> QED BY <1>3, <4>2
    <3> QED BY <1>3, <1>5, <2>1, <3>1, <3>2, <3>3
  <2> QED BY <1>1, <1>5, <2>1 DEF ModelsInv, OrdersOnce
<1>12. \A t \in Threads, k \in TaskIds : Pending(t, k) => Pending(t, k)'
  BY <1>1, <1>5, ProcOf DEF Pending
<1>13. ToSet(extracted') = {}
  BY <1>1, EmptyFacts
<1>14. ASSUME NEW k \in TaskIds
       PROVE  /\ Tasks[k].dmt => ModelKept(k)'
              /\ \A q \in Procs : Ordered(k, q)' => Served(k, q)'
  <2>1. CASE \A m \in ToSet(extracted) : m.task # k
    <3>1. Sent(k)' <=> Sent(k)
      BY <1>1, <1>13, <2>1 DEF Sent
    <3>2. \A q \in Procs : Ordered(k, q)' => Ordered(k, q)
      BY <1>10, <2>1
    <3>3. last_instance_'[k] = last_instance_[k]
      BY <1>6, <2>1
    <3> QED BY <1>1, <1>12, <3>1, <3>2, <3>3, ModelStays
  <2>2. ASSUME NEW m \in ToSet(extracted), m.task = k
        PROVE  /\ Tasks[k].dmt => ModelKept(k)'
               /\ \A q \in Procs : Ordered(k, q)' => Served(k, q)'
    <3> PICK t, c : t = last_instance_'[k] /\ c = current_epoch_[k]
      OBVIOUS
    <3>1. t \in m.cluster /\ t \in Threads /\ ~Sent(k) /\ m.cluster = task_id_pid_tids_[k]
          /\ m.epoch = c /\ c \in Nat /\ loaded[k] \in Int
      BY <1>3, <1>7, <2>2 DEF Inv, BooksTyped, ModelsInv, ModelsTyped
    <3>2. Sent(k)'
      BY <1>1, <1>3, <1>13, <3>1 DEF Sent
    <3>3. Pending(last_instance_[k], k)'
      <4>1. PICK x \in ToSet(extracted) : Speaks(x, t) /\ x \in ToSet(toWorker'[get_process_id(t)])
        BY <1>3, <1>5, <3>1, ProcOf
      <4>2. x.task \in TaskIds /\ t \in task_id_pid_tids_[x.task]
        BY <1>3, <4>1 DEF Speaks
      <4>3. x.task = k
        BY <3>1, <4>2 DEF Inv, Booked
      <4> QED BY <4>1, <4>3 DEF Pending
    <3>4. ASSUME Tasks[k].dmt
          PROVE  /\ loaded[k] <= c - 1
                 /\ c > 0 => /\ last_instance_[k] \in Threads
                             /\ model_store_[get_process_id(last_instance_[k])][k] = c - 1
                             /\ loaded[k] # c - 1
      <4>1. ModelKept(k)
        BY <3>4 DEF ModelsInv, ModelsLeft
      <4>2. CASE c > 0
        <5>1. ModelAt(k, c - 1) /\ loaded[k] < c - 1
          BY <3>1, <4>1, <4>2 DEF ModelKept
        <5> QED BY <3>1, <5>1 DEF ModelAt
      <4>3. CASE c = 0
        <5>1. loaded[k] = -1
          BY <3>1, <4>1, <4>3 DEF ModelKept
        <5> QED BY <4>3, <5>1
      <4> QED BY <3>1, <4>2, <4>3
    <3>5. Tasks[k].dmt => ModelKept(k)'
      BY <1>1, <3>1, <3>2, <3>3, <3>4 DEF ModelKept
    <3>6. ASSUME NEW q \in Procs, Ordered(k, q)'
          PROVE  Tasks[k].dmt /\ c > 0 /\ q = get_process_id(last_instance_[k])
      <4>1. ~Ordered(k, q)
        BY <3>1 DEF ModelsInv, OrdersServed, Served
      <4>2. PICK x \in ToSet(extracted) : x.task = k /\ TransferTo(x, q)
        BY <1>10, <3>6, <4>1
      <4>3. x = m
        BY <1>2, <2>2, <4>2
      <4> QED BY <2>2, <3>1, <4>2, <4>3 DEF TransferTo
    <3>7. ASSUME NEW q \in Procs, Ordered(k, q)' PROVE Served(k, q)'
      <4>1. Tasks[k].dmt /\ c > 0 /\ q = get_process_id(last_instance_[k])
        BY <3>6, <3>7
      <4>2. \A o \in Procs : Ordered(k, o)' => o = q
        BY <3>6, <4>1
      <4>3. model_store_'[q][k] = c - 1 /\ loaded'[k] # c - 1
        BY <1>1, <3>4, <4>1
      <4> QED BY <1>1, <3>2, <3>3, <4>1, <4>2, <4>3 DEF Served
    <3> QED BY <3>5, <3>7
  <2> QED BY <2>1, <2>2
<1> QED BY <1>8, <1>9, <1>11, <1>14, ModelsTogether

\* The three invariants together.
THEOREM ModelsInvariance == Spec => [](Inv /\ RunsInv /\ ModelsInv)
<1>1. Inv /\ RunsInv /\ ModelsInv /\ [Next]_vars => ModelsInv'
  <2> SUFFICES ASSUME Inv, RunsInv, ModelsInv, [Next]_vars PROVE ModelsInv'
    OBVIOUS
  <2>1. ASSUME NEW p \in Procs, ReceiveTasks(p) PROVE ModelsInv'
    BY <2>1, OtherModels DEF ReceiveTasks, records, workers, models
  <2>2. ASSUME NEW p \in Procs, ReceiveExit(p) PROVE ModelsInv'
    BY <2>2, OtherModels DEF ReceiveExit, scheduler, records, workers, models
  <2>3. CASE BeginExtract
    BY <2>3, OtherModels DEF BeginExtract, scheduler, records, workers, models
  <2>4. CASE OrderByPriority
    BY <2>4, OtherModels DEF OrderByPriority, scheduler, records, workers, models
  <2>5. CASE Manager
    BY <2>1, <2>2, <2>3, <2>4, <2>5, ReceiveThreadFinishedModels, AssignModels, SendModels DEF Manager
  <2>6. ASSUME NEW p \in Procs, Submit(p) PROVE ModelsInv'
    BY <2>6, OtherModels DEF Submit, manager, scheduler, records, models
  <2>7. ASSUME NEW p \in Procs, Exit(p) PROVE ModelsInv'
    BY <2>7, OtherModels DEF Exit, manager, scheduler, records, models
  <2>8. ASSUME NEW p \in Procs, RemoveInstance(p) PROVE ModelsInv'
    BY <2>8, OtherModels DEF RemoveInstance, manager, scheduler, records, models
  <2>9. ASSUME NEW p \in Procs, MainLoop(p) PROVE ModelsInv'
    BY <2>6, <2>7, <2>8, <2>9, run_instanceModels, WorkerFinishThreadModels, SendTaskModels,
       LeaveLoopModels DEF MainLoop
  <2>10. ASSUME NEW p \in Procs, TransferModel(p) PROVE ModelsInv'
    BY <2>10, TransferModelModels
  <2>11. ASSUME NEW t \in Threads, ThreadEnds(t) PROVE ModelsInv'
    BY <2>11, ThreadEndsModels
  <2>12. CASE UNCHANGED vars
    BY <2>12, OtherModels DEF vars, manager, scheduler, records, workers, models
  <2> QED BY <2>5, <2>9, <2>10, <2>11, <2>12 DEF Next
<1> QED BY <1>1, InitialModels, RunsInvariance, PTL DEF Spec

\* The order to transfer a model finds the model of the epoch before in the store
\* of the process it is sent to: the assertion of ModelTransferStore::Pop holds.
THEOREM ModelFound == Spec => []TransferFindsModel
<1>1. ModelsInv => TransferFindsModel
  <2> SUFFICES ASSUME ModelsInv, NEW p \in Procs, transfers[p] # <<>>,
                      NEW id, id = Head(transfers[p]).task
               PROVE  model_store_[p][id] = current_epoch_[id] - 1
    BY DEF TransferFindsModel
  <2> PICK m : m = Head(transfers[p])
    OBVIOUS
  <2>1. m \in ToSet(transfers[p])
    BY TailFacts DEF ModelsInv, ModelsTyped
  <2>2. id \in TaskIds /\ Ordered(id, p)
    BY <2>1 DEF ModelsInv, ModelsTyped, Ordered
  <2> QED BY <2>2 DEF ModelsInv, OrdersServed, Served
<1> QED BY <1>1, ModelsInvariance, PTL
=============================================================================
