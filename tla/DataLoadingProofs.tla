------------------------- MODULE DataLoadingProofs --------------------------
(***************************************************************************)
(* Proofs about DataLoading for every number of threads and hosts, all     *)
(* blocks and replicas, and rings and batches of any size.                 *)
(*                                                                         *)
(* The argument follows the lines.  A line that a loading thread was given *)
(* is in the rest of its piece, in the batch it fills, in one slot of the  *)
(* ring, or with a thread (LinesApart, SlotsExact); the assigner forgets a *)
(* block when it hands it out, and lists the blocks again only when every  *)
(* loading thread is at the end of its input (Forgotten).                  *)
(***************************************************************************)
EXTENDS DataLoading, FiniteSetTheorems, SequenceTheorems, TLAPS

-----------------------------------------------------------------------------
(* The ring: the slots from s on, c of them, of a ring of n.               *)

Slots(s, c, n) == {Wrap(s + k, n) : k \in 0..(c - 1)}

LEMMA RingPut ==
  ASSUME NEW n \in Nat \ {0}, NEW s \in Nat, NEW c \in Nat, s < n, c < n
  PROVE  /\ Wrap(s + c, n) \in 0..(n - 1)
         /\ Wrap(s + c, n) \notin Slots(s, c, n)
         /\ Slots(s, c + 1, n) = Slots(s, c, n) \cup {Wrap(s + c, n)}
         /\ Wrap(Wrap(s + c, n) + 1, n) = Wrap(s + (c + 1), n)
<1>1. Wrap(s + c, n) \in 0..(n - 1) /\ Wrap(s + c, n) \notin Slots(s, c, n)
  BY DEF Wrap, Slots
<1>2. Wrap(Wrap(s + c, n) + 1, n) = Wrap(s + (c + 1), n)
  BY DEF Wrap
<1>3. Slots(s, c + 1, n) = Slots(s, c, n) \cup {Wrap(s + c, n)}
  <2>1. 0..(c + 1 - 1) = 0..(c - 1) \cup {c}
    OBVIOUS
  <2> QED BY <2>1 DEF Slots
<1> QED BY <1>1, <1>2, <1>3

LEMMA RingTake ==
  ASSUME NEW n \in Nat \ {0}, NEW s \in Nat, NEW c \in Nat, s < n, 0 < c, c <= n
  PROVE  /\ s \in Slots(s, c, n)
         /\ Wrap(s + 1, n) \in Nat /\ Wrap(s + 1, n) < n
         /\ Slots(Wrap(s + 1, n), c - 1, n) = Slots(s, c, n) \ {s}
         /\ Wrap(Wrap(s + 1, n) + (c - 1), n) = Wrap(s + c, n)
<1>1. s \in Slots(s, c, n)
  <2>1. 0 \in 0..(c - 1) /\ Wrap(s + 0, n) = s
    BY DEF Wrap
  <2> QED BY <2>1 DEF Slots
<1>2. Wrap(s + 1, n) \in Nat /\ Wrap(s + 1, n) < n
  BY DEF Wrap
<1>3. Wrap(Wrap(s + 1, n) + (c - 1), n) = Wrap(s + c, n)
  BY DEF Wrap
<1>4. ASSUME NEW k \in 0..(c - 1 - 1)
      PROVE  /\ k + 1 \in 0..(c - 1)
             /\ Wrap(Wrap(s + 1, n) + k, n) = Wrap(s + (k + 1), n)
             /\ Wrap(s + (k + 1), n) # s
  BY DEF Wrap
<1>5. ASSUME NEW k \in 0..(c - 1), Wrap(s + k, n) # s
      PROVE  /\ k - 1 \in 0..(c - 1 - 1)
             /\ Wrap(s + k, n) = Wrap(Wrap(s + 1, n) + (k - 1), n)
  BY <1>5 DEF Wrap
<1>6. Slots(Wrap(s + 1, n), c - 1, n) \subseteq Slots(s, c, n) \ {s}
  BY <1>4 DEF Slots
<1>7. Slots(s, c, n) \ {s} \subseteq Slots(Wrap(s + 1, n), c - 1, n)
  BY <1>5 DEF Slots
<1> QED BY <1>1, <1>2, <1>3, <1>6, <1>7

LEMMA SlotsInRing ==
  ASSUME NEW n \in Nat \ {0}, NEW s \in Nat, NEW c \in Nat, s < n, c <= n
  PROVE  Slots(s, c, n) \subseteq 0..(n - 1)
BY DEF Slots, Wrap

LEMMA SlotsOfNone ==
  ASSUME NEW n \in Nat \ {0}, NEW s \in Nat
  PROVE  Slots(s, 0, n) = {}
BY DEF Slots

LEMMA LiveSlots ==
  ASSUME NEW h \in Hosts
  PROVE  Live(h) = Slots(buf[h].start, buf[h].count, BatchNum)
BY DEF Live, Slots

-----------------------------------------------------------------------------
(* Lines and sequences of them.                                            *)

LEMMA LinesAreLines ==
  /\ Samples \subseteq AllLines
  /\ \A l \in AllLines : l[1] \in Blocks
BY DEF Samples, AllLines

LEMMA SeqRange ==
  ASSUME NEW S, NEW s \in Seq(S)
  PROVE  /\ ToSet(s) \subseteq S
         /\ DOMAIN s = 1..Len(s) /\ Len(s) \in Nat
         /\ (s = <<>>) <=> (ToSet(s) = {})
<1>1. ToSet(s) \subseteq S /\ DOMAIN s = 1..Len(s) /\ Len(s) \in Nat
  BY DEF ToSet
<1>2. s # <<>> => ToSet(s) # {}
  <2>1. s # <<>> => 1 \in DOMAIN s
    OBVIOUS
  <2> QED BY <2>1 DEF ToSet
<1>3. s = <<>> => ToSet(s) = {}
  BY DEF ToSet
<1> QED BY <1>1, <1>2, <1>3

LEMMA EmptyRange == ToSet(<<>>) = {}
BY DEF ToSet

LEMMA TailRange ==
  ASSUME NEW S, NEW s \in Seq(S), s # <<>>, IsInjective(s)
  PROVE  /\ Head(s) \in S /\ Tail(s) \in Seq(S)
         /\ Head(s) \in ToSet(s)
         /\ ToSet(Tail(s)) = ToSet(s) \ {Head(s)}
         /\ IsInjective(Tail(s))
<1>1. /\ Head(s) = s[1] /\ Len(s) \in Nat \ {0} /\ Tail(s) \in Seq(S)
      /\ Len(Tail(s)) = Len(s) - 1 /\ \A i \in 1..(Len(s) - 1) : Tail(s)[i] = s[i + 1]
  OBVIOUS
<1>2. DOMAIN s = 1..Len(s) /\ DOMAIN Tail(s) = 1..(Len(s) - 1)
  BY <1>1
<1>3. Head(s) \in S /\ Head(s) \in ToSet(s)
  BY <1>1, <1>2 DEF ToSet
<1>4. IsInjective(Tail(s))
  BY <1>1, <1>2 DEF IsInjective
<1>5. ToSet(Tail(s)) \subseteq ToSet(s) \ {Head(s)}
  BY <1>1, <1>2 DEF ToSet, IsInjective
<1>6. ASSUME NEW i \in 1..Len(s), s[i] # s[1]
      PROVE  s[i] \in ToSet(Tail(s))
  <2>1. i - 1 \in 1..(Len(s) - 1) /\ Tail(s)[i - 1] = s[i]
    BY <1>1, <1>6
  <2> QED BY <2>1, <1>2 DEF ToSet
<1>7. ToSet(s) \ {Head(s)} \subseteq ToSet(Tail(s))
  BY <1>1, <1>2, <1>6 DEF ToSet
<1> QED BY <1>1, <1>3, <1>4, <1>5, <1>7

LEMMA ConcatRange ==
  ASSUME NEW S, NEW s \in Seq(S), NEW t \in Seq(S)
  PROVE  s \o t \in Seq(S) /\ ToSet(s \o t) = ToSet(s) \cup ToSet(t)
<1>1. /\ s \o t \in Seq(S) /\ Len(s \o t) = Len(s) + Len(t)
      /\ \A i \in 1..(Len(s) + Len(t)) :
           (s \o t)[i] = IF i <= Len(s) THEN s[i] ELSE t[i - Len(s)]
  BY ConcatProperties
<1>2. /\ DOMAIN s = 1..Len(s) /\ DOMAIN t = 1..Len(t) /\ Len(s) \in Nat /\ Len(t) \in Nat
      /\ DOMAIN (s \o t) = 1..(Len(s) + Len(t))
  BY <1>1
<1>3. ToSet(s \o t) \subseteq ToSet(s) \cup ToSet(t)
  BY <1>1, <1>2 DEF ToSet
<1>4. ToSet(s) \subseteq ToSet(s \o t)
  BY <1>1, <1>2 DEF ToSet
<1>5. ASSUME NEW i \in 1..Len(t) PROVE t[i] \in ToSet(s \o t)
  <2>1. Len(s) + i \in 1..(Len(s) + Len(t)) /\ (s \o t)[Len(s) + i] = t[i]
    BY <1>1, <1>2
  <2> QED BY <2>1, <1>2 DEF ToSet
<1> QED BY <1>1, <1>2, <1>3, <1>4, <1>5 DEF ToSet

\* The lines of a block are different lines of this block.
LEMMA LinesOfBlock ==
  ASSUME NEW b \in Blocks
  PROVE  /\ LinesOf(b) \in Seq(AllLines) /\ IsInjective(LinesOf(b))
         /\ \A l \in ToSet(LinesOf(b)) : l[1] = b
         /\ IsFiniteSet(ToSet(LinesOf(b)))
<1>1. Lines[b] \in Nat /\ \A i \in 1..Lines[b] : <<b, i>> \in AllLines
  BY DataAssumption DEF AllLines
<1>2. /\ LinesOf(b) \in Seq(AllLines) /\ DOMAIN LinesOf(b) = 1..Lines[b]
      /\ \A i \in 1..Lines[b] : LinesOf(b)[i] = <<b, i>>
  BY <1>1 DEF LinesOf
<1>3. IsInjective(LinesOf(b))
  BY <1>2 DEF IsInjective
<1>4. \A l \in ToSet(LinesOf(b)) : l[1] = b
  BY <1>2 DEF ToSet
<1>5. IsFiniteSet(ToSet(LinesOf(b)))
  <2>1. LinesOf(b) \in Surjection(1..Lines[b], ToSet(LinesOf(b)))
    BY <1>2 DEF Surjection, ToSet, LinesOf
  <2>2. IsFiniteSet(1..Lines[b])
    BY <1>1, FS_Interval
  <2> QED BY <2>1, <2>2, FS_Surjection
<1> QED BY <1>2, <1>3, <1>4, <1>5

LEMMA SetAsSeq ==
  ASSUME NEW S, IsFiniteSet(S)
  PROVE  SetToSeq(S) \in Seq(S) /\ IsInjective(SetToSeq(S))
<1>1. Cardinality(S) \in Nat /\ ExistsBijection(1..Cardinality(S), S)
  BY FS_CardinalityType
<1>2. \E f \in [1..Cardinality(S) -> S] : IsInjective(f)
  BY <1>1 DEF ExistsBijection, Bijection, Injection
<1>3. SetToSeq(S) \in [1..Cardinality(S) -> S] /\ IsInjective(SetToSeq(S))
  BY <1>2 DEF SetToSeq
<1> QED BY <1>1, <1>3

\* A piece is given as a sequence of different lines of one block.
LEMMA PieceOfBlock ==
  ASSUME NEW ans, NEW b \in Blocks, ans.piece = {b}
  PROVE  /\ PieceLines(ans) \in Seq(AllLines) /\ IsInjective(PieceLines(ans))
         /\ \A l \in ToSet(PieceLines(ans)) : l[1] = b
<1>1. (CHOOSE x \in ans.piece : TRUE) = b /\ ans.piece # {}
  OBVIOUS
<1>2. CASE scn.fmt = "binary"
  <2> DEFINE S == ToSet(LinesOf(b)) \ Blank
  <2>1. PieceLines(ans) = SetToSeq(S)
    BY <1>1, <1>2, Zenon DEF PieceLines
  <2>2. IsFiniteSet(S) /\ S \subseteq AllLines /\ \A l \in S : l[1] = b
    BY LinesOfBlock, FS_Difference, SeqRange
  <2> HIDE DEF S
  <2>3. SetToSeq(S) \in Seq(S) /\ IsInjective(SetToSeq(S))
    BY <2>2, SetAsSeq
  <2>4. SetToSeq(S) \in Seq(AllLines) /\ ToSet(SetToSeq(S)) \subseteq S
    BY <2>2, <2>3, SeqRange, SeqMonotonic
  <2> QED BY <2>1, <2>2, <2>3, <2>4
<1>3. CASE scn.fmt # "binary"
  <2>1. PieceLines(ans) = LinesOf(b)
    BY <1>1, <1>3, Zenon DEF PieceLines
  <2> QED BY <2>1, LinesOfBlock
<1> QED BY <1>2, <1>3

LEMMA NoPiece ==
  ASSUME NEW ans, ans.piece = {}
  PROVE  PieceLines(ans) = <<>>
BY DEF PieceLines

-----------------------------------------------------------------------------
(* What the threads have seen.                                             *)

SeenTyped == seen \in [Threads -> [Samples -> Nat]]

LEMMA OccurrencesCounted ==
  ASSUME NEW S, NEW ls \in Seq(S), NEW l
  PROVE  /\ Cardinality({i \in DOMAIN ls : ls[i] = l}) \in Nat
         /\ Cardinality({i \in DOMAIN ls : ls[i] = l}) > 0 <=> l \in ToSet(ls)
<1> DEFINE I == {i \in DOMAIN ls : ls[i] = l}
<1>1. IsFiniteSet(DOMAIN ls) /\ I \in SUBSET (DOMAIN ls)
  BY SeqRange, FS_Interval
<1>2. I # {} <=> l \in ToSet(ls)
  BY DEF ToSet
<1> HIDE DEF I
<1>3. IsFiniteSet(I)
  BY <1>1, FS_Subset
<1>4. Cardinality(I) \in Nat /\ (Cardinality(I) = 0 <=> I = {})
  BY <1>3, FS_EmptySet, FS_CardinalityType
<1>5. Cardinality(I) > 0 <=> I # {}
  BY <1>4
<1> QED BY <1>2, <1>4, <1>5 DEF I

\* A thread has seen what it had seen before and what it is given.
LEMMA CountSeen ==
  ASSUME SeenTyped, NEW t \in Threads, NEW ls \in Seq(AllLines)
  PROVE  /\ Count(t, ls) \in [Threads -> [Samples -> Nat]]
         /\ \A u \in Threads, l \in Samples :
              Count(t, ls)[u][l] > 0 <=> seen[u][l] > 0 \/ (u = t /\ l \in ToSet(ls))
<1> DEFINE n(l) == Cardinality({i \in DOMAIN ls : ls[i] = l})
           row == [l \in Samples |-> seen[t][l] + n(l)]
<1>1. \A l \in Samples : n(l) \in Nat /\ (n(l) > 0 <=> l \in ToSet(ls))
  BY OccurrencesCounted
<1>2. Count(t, ls) = [seen EXCEPT ![t] = row]
  BY DEF Count
<1> HIDE DEF n
<1>3. row \in [Samples -> Nat] /\ \A l \in Samples : row[l] = seen[t][l] + n(l)
  BY <1>1 DEF SeenTyped
<1> HIDE DEF row
<1>4. [seen EXCEPT ![t] = row] \in [Threads -> [Samples -> Nat]]
  BY <1>3 DEF SeenTyped
<1>5. ASSUME NEW u \in Threads, NEW l \in Samples
      PROVE  [seen EXCEPT ![t] = row][u][l] > 0
               <=> seen[u][l] > 0 \/ (u = t /\ l \in ToSet(ls))
  <2>1. CASE u = t
    <3>1. [seen EXCEPT ![t] = row][u][l] = seen[t][l] + n(l)
      BY <2>1, <1>3 DEF SeenTyped
    <3>2. seen[t][l] \in Nat /\ n(l) \in Nat
      BY <1>1 DEF SeenTyped
    <3>3. seen[t][l] + n(l) > 0 <=> seen[t][l] > 0 \/ n(l) > 0
      BY <3>2
    <3>4. n(l) > 0 <=> l \in ToSet(ls)
      BY <1>1
    <3> QED BY <2>1, <3>1, <3>3, <3>4
  <2>2. CASE u # t
    BY <2>2 DEF SeenTyped
  <2> QED BY <2>1, <2>2
<1> QED BY <1>2, <1>4, <1>5

LEMMA SeenBySome ==
  ASSUME SeenTyped, NEW ts \in SUBSET Threads, NEW l \in Samples
  PROVE  SeenBy(ts, l) > 0 <=> \E t \in ts : seen[t][l] > 0
<1> DEFINE parts == {{t} \X (1..seen[t][l]) : t \in ts}
<1>1. \A t \in ts : seen[t][l] \in Nat
  BY DEF SeenTyped
<1>2. IsFiniteSet(ts)
  BY DataAssumption, FS_Subset
<1>3. \A T \in parts : IsFiniteSet(T)
  <2>1. ASSUME NEW t \in ts PROVE IsFiniteSet({t} \X (1..seen[t][l]))
    <3>1. IsFiniteSet({t}) /\ IsFiniteSet(1..seen[t][l])
      <4>1. 1 \in Int /\ seen[t][l] \in Int
        BY <1>1
      <4> QED BY <4>1, FS_Singleton, FS_Interval
    <3> QED BY <3>1, FS_Product
  <2> QED BY <2>1
<1>4. IsFiniteSet(parts)
  <2> DEFINE f == [t \in ts |-> {t} \X (1..seen[t][l])]
  <2>1. f \in Surjection(ts, parts)
    BY DEF Surjection
  <2> QED BY <1>2, <2>1, FS_Surjection
<1>5. IsFiniteSet(UNION parts)
  BY <1>3, <1>4, FS_UNION
<1>6. UNION parts # {} <=> \E t \in ts : seen[t][l] > 0
  <2>1. ASSUME NEW t \in ts, seen[t][l] > 0 PROVE <<t, 1>> \in UNION parts
    BY <1>1, <2>1
  <2>2. ASSUME NEW x \in UNION parts PROVE \E t \in ts : seen[t][l] > 0
    BY <1>1
  <2> QED BY <2>1, <2>2
<1>7. SeenBy(ts, l) = Cardinality(UNION parts)
  BY DEF SeenBy
<1> HIDE DEF parts
<1>8. Cardinality(UNION parts) \in Nat /\ (Cardinality(UNION parts) = 0 <=> UNION parts = {})
  BY <1>5, FS_EmptySet, FS_CardinalityType
<1>9. Cardinality(UNION parts) > 0 <=> UNION parts # {}
  BY <1>8
<1> QED BY <1>6, <1>7, <1>9

-----------------------------------------------------------------------------
(* The answers of the assigner to a loading thread.                        *)

Listed == IF asg.known THEN asg ELSE browse_hdfs(asg)

\* An answer with a block that was left, which is then forgotten on every host.
Handed(ans, b) ==
  /\ ans.piece = {b} /\ b \in Blocks
  /\ \E other \in Hosts : b \in Listed.left[other]
  /\ ans.asg \in Assigners /\ ans.asg.known
  /\ ans.asg.rejected = Listed.rejected
  /\ \A other \in Hosts : ans.asg.left[other] = Listed.left[other] \ {b}

\* An answer without one.
TurnedDown(ans) ==
  /\ ans.piece = {}
  /\ ans.asg \in Assigners
  /\ ans.asg.left = Listed.left
  /\ ~ans.asg.known => scn.fmt # "binary" /\ ~scn.local /\ ans.asg.rejected = Cardinality(Threads)
  /\ scn.fmt # "binary" /\ ~scn.local => ans.asg.rejected = Listed.rejected + 1

LEMMA ListedTyped ==
  ASSUME asg \in Assigners
  PROVE  Listed \in Assigners /\ Listed.known
<1>1. CASE asg.known
  BY <1>1 DEF Listed
<1>2. CASE ~asg.known
  BY <1>2 DEF Listed, browse_hdfs, Assigners
<1> QED BY <1>1, <1>2

LEMMA LocalRejection ==
  ASSUME NEW a \in Assigners, a.known, NEW h \in Hosts
  PROVE  LET r == [a EXCEPT !.rejectedOn[h] = @ + 1]
         IN  r \in Assigners /\ r.known /\ r.left = a.left
<1>1. a.rejectedOn \in [Hosts -> Nat]
  BY DEF Assigners
<1>2. PICK o \in [Hosts -> Nat] : o = [a.rejectedOn EXCEPT ![h] = @ + 1]
  <2>1. PICK f \in [Hosts -> Nat] : f = a.rejectedOn
    BY <1>1
  <2>2. [f EXCEPT ![h] = @ + 1] \in [Hosts -> Nat]
    OBVIOUS
  <2> QED BY <2>1, <2>2
<1>3. [a EXCEPT !.rejectedOn[h] = @ + 1] = [a EXCEPT !.rejectedOn = o]
  BY <1>2
<1>4. /\ [a EXCEPT !.rejectedOn = o] \in Assigners
      /\ [a EXCEPT !.rejectedOn = o].known = a.known /\ [a EXCEPT !.rejectedOn = o].left = a.left
  BY DEF Assigners
<1> QED BY <1>3, <1>4

LEMMA GlobalRejection ==
  ASSUME NEW a \in Assigners, NEW q \in BOOLEAN
  PROVE  LET r == [a EXCEPT !.rejected = @ + 1, !.known = q]
         IN  r \in Assigners /\ r.left = a.left /\ r.rejected = a.rejected + 1 /\ r.known = q
<1>1. PICK n \in Nat : n = a.rejected + 1
  BY DEF Assigners
<1>2. [a EXCEPT !.rejected = @ + 1, !.known = q] = [a EXCEPT !.rejected = n, !.known = q]
  BY <1>1
<1>3. /\ [a EXCEPT !.rejected = n, !.known = q] \in Assigners
      /\ [a EXCEPT !.rejected = n, !.known = q].left = a.left
      /\ [a EXCEPT !.rejected = n, !.known = q].rejected = n
      /\ [a EXCEPT !.rejected = n, !.known = q].known = q
  BY DEF Assigners
<1> QED BY <1>1, <1>2, <1>3

LEMMA Rejections ==
  ASSUME NEW a \in Assigners, a.known, NEW h \in Hosts, NEW n, NEW local
  PROVE  /\ RejectLocally(a, h) \in Assigners
         /\ RejectLocally(a, h).known /\ RejectLocally(a, h).left = a.left
         /\ RejectGlobally(a, n) \in Assigners
         /\ RejectGlobally(a, n).left = a.left
         /\ RejectGlobally(a, n).rejected = a.rejected + 1
         /\ ~RejectGlobally(a, n).known => a.rejected + 1 = n
         /\ RejectFile(a, h, local) \in Assigners
         /\ RejectFile(a, h, local).known
         /\ RejectFile(a, h, local).left = a.left
<1>1. /\ RejectLocally(a, h) \in Assigners
      /\ RejectLocally(a, h).known /\ RejectLocally(a, h).left = a.left
  BY LocalRejection DEF RejectLocally
<1>2. PICK q \in BOOLEAN : q = (a.rejected + 1 # n)
  OBVIOUS
<1>3. RejectGlobally(a, n) = [a EXCEPT !.rejected = @ + 1, !.known = q]
  BY <1>2 DEF RejectGlobally
<1>4. /\ RejectGlobally(a, n) \in Assigners
      /\ RejectGlobally(a, n).left = a.left
      /\ RejectGlobally(a, n).rejected = a.rejected + 1
      /\ RejectGlobally(a, n).known = q
  <2>1. LET r == [a EXCEPT !.rejected = @ + 1, !.known = q]
        IN  r \in Assigners /\ r.left = a.left /\ r.rejected = a.rejected + 1 /\ r.known = q
    BY GlobalRejection
  <2> QED BY <2>1, <1>3
<1>5. LET r == [a EXCEPT !.rejected = @ + 1]
      IN  r \in Assigners /\ r.left = a.left /\ r.known
  <2>1. PICK m \in Nat : m = a.rejected + 1
    BY DEF Assigners
  <2>2. [a EXCEPT !.rejected = @ + 1] = [a EXCEPT !.rejected = m]
    BY <2>1
  <2>3. /\ [a EXCEPT !.rejected = m] \in Assigners
        /\ [a EXCEPT !.rejected = m].left = a.left /\ [a EXCEPT !.rejected = m].known = a.known
    BY DEF Assigners
  <2> QED BY <2>2, <2>3
<1>6. /\ RejectFile(a, h, local) \in Assigners
      /\ RejectFile(a, h, local).known
      /\ RejectFile(a, h, local).left = a.left
  <2>1. CASE local
    BY <2>1, LocalRejection DEF RejectFile
  <2>2. CASE ~local
    BY <2>2, <1>5 DEF RejectFile
  <2> QED BY <2>1, <2>2
<1> QED BY <1>1, <1>2, <1>4, <1>6

LEMMA AnswerForms ==
  ASSUME asg \in Assigners, NEW h \in Hosts, NEW ans \in Answers(h)
  PROVE  TurnedDown(ans) \/ \E b \in Blocks : Handed(ans, b)
<1> DEFINE choice == IF scn.local \/ Listed.left[h] # {} THEN Listed.left[h]
                     ELSE UNION {Listed.left[g] : g \in Hosts}
           RejectedBy == IF scn.fmt = "binary" THEN RejectFile(Listed, h, scn.local)
                         ELSE IF scn.local THEN RejectLocally(Listed, h)
                         ELSE RejectGlobally(Listed, Cardinality(Threads))
           Left(b) == [g \in Hosts |-> Listed.left[g] \ {b}]
<1>1. Listed \in Assigners /\ Listed.known
  BY ListedTyped
<1>2. \/ choice = {} /\ ans = [piece |-> {}, asg |-> RejectedBy]
      \/ \E b \in choice : ans = [piece |-> {b}, asg |-> [Listed EXCEPT !.left = Left(b)]]
  <2>1. CASE scn.fmt = "binary"
    BY <2>1 DEF Answers, FileAnswers, FileChoice, PopReplicas, prepare, Listed
  <2>2. CASE scn.fmt # "binary"
    BY <2>2 DEF Answers, BlockAnswers, BlockChoice, ForgetReplicas, Listed
  <2> QED BY <2>1, <2>2
<1>3. CASE choice = {} /\ ans = [piece |-> {}, asg |-> RejectedBy]
  <2>1. ans.piece = {} /\ ans.asg = RejectedBy
    BY <1>3
  <2>2. CASE scn.fmt = "binary"
    <3>1. ans.asg = RejectFile(Listed, h, scn.local)
      BY <2>1, <2>2
    <3>2. ans.asg \in Assigners /\ ans.asg.known /\ ans.asg.left = Listed.left
      BY <1>1, <3>1, Rejections
    <3> QED BY <2>1, <2>2, <3>2 DEF TurnedDown
  <2>3. CASE scn.fmt # "binary" /\ scn.local
    <3>1. ans.asg \in Assigners /\ ans.asg.known /\ ans.asg.left = Listed.left
      BY <1>1, <2>1, <2>3, Rejections
    <3> QED BY <2>1, <2>3, <3>1 DEF TurnedDown
  <2>4. CASE scn.fmt # "binary" /\ ~scn.local
    <3>1. /\ ans.asg \in Assigners /\ ans.asg.left = Listed.left
          /\ ans.asg.rejected = Listed.rejected + 1
          /\ ~ans.asg.known => Listed.rejected + 1 = Cardinality(Threads)
      BY <1>1, <2>1, <2>4, Rejections
    <3> QED BY <2>1, <2>4, <3>1 DEF TurnedDown
  <2> QED BY <2>2, <2>3, <2>4
<1>4. ASSUME NEW b \in choice, ans = [piece |-> {b}, asg |-> [Listed EXCEPT !.left = Left(b)]]
      PROVE  b \in Blocks /\ Handed(ans, b)
  <2>1. \E g \in Hosts : b \in Listed.left[g]
    OBVIOUS
  <2>2. b \in Blocks
    BY <1>1, <2>1 DEF Assigners
  <2>3. ans.piece = {b} /\ ans.asg = [Listed EXCEPT !.left = Left(b)]
    BY <1>4
  <2>4. Left(b) \in [Hosts -> SUBSET Blocks] /\ \A g \in Hosts : Left(b)[g] = Listed.left[g] \ {b}
    BY <1>1 DEF Assigners
  <2> HIDE DEF Left
  <2>5. /\ [Listed EXCEPT !.left = Left(b)].left = Left(b)
        /\ [Listed EXCEPT !.left = Left(b)].rejected = Listed.rejected
        /\ [Listed EXCEPT !.left = Left(b)].known = Listed.known
        /\ [Listed EXCEPT !.left = Left(b)] \in Assigners
    BY <1>1, <2>4 DEF Assigners
  <2> QED BY <1>1, <2>1, <2>2, <2>3, <2>4, <2>5 DEF Handed
<1> QED BY <1>2, <1>3, <1>4

\* The hosts with threads, and so with loading threads, are no more than the
\* threads: the assigner's count of rejections comes to the number of threads
\* only when all of them are at the end of their input.
ThreadHosts == {HostOf[t] : t \in Threads}

LEMMA ThreadHostsFinite ==
  IsFiniteSet(ThreadHosts) /\ Cardinality(ThreadHosts) <= Cardinality(Threads)
<1>1. HostOf \in Surjection(Threads, ThreadHosts)
  BY DataAssumption DEF Surjection, ThreadHosts
<1> QED BY <1>1, DataAssumption, FS_Surjection

LEMMA AllThreadHosts ==
  ASSUME NEW S \in SUBSET ThreadHosts
  PROVE  /\ IsFiniteSet(S)
         /\ Cardinality(S) = Cardinality(Threads) => S = ThreadHosts
<1>1. /\ IsFiniteSet(S) /\ Cardinality(S) <= Cardinality(ThreadHosts)
      /\ Cardinality(ThreadHosts) = Cardinality(S) => ThreadHosts = S
  BY ThreadHostsFinite, FS_Subset
<1>2. Cardinality(S) \in Nat /\ Cardinality(ThreadHosts) \in Nat /\ Cardinality(Threads) \in Nat
  BY <1>1, ThreadHostsFinite, DataAssumption, FS_CardinalityType
<1> QED BY <1>1, <1>2, ThreadHostsFinite

\* What a loading thread that asks for a piece is answered.
GlobalBlocks == scn.fmt # "binary" /\ ~scn.local
GetsBlock(ans, b) ==
  /\ ans.piece = {b} /\ ans.asg.known
  /\ \A other \in Hosts : b \notin ans.asg.left[other]
  /\ \A g \in Hosts : \A l \in GivenTo(g) : l[1] # b
  /\ GlobalBlocks => ans.asg.rejected = Cardinality(AtEOF)
GetsNothing(h, ans) ==
  /\ ans.piece = {}
  /\ ~ans.asg.known => \A t \in Threads : HostOf[t] = h \/ buf[HostOf[t]].eof
  /\ GlobalBlocks => ans.asg.rejected = Cardinality(AtEOF \cup {h})

LEMMA Asked ==
  ASSUME asg \in Assigners, AtEnd, Forgotten, NEW h \in Hosts, ~buf[h].eof,
         loader[h].pc # "none", NEW ans \in Answers(h)
  PROVE  /\ ans.asg \in Assigners
         /\ \A g, other \in Hosts : \A l \in GivenTo(g) : l[1] \notin ans.asg.left[other]
         /\ GetsNothing(h, ans) \/ \E b \in Blocks : GetsBlock(ans, b)
<1>1. PICK u \in Threads : HostOf[u] = h
  BY DEF AtEnd
<1>2. AtEOF \cup {h} \in SUBSET ThreadHosts /\ AtEOF \in SUBSET ThreadHosts /\ h \notin AtEOF
  <2>1. \A g \in Hosts : buf[g].eof => g \in ThreadHosts
    BY DEF AtEnd, ThreadHosts
  <2>2. h \in ThreadHosts
    BY <1>1 DEF ThreadHosts
  <2> QED BY <2>1, <2>2 DEF AtEOF
<1>3. /\ \A g, other \in Hosts : \A l \in GivenTo(g) : l[1] \notin Listed.left[other]
      /\ GlobalBlocks => Listed.rejected = Cardinality(AtEOF)
  <2>1. CASE asg.known
    BY <2>1 DEF Listed, Forgotten, GlobalBlocks
  <2>2. CASE ~asg.known
    <3>1. asg.rejected = 0 /\ \A g \in Hosts : GivenTo(g) = {} /\ ~buf[g].eof
      BY <1>1, <2>2 DEF Forgotten
    <3>2. AtEOF = {} /\ Cardinality({}) = 0
      BY <3>1, FS_EmptySet DEF AtEOF
    <3>3. Listed.rejected = 0
      BY <2>2 DEF Listed, browse_hdfs
    <3> QED BY <3>1, <3>2, <3>3
  <2> QED BY <2>1, <2>2
<1>4. IsFiniteSet(AtEOF) /\ Cardinality(AtEOF \cup {h}) = Cardinality(AtEOF) + 1
  BY <1>2, AllThreadHosts, FS_AddElement
<1>5. CASE TurnedDown(ans)
  <2>1. /\ ans.piece = {} /\ ans.asg \in Assigners /\ ans.asg.left = Listed.left
        /\ GlobalBlocks => ans.asg.rejected = Cardinality(AtEOF \cup {h})
    BY <1>3, <1>4, <1>5 DEF TurnedDown, GlobalBlocks
  <2>2. ASSUME ~ans.asg.known, NEW t \in Threads
        PROVE  HostOf[t] = h \/ buf[HostOf[t]].eof
    <3>1. GlobalBlocks /\ ans.asg.rejected = Cardinality(Threads)
      BY <1>5, <2>2 DEF TurnedDown, GlobalBlocks
    <3>2. Cardinality(AtEOF \cup {h}) = Cardinality(Threads)
      BY <2>1, <3>1
    <3>3. AtEOF \cup {h} = ThreadHosts
      BY <1>2, <3>2, AllThreadHosts
    <3>4. HostOf[t] \in AtEOF \cup {h}
      BY <3>3 DEF ThreadHosts
    <3> QED BY <3>4 DEF AtEOF
  <2> QED BY <1>3, <2>1, <2>2 DEF GetsNothing
<1>6. ASSUME NEW b \in Blocks, Handed(ans, b)
      PROVE  /\ ans.asg \in Assigners
             /\ \A g, other \in Hosts : \A l \in GivenTo(g) : l[1] \notin ans.asg.left[other]
             /\ GetsBlock(ans, b)
  <2>1. /\ ans.asg \in Assigners /\ ans.asg.known /\ ans.piece = {b}
        /\ \A other \in Hosts : ans.asg.left[other] = Listed.left[other] \ {b}
        /\ GlobalBlocks => ans.asg.rejected = Cardinality(AtEOF)
    BY <1>3, <1>6 DEF Handed
  <2>2. PICK other \in Hosts : b \in Listed.left[other]
    BY <1>6 DEF Handed
  <2>3. \A g \in Hosts : \A l \in GivenTo(g) : l[1] # b
    BY <1>3, <2>2
  <2> QED BY <1>3, <2>1, <2>3 DEF GetsBlock
<1> QED BY <1>5, <1>6, AnswerForms

-----------------------------------------------------------------------------
(* Steps that only move threads and loading threads.                       *)

Waits == {"put", "sleepy", "asleep"}

LEMMA SlotsSame ==
  ASSUME SlotsExact, UNCHANGED <<seen, loaded>>,
         \A h \in Hosts : /\ buf'[h].slots = buf[h].slots /\ buf'[h].start = buf[h].start
                          /\ buf'[h].count = buf[h].count
                          /\ buf'[h].num # 0 => buf[h].num # 0
  PROVE  SlotsExact'
<1> SUFFICES ASSUME NEW h \in Hosts
             PROVE  /\ SeenLoaded(h)'
                    /\ buf'[h].num # 0 => SlotsLoaded(h)' /\ SlotsApart(h)' /\ SlotsOrSeen(h)'
  BY DEF SlotsExact
<1>1. Live(h)' = Live(h)
  BY DEF Live
<1>2. \A l \in Samples : SeenOn(h, l)' <=> SeenOn(h, l)
  BY DEF SeenOn, OfHost
<1>3. InSlots(h, Live(h))' = InSlots(h, Live(h))
  BY <1>1 DEF InSlots
<1>4. SeenLoaded(h)'
  BY <1>2 DEF SlotsExact, SeenLoaded
<1>5. ASSUME buf'[h].num # 0 PROVE SlotsLoaded(h)' /\ SlotsApart(h)' /\ SlotsOrSeen(h)'
  <2>1. SlotsLoaded(h) /\ SlotsApart(h) /\ SlotsOrSeen(h)
    BY <1>5 DEF SlotsExact
  <2>2. SlotsLoaded(h)'
    BY <1>1, <2>1 DEF SlotsLoaded
  <2>3. SlotsApart(h)'
    BY <1>1, <2>1 DEF SlotsApart
  <2>4. SlotsOrSeen(h)'
    BY <1>2, <1>3, <2>1 DEF SlotsOrSeen
  <2> QED BY <2>2, <2>3, <2>4
<1> QED BY <1>4, <1>5

LEMMA Moved ==
  ASSUME BufferInv, scn.path = "buffer", UNCHANGED <<scn, asg, buf, seen, loaded>>,
         thread' \in [Threads -> ThreadStates], loader' \in [Hosts -> LoaderStates],
         \A t \in Threads :
           /\ thread'[t].data \in {thread[t].data, <<>>}
           /\ thread[t].pc = "done" => thread'[t].pc = "done"
           /\ thread'[t].pc = "done" /\ thread[t].pc # "done" /\ scn.iters = 0
                => NoMoreData(buf[HostOf[t]]),
         \A h \in Hosts :
           /\ loader'[h].rest = loader[h].rest
           /\ Batched(h)' \subseteq Batched(h)
           /\ loader'[h].pc \in Waits => loader[h].pc \in Waits
           /\ loader'[h].pc # "none" => \E t \in Threads : HostOf[t] = h
           /\ buf[h].eof => loader'[h].pc \in {"put", "sleepy", "asleep", "notify", "top",
                                               "finish", "done"}
           /\ loader'[h].pc \in {"none", "first"} => loader'[h].rest = <<>> /\ loader'[h].tmp = <<>>
  PROVE  BufferInv'
<1>1. /\ BufferTyped /\ RingShape /\ AtEnd /\ OnlyLastMissed
      /\ LinesApart /\ Forgotten /\ SlotsExact /\ DataSeen
  BY DEF BufferInv
<1>2. BufferTyped'
  BY <1>1 DEF BufferTyped
<1>3. RingShape'
  BY <1>1 DEF RingShape, AllDone, Live
<1>4. AtEnd'
  BY <1>1 DEF AtEnd
<1>5. OnlyLastMissed'
  <2> SUFFICES ASSUME NEW t \in Threads, scn.path = "buffer", scn.iters = 0,
                      thread'[t].pc = "done"
               PROVE  LET h == HostOf[t]
                      IN  /\ buf[h].eof /\ loader'[h].rest = <<>>
                          /\ buf[h].count <= IF loader'[h].pc \in Waits THEN 0 ELSE 1
    BY DEF OnlyLastMissed, Waits
  <2> DEFINE h == HostOf[t]
  <2>1. h \in Hosts /\ buf[h].count \in Nat /\ loader'[h].rest = loader[h].rest
    BY <1>1, DataAssumption DEF BufferTyped, BufferStates
  <2>2. CASE thread[t].pc = "done"
    <3>1. /\ buf[h].eof /\ loader[h].rest = <<>>
          /\ buf[h].count <= IF loader[h].pc \in Waits THEN 0 ELSE 1
      BY <1>1, <2>2 DEF OnlyLastMissed, Waits
    <3>2. loader'[h].pc \in Waits => loader[h].pc \in Waits
      BY <2>1
    <3> QED BY <2>1, <3>1, <3>2
  <2>3. CASE thread[t].pc # "done"
    <3>1. buf[h].eof /\ buf[h].count = 0
      BY <2>3 DEF NoMoreData
    <3> QED BY <1>1, <2>1, <3>1 DEF AtEnd
  <2> QED BY <2>2, <2>3
<1>6. LinesApart'
  BY <1>1 DEF LinesApart
<1>7. \A h \in Hosts : GivenTo(h)' \subseteq GivenTo(h)
  BY DEF GivenTo
<1>8. Forgotten'
  <2>1. AtEOF' = AtEOF
    BY DEF AtEOF
  <2> QED BY <1>1, <1>7, <2>1 DEF Forgotten
<1>9. SlotsExact'
  BY <1>1, SlotsSame
<1>10. DataSeen'
  BY <1>1, EmptyRange DEF DataSeen
<1> QED BY <1>2, <1>3, <1>4, <1>5, <1>6, <1>8, <1>9, <1>10 DEF BufferInv

LEMMA ThreadMoves ==
  ASSUME thread \in [Threads -> ThreadStates], NEW t \in Threads, NEW x \in ThreadPCs
  PROVE  LET next == [thread EXCEPT ![t].pc = x]
         IN  /\ next \in [Threads -> ThreadStates]
             /\ \A u \in Threads : /\ next[u].pc = IF u = t THEN x ELSE thread[u].pc
                                   /\ next[u].data = thread[u].data
BY DEF ThreadStates

LEMMA LoaderMoves ==
  ASSUME loader \in [Hosts -> LoaderStates], NEW h \in Hosts, NEW x \in LoaderPCs
  PROVE  LET next == [loader EXCEPT ![h].pc = x]
         IN  /\ next \in [Hosts -> LoaderStates]
             /\ \A g \in Hosts : /\ next[g].pc = IF g = h THEN x ELSE loader[g].pc
                                 /\ next[g].rest = loader[g].rest /\ next[g].tmp = loader[g].tmp
BY DEF LoaderStates

\* What Moved asks of threads, and of loading threads, that stay where they are.
ThreadsKept ==
  /\ thread' \in [Threads -> ThreadStates]
  /\ \A t \in Threads :
       /\ thread'[t].data \in {thread[t].data, <<>>}
       /\ thread[t].pc = "done" => thread'[t].pc = "done"
       /\ thread'[t].pc = "done" /\ thread[t].pc # "done" /\ scn.iters = 0
            => NoMoreData(buf[HostOf[t]])
LoadersKept ==
  /\ loader' \in [Hosts -> LoaderStates]
  /\ \A h \in Hosts :
       /\ loader'[h].rest = loader[h].rest
       /\ Batched(h)' \subseteq Batched(h)
       /\ loader'[h].pc \in Waits => loader[h].pc \in Waits
       /\ loader'[h].pc # "none" => \E t \in Threads : HostOf[t] = h
       /\ buf[h].eof => loader'[h].pc \in {"put", "sleepy", "asleep", "notify", "top",
                                           "finish", "done"}
       /\ loader'[h].pc \in {"none", "first"} => loader'[h].rest = <<>> /\ loader'[h].tmp = <<>>

LEMMA ThreadsStay ==
  ASSUME BufferTyped, UNCHANGED thread
  PROVE  ThreadsKept
BY DEF BufferTyped, ThreadsKept

LEMMA LoadersStay ==
  ASSUME BufferTyped, AtEnd, LinesApart, UNCHANGED loader
  PROVE  LoadersKept
<1>1. \A h \in Hosts : Batched(h)' = Batched(h)
  BY DEF Batched, Holding
<1> QED BY <1>1 DEF BufferTyped, AtEnd, LinesApart, LoadersKept

\* One thread moves on.
LEMMA OneThreadMoves ==
  ASSUME BufferTyped, NEW t \in Threads, NEW x \in ThreadPCs, thread[t].pc # "done",
         thread' = [thread EXCEPT ![t].pc = x],
         x = "done" /\ scn.iters = 0 => NoMoreData(buf[HostOf[t]])
  PROVE  ThreadsKept
<1>1. /\ thread' \in [Threads -> ThreadStates]
      /\ \A u \in Threads : /\ thread'[u].pc = IF u = t THEN x ELSE thread[u].pc
                            /\ thread'[u].data = thread[u].data
  BY ThreadMoves DEF BufferTyped
<1> QED BY <1>1 DEF ThreadsKept

\* One loading thread moves on without its batch, or keeps it.
LEMMA OneLoaderMoves ==
  ASSUME BufferTyped, AtEnd, LinesApart, NEW h \in Hosts, NEW x \in LoaderPCs,
         loader' = [loader EXCEPT ![h].pc = x],
         x \in Waits => loader[h].pc \in Waits, x # "fill",
         x \in {"none", "first"} => loader[h].pc \in {"none", "first"},
         \E t \in Threads : HostOf[t] = h,
         buf[h].eof => x \in {"put", "sleepy", "asleep", "notify", "top", "finish", "done"}
  PROVE  LoadersKept
<1>1. /\ loader' \in [Hosts -> LoaderStates]
      /\ \A g \in Hosts : /\ loader'[g].pc = IF g = h THEN x ELSE loader[g].pc
                          /\ loader'[g].rest = loader[g].rest /\ loader'[g].tmp = loader[g].tmp
  BY LoaderMoves DEF BufferTyped
<1>2. \A g \in Hosts : Batched(g)' \subseteq Batched(g)
  BY <1>1 DEF Batched, Holding, Waits
<1>3. \A g \in Hosts : loader'[g].pc \in {"none", "first"} => loader[g].pc \in {"none", "first"}
  BY <1>1
<1> QED BY <1>1, <1>2, <1>3 DEF LoadersKept, AtEnd, LinesApart

LEMMA MovesKept ==
  ASSUME BufferInv, scn.path = "buffer", UNCHANGED <<scn, asg, buf, seen, loaded>>,
         ThreadsKept, LoadersKept
  PROVE  BufferInv'
BY Moved DEF ThreadsKept, LoadersKept

-----------------------------------------------------------------------------
(* One lemma per step that moves threads and loading threads.              *)

LEMMA InitBufferStep ==
  ASSUME BufferInv, scn.path = "buffer", NEW t \in Threads, InitBuffer(t)
  PROVE  BufferInv'
<1> DEFINE h == HostOf[t]
           x == IF loader[h].pc # "none" THEN loader[h].pc
                ELSE IF scn.fmt = "binary" THEN "first" ELSE "top"
<1>1. BufferTyped /\ AtEnd /\ LinesApart
  BY DEF BufferInv
<1>2. /\ h \in Hosts /\ thread[t].pc = "init" /\ thread' = [thread EXCEPT ![t].pc = "check"]
      /\ loader' = [loader EXCEPT ![h].pc = x] /\ UNCHANGED <<scn, asg, buf, seen, loaded>>
  BY DataAssumption DEF InitBuffer
<1>3. ThreadsKept
  BY <1>1, <1>2, OneThreadMoves DEF ThreadPCs
<1>4. CASE loader[h].pc = "none"
  <2>1. x \in {"first", "top"} /\ ~buf[h].eof
    BY <1>1, <1>2, <1>4 DEF AtEnd
  <2> HIDE DEF x
  <2>2. LoadersKept
    BY <1>1, <1>2, <1>4, <2>1, OneLoaderMoves DEF LoaderPCs, Waits
  <2> QED BY <1>2, <1>3, <2>2, MovesKept
<1>5. CASE loader[h].pc # "none"
  <2>1. loader' = loader
    BY <1>1, <1>2, <1>5 DEF BufferTyped, LoaderStates
  <2>2. LoadersKept
    BY <1>1, <2>1, LoadersStay
  <2> QED BY <1>2, <1>3, <2>2, MovesKept
<1> QED BY <1>4, <1>5

LEMMA NewBatchStep ==
  ASSUME BufferInv, scn.path = "buffer", NEW h \in Hosts, NewBatch(h)
  PROVE  BufferInv'
<1> DEFINE x == IF buf[h].eof THEN "finish" ELSE IF buf[h].num = 0 THEN "done" ELSE "fill"
<1>1. BufferTyped /\ AtEnd /\ LinesApart
  BY DEF BufferInv
<1>2. /\ loader[h].pc = "top" /\ UNCHANGED <<scn, asg, buf, seen, loaded, thread>>
      /\ loader' = [loader EXCEPT ![h].pc = x, ![h].tmp = <<>>, ![h].i = 0]
  BY DEF NewBatch
<1>3. x \in {"finish", "done", "fill"} /\ (buf[h].eof => x = "finish")
  OBVIOUS
<1> HIDE DEF x
<1>4. /\ loader' \in [Hosts -> LoaderStates]
      /\ \A g \in Hosts :
           /\ loader'[g].rest = loader[g].rest
           /\ g # h => loader'[g].pc = loader[g].pc /\ loader'[g].tmp = loader[g].tmp
      /\ loader'[h].pc = x /\ loader'[h].tmp = <<>>
  <2>1. PICK m \in Seq(AllLines) : m = <<>>
    BY EmptySeq
  <2>2. loader' = [loader EXCEPT ![h].pc = x, ![h].tmp = m, ![h].i = 0]
    BY <1>2, <2>1
  <2>3. x \in LoaderPCs
    BY <1>3 DEF LoaderPCs
  <2> QED BY <1>1, <2>1, <2>2, <2>3 DEF BufferTyped, LoaderStates
<1>5. \A g \in Hosts : Batched(g)' \subseteq Batched(g)
  BY <1>4, EmptyRange DEF Batched, Holding
<1>6. \E t \in Threads : HostOf[t] = h
  BY <1>1, <1>2 DEF AtEnd
<1>7. LoadersKept
  BY <1>1, <1>3, <1>4, <1>5, <1>6 DEF LoadersKept, AtEnd, LinesApart, Waits
<1> QED BY <1>1, <1>2, <1>7, ThreadsStay, MovesKept

LEMMA FindFullStep ==
  ASSUME BufferInv, scn.path = "buffer", NEW h \in Hosts, FindFull(h)
  PROVE  BufferInv'
<1> DEFINE x == IF buf[h].num = 0 THEN "done" ELSE "sleepy"
<1>1. BufferTyped /\ AtEnd /\ LinesApart
  BY DEF BufferInv
<1>2. /\ loader[h].pc = "put" /\ UNCHANGED <<scn, asg, buf, seen, loaded, thread>>
      /\ loader' = [loader EXCEPT ![h].pc = x]
  BY DEF FindFull
<1>3. x \in {"done", "sleepy"} /\ \E t \in Threads : HostOf[t] = h
  BY <1>1, <1>2 DEF AtEnd
<1> HIDE DEF x
<1>4. LoadersKept
  BY <1>1, <1>2, <1>3, OneLoaderMoves DEF LoaderPCs, Waits
<1> QED BY <1>1, <1>2, <1>4, ThreadsStay, MovesKept

LEMMA SleepStep ==
  ASSUME BufferInv, scn.path = "buffer", NEW h \in Hosts, Sleep(h)
  PROVE  BufferInv'
<1>1. BufferTyped /\ AtEnd /\ LinesApart
  BY DEF BufferInv
<1>2. /\ loader[h].pc = "sleepy" /\ UNCHANGED <<scn, asg, buf, seen, loaded, thread>>
      /\ loader' = [loader EXCEPT ![h].pc = "asleep"]
  BY DEF Sleep
<1>3. \E t \in Threads : HostOf[t] = h
  BY <1>1, <1>2 DEF AtEnd
<1>4. LoadersKept
  BY <1>1, <1>2, <1>3, OneLoaderMoves DEF LoaderPCs, Waits
<1> QED BY <1>1, <1>2, <1>4, ThreadsStay, MovesKept

\* Waiting threads are woken.
LEMMA WokenKept ==
  ASSUME BufferTyped, NEW h \in Hosts, NEW ts \in SUBSET Waiting(h), thread' = Wake(ts)
  PROVE  ThreadsKept
<1>1. \A t \in Threads : /\ thread[t] \in ThreadStates
                         /\ t \in ts => thread[t].pc = "waiting"
  BY DEF BufferTyped, Waiting
<1>2. \A t \in Threads : thread'[t] = IF t \in ts THEN [thread[t] EXCEPT !.pc = "get"]
                                      ELSE thread[t]
  BY DEF Wake
<1>3. \A t \in Threads : /\ thread'[t] \in ThreadStates
                         /\ thread'[t].data = thread[t].data
                         /\ thread'[t].pc \in {thread[t].pc, "get"}
                         /\ thread[t].pc = "done" => thread'[t] = thread[t]
  BY <1>1, <1>2 DEF ThreadStates, ThreadPCs
<1>4. thread' \in [Threads -> ThreadStates]
  BY <1>3 DEF Wake
<1> QED BY <1>3, <1>4 DEF ThreadsKept

LEMMA NotifyGetStep ==
  ASSUME BufferInv, scn.path = "buffer", NEW h \in Hosts, NotifyGet(h)
  PROVE  BufferInv'
<1>1. BufferTyped /\ AtEnd /\ LinesApart
  BY DEF BufferInv
<1>2. /\ loader[h].pc = "notify" /\ UNCHANGED <<scn, asg, buf, seen, loaded>>
      /\ loader' = [loader EXCEPT ![h].pc = "top"]
      /\ \E ts \in SUBSET Waiting(h) : thread' = Wake(ts)
  BY DEF NotifyGet, NotifyOne
<1>3. \E t \in Threads : HostOf[t] = h
  BY <1>1, <1>2 DEF AtEnd
<1>4. LoadersKept
  BY <1>1, <1>2, <1>3, OneLoaderMoves DEF LoaderPCs, Waits
<1>5. ThreadsKept
  BY <1>1, <1>2, WokenKept
<1> QED BY <1>2, <1>4, <1>5, MovesKept

LEMMA LoadingFinishedStep ==
  ASSUME BufferInv, scn.path = "buffer", NEW h \in Hosts, LoadingFinished(h)
  PROVE  BufferInv'
<1>1. BufferTyped /\ AtEnd /\ LinesApart
  BY DEF BufferInv
<1>2. /\ loader[h].pc = "finish" /\ UNCHANGED <<scn, asg, buf, seen, loaded>>
      /\ loader' = [loader EXCEPT ![h].pc = "done"]
      /\ \E ts \in SUBSET Waiting(h) : thread' = Wake(ts)
  BY DEF LoadingFinished
<1>3. \E t \in Threads : HostOf[t] = h
  BY <1>1, <1>2 DEF AtEnd
<1>4. LoadersKept
  BY <1>1, <1>2, <1>3, OneLoaderMoves DEF LoaderPCs, Waits
<1>5. ThreadsKept
  BY <1>1, <1>2, WokenKept
<1> QED BY <1>2, <1>4, <1>5, MovesKept

LEMMA CheckEmptyStep ==
  ASSUME BufferInv, scn.path = "buffer", NEW t \in Threads, CheckEmpty(t)
  PROVE  BufferInv'
<1> DEFINE x == IF LastIteration(t) \/ NoMoreData(buf[HostOf[t]]) THEN "done" ELSE "get"
<1>1. BufferTyped /\ AtEnd /\ LinesApart
  BY DEF BufferInv
<1>2. /\ thread[t].pc = "check" /\ UNCHANGED <<scn, asg, buf, seen, loaded, loader>>
      /\ thread' = [thread EXCEPT ![t].pc = x]
  BY DEF CheckEmpty
<1>3. x \in {"done", "get"} /\ (x = "done" /\ scn.iters = 0 => NoMoreData(buf[HostOf[t]]))
  BY DEF LastIteration
<1> HIDE DEF x
<1>4. ThreadsKept
  BY <1>1, <1>2, <1>3, OneThreadMoves DEF ThreadPCs
<1> QED BY <1>1, <1>2, <1>4, LoadersStay, MovesKept

LEMMA GetNothingStep ==
  ASSUME BufferInv, scn.path = "buffer", NEW t \in Threads, GetNothing(t)
  PROVE  BufferInv'
<1>1. BufferTyped /\ AtEnd /\ LinesApart
  BY DEF BufferInv
<1>2. /\ thread[t].pc = "get" /\ UNCHANGED <<scn, asg, buf, seen, loaded, loader>>
      /\ thread' = [thread EXCEPT ![t].pc = "check", ![t].data = <<>>]
  BY DEF GetNothing
<1>3. ThreadsKept
  <2>1. /\ thread' \in [Threads -> ThreadStates]
        /\ \A u \in Threads : /\ thread'[u].pc = IF u = t THEN "check" ELSE thread[u].pc
                              /\ thread'[u].data \in {thread[u].data, <<>>}
    <3>1. PICK d \in Seq(AllLines) : d = <<>>
      BY EmptySeq
    <3>2. thread' = [thread EXCEPT ![t].pc = "check", ![t].data = d]
      BY <1>2, <3>1
    <3> QED BY <1>1, <3>1, <3>2 DEF BufferTyped, ThreadStates, ThreadPCs
  <2> QED BY <1>2, <2>1 DEF ThreadsKept
<1> QED BY <1>1, <1>2, <1>3, LoadersStay, MovesKept

LEMMA WaitForDataStep ==
  ASSUME BufferInv, scn.path = "buffer", NEW t \in Threads, WaitForData(t)
  PROVE  BufferInv'
<1>1. BufferTyped /\ AtEnd /\ LinesApart
  BY DEF BufferInv
<1>2. /\ thread[t].pc = "get" /\ UNCHANGED <<scn, asg, buf, seen, loaded, loader>>
      /\ thread' = [thread EXCEPT ![t].pc = "waiting"]
  BY DEF WaitForData
<1>3. ThreadsKept
  BY <1>1, <1>2, OneThreadMoves DEF ThreadPCs
<1> QED BY <1>1, <1>2, <1>3, LoadersStay, MovesKept

\* A sleeping loading thread is woken.
LEMMA LoaderWoken ==
  ASSUME BufferTyped, AtEnd, LinesApart, NEW h \in Hosts,
         loader' = [loader EXCEPT ![h].pc = IF @ = "asleep" THEN "put" ELSE @]
  PROVE  LoadersKept
<1>1. CASE loader[h].pc = "asleep"
  <2>1. loader' = [loader EXCEPT ![h].pc = "put"] /\ \E t \in Threads : HostOf[t] = h
    BY <1>1 DEF AtEnd
  <2> QED BY <1>1, <2>1, OneLoaderMoves DEF LoaderPCs, Waits
<1>2. CASE loader[h].pc # "asleep"
  <2>1. loader' = loader
    BY <1>2 DEF BufferTyped, LoaderStates
  <2> QED BY <2>1, LoadersStay
<1> QED BY <1>1, <1>2

LEMMA TellLoaderStep ==
  ASSUME BufferInv, scn.path = "buffer", NEW t \in Threads, TellLoader(t)
  PROVE  BufferInv'
<1>1. BufferTyped /\ AtEnd /\ LinesApart
  BY DEF BufferInv
<1>2. /\ thread[t].pc = "tell" /\ UNCHANGED <<scn, asg, buf, seen, loaded>>
      /\ thread' = [thread EXCEPT ![t].pc = "check"] /\ HostOf[t] \in Hosts
      /\ loader' = [loader EXCEPT ![HostOf[t]].pc = IF @ = "asleep" THEN "put" ELSE @]
  BY DataAssumption DEF TellLoader
<1>3. ThreadsKept
  BY <1>1, <1>2, OneThreadMoves DEF ThreadPCs
<1>4. LoadersKept
  BY <1>1, <1>2, LoaderWoken
<1> QED BY <1>2, <1>3, <1>4, MovesKept

-----------------------------------------------------------------------------
(* Steps of a loading thread that gathers lines for its batch.             *)

LEMMA Gathered ==
  ASSUME BufferInv, scn.path = "buffer", UNCHANGED <<scn, thread, seen, loaded>>,
         NEW h \in Hosts, ~buf[h].eof, loader[h].pc \in {"fill", "first"},
         asg' \in Assigners, loader' \in [Hosts -> LoaderStates],
         buf' \in [Hosts -> BufferStates],
         \A g \in Hosts :
           /\ buf'[g].slots = buf[g].slots /\ buf'[g].start = buf[g].start
           /\ buf'[g].end = buf[g].end /\ buf'[g].count = buf[g].count
           /\ buf'[g].num = buf[g].num
           /\ g # h => loader'[g] = loader[g] /\ buf'[g].eof = buf[g].eof,
         loader'[h].pc \in {"fill", "put"},
         buf'[h].eof => loader'[h].rest = <<>> /\ loader'[h].pc = "put",
         IsInjective(loader'[h].rest),
         ToSet(loader'[h].rest) \cap Batched(h)' = {},
         ToSet(loader'[h].rest) \cap loaded[h] = {},
         Batched(h)' \cap loaded[h] = {},
         Forgotten'
  PROVE  BufferInv'
<1>1. /\ BufferTyped /\ RingShape /\ AtEnd /\ OnlyLastMissed
      /\ LinesApart /\ SlotsExact /\ DataSeen
  BY DEF BufferInv
<1>2. BufferTyped'
  BY <1>1 DEF BufferTyped
<1>3. RingShape'
  <2>1. \A g \in Hosts : Live(g)' = Live(g)
    BY DEF Live
  <2> QED BY <1>1, <2>1 DEF RingShape, AllDone
<1>4. AtEnd'
  BY <1>1 DEF AtEnd
<1>5. OnlyLastMissed'
  <2> SUFFICES ASSUME NEW t \in Threads, scn.path = "buffer", scn.iters = 0,
                      thread[t].pc = "done"
               PROVE  LET g == HostOf[t]
                      IN  /\ buf'[g].eof /\ loader'[g].rest = <<>>
                          /\ buf'[g].count <= IF loader'[g].pc \in Waits THEN 0 ELSE 1
    BY DEF OnlyLastMissed, Waits
  <2> DEFINE g == HostOf[t]
  <2>1. g \in Hosts
    BY DataAssumption
  <2>2. /\ buf[g].eof /\ loader[g].rest = <<>>
        /\ buf[g].count <= IF loader[g].pc \in Waits THEN 0 ELSE 1
    BY <1>1 DEF OnlyLastMissed, Waits
  <2> HIDE DEF g
  <2>3. g # h
    BY <2>2
  <2>4. loader'[g] = loader[g] /\ buf'[g].eof = buf[g].eof /\ buf'[g].count = buf[g].count
    BY <2>1, <2>3
  <2> QED BY <2>2, <2>4 DEF g
<1>6. LinesApart'
  <2> SUFFICES ASSUME NEW g \in Hosts
               PROVE  /\ IsInjective(loader'[g].rest)
                      /\ ToSet(loader'[g].rest) \cap Batched(g)' = {}
                      /\ ToSet(loader'[g].rest) \cap loaded[g] = {}
                      /\ Batched(g)' \cap loaded[g] = {}
                      /\ loader'[g].pc \in {"none", "first"}
                           => loader'[g].rest = <<>> /\ loader'[g].tmp = <<>>
    BY DEF LinesApart
  <2>1. CASE g = h
    BY <2>1
  <2>2. CASE g # h
    <3>1. loader'[g] = loader[g]
      BY <2>2
    <3>2. Batched(g)' = Batched(g)
      BY <3>1 DEF Batched, Holding
    <3> QED BY <1>1, <3>1, <3>2 DEF LinesApart
  <2> QED BY <2>1, <2>2
<1>7. SlotsExact'
  BY <1>1, SlotsSame
<1>8. DataSeen'
  BY <1>1 DEF DataSeen
<1> QED BY <1>2, <1>3, <1>4, <1>5, <1>6, <1>7, <1>8 DEF BufferInv

LEMMA LoadRecordStep ==
  ASSUME BufferInv, scn.path = "buffer", NEW h \in Hosts, LoadRecord(h)
  PROVE  BufferInv'
<1> DEFINE line == Head(loader[h].rest)
           y == IF loader[h].i + 1 = BatchSize THEN "put" ELSE "fill"
<1>1. BufferTyped /\ AtEnd /\ LinesApart /\ Forgotten
  BY DEF BufferInv
<1>2. /\ loader[h].pc = "fill" /\ loader[h].rest # <<>>
      /\ UNCHANGED <<scn, asg, buf, seen, loaded, thread>>
      /\ loader' = [loader EXCEPT ![h].rest = Tail(@), ![h].tmp = @ \o Kept(line),
                                  ![h].i = loader[h].i + 1, ![h].pc = y]
  BY DEF LoadRecord
<1>3. /\ loader[h].rest \in Seq(AllLines) /\ loader[h].tmp \in Seq(AllLines)
      /\ loader[h].i \in Nat /\ IsInjective(loader[h].rest)
  BY <1>1 DEF BufferTyped, LoaderStates, LinesApart
<1>4. /\ line \in AllLines /\ Tail(loader[h].rest) \in Seq(AllLines)
      /\ line \in ToSet(loader[h].rest)
      /\ ToSet(Tail(loader[h].rest)) = ToSet(loader[h].rest) \ {line}
      /\ IsInjective(Tail(loader[h].rest))
  BY <1>2, <1>3, TailRange
<1> HIDE DEF line
<1>5. Kept(line) \in Seq(AllLines) /\ ToSet(Kept(line)) \subseteq {line}
  <2>1. CASE Kept(line) = <<>>
    BY <2>1, EmptyRange, EmptySeq
  <2>2. CASE Kept(line) = <<line>>
    <3>1. <<line>> \in Seq({line}) /\ <<line>> \in Seq(AllLines)
      BY <1>4
    <3> QED BY <2>2, <3>1, SeqRange
  <2> QED BY <2>1, <2>2 DEF Kept
<1>6. PICK r \in Seq(AllLines) : r = Tail(loader[h].rest)
  BY <1>4
<1>7. PICK m \in Seq(AllLines) :
        /\ m = loader[h].tmp \o Kept(line)
        /\ ToSet(m) \subseteq ToSet(loader[h].tmp) \cup {line}
  <2>1. /\ loader[h].tmp \o Kept(line) \in Seq(AllLines)
        /\ ToSet(loader[h].tmp \o Kept(line)) = ToSet(loader[h].tmp) \cup ToSet(Kept(line))
    BY <1>3, <1>5, ConcatRange
  <2> QED BY <1>5, <2>1
<1>8. PICK n \in Nat : n = loader[h].i + 1
  BY <1>3
<1>9. y \in {"fill", "put"}
  OBVIOUS
<1> HIDE DEF y
<1>10. loader' = [loader EXCEPT ![h].rest = r, ![h].tmp = m, ![h].i = n, ![h].pc = y]
  BY <1>2, <1>6, <1>7, <1>8
<1>11. /\ loader' \in [Hosts -> LoaderStates]
       /\ \A g \in Hosts : g # h => loader'[g] = loader[g]
       /\ loader'[h].rest = r /\ loader'[h].tmp = m /\ loader'[h].pc = y
  <2>1. y \in LoaderPCs
    BY <1>9 DEF LoaderPCs
  <2> QED BY <1>1, <1>10, <2>1 DEF BufferTyped, LoaderStates
<1>12. Batched(h)' = ToSet(m) /\ Batched(h) = ToSet(loader[h].tmp)
  BY <1>2, <1>9, <1>11 DEF Batched, Holding
<1>13. /\ ToSet(loader[h].rest) \cap ToSet(loader[h].tmp) = {}
       /\ ToSet(loader[h].rest) \cap loaded[h] = {}
       /\ ToSet(loader[h].tmp) \cap loaded[h] = {}
  BY <1>1, <1>12 DEF LinesApart
<1>14. /\ ToSet(loader'[h].rest) \cap Batched(h)' = {}
       /\ ToSet(loader'[h].rest) \cap loaded[h] = {}
       /\ Batched(h)' \cap loaded[h] = {}
       /\ IsInjective(loader'[h].rest)
  BY <1>4, <1>6, <1>7, <1>11, <1>12, <1>13
<1>15. ~buf[h].eof
  BY <1>1, <1>2 DEF AtEnd
<1>16. Forgotten'
  <2>1. GivenTo(h)' \subseteq GivenTo(h)
    BY <1>2, <1>4, <1>6, <1>7, <1>11, <1>12 DEF GivenTo
  <2>2. ASSUME NEW g \in Hosts, g # h PROVE GivenTo(g)' = GivenTo(g)
    BY <1>2, <1>11, <2>2 DEF GivenTo, Batched, Holding
  <2>3. \A g \in Hosts : GivenTo(g)' \subseteq GivenTo(g)
    BY <2>1, <2>2
  <2>4. AtEOF' = AtEOF
    BY <1>2 DEF AtEOF
  <2> QED BY <1>1, <1>2, <2>3, <2>4 DEF Forgotten
<1>17. asg' \in Assigners /\ buf' \in [Hosts -> BufferStates]
  BY <1>1, <1>2 DEF BufferTyped
<1> QED BY <1>2, <1>9, <1>11, <1>14, <1>15, <1>16, <1>17, Gathered

\* The piece in the loading thread, and the end of the input in the buffer.
TakesPiece(h, r, x) ==
  /\ loader' \in [Hosts -> LoaderStates]
  /\ \A g \in Hosts : g # h => loader'[g] = loader[g]
  /\ loader'[h].rest = r /\ loader'[h].tmp = loader[h].tmp /\ loader'[h].pc = x
SetsEOF(h, q) ==
  /\ buf' \in [Hosts -> BufferStates]
  /\ \A g \in Hosts :
       /\ buf'[g].slots = buf[g].slots /\ buf'[g].start = buf[g].start
       /\ buf'[g].end = buf[g].end /\ buf'[g].count = buf[g].count
       /\ buf'[g].num = buf[g].num
       /\ g # h => buf'[g].eof = buf[g].eof
  /\ buf'[h].eof = q

LEMMA PieceTaken ==
  ASSUME loader \in [Hosts -> LoaderStates], NEW h \in Hosts,
         NEW r \in Seq(AllLines), NEW x \in LoaderPCs,
         loader' = [loader EXCEPT ![h].rest = r, ![h].pc = x]
  PROVE  TakesPiece(h, r, x)
BY DEF LoaderStates, TakesPiece

LEMMA EOFSet ==
  ASSUME buf \in [Hosts -> BufferStates], NEW h \in Hosts, NEW q \in BOOLEAN,
         buf' = [buf EXCEPT ![h].eof = q]
  PROVE  SetsEOF(h, q)
BY DEF BufferStates, SetsEOF

\* The answer to a loading thread that asks, and its lines.
LEMMA PieceAnswered ==
  ASSUME BufferInv, scn.path = "buffer", NEW h \in Hosts,
         loader[h].pc \in {"fill", "first"}, NEW ans \in Answers(h)
  PROVE  /\ ans.asg \in Assigners
         /\ \A g, other \in Hosts : \A l \in GivenTo(g) : l[1] \notin ans.asg.left[other]
         /\ PieceLines(ans) \in Seq(AllLines) /\ IsInjective(PieceLines(ans))
         /\ \/ GetsNothing(h, ans) /\ PieceLines(ans) = <<>>
            \/ \E b \in Blocks : GetsBlock(ans, b) /\ \A l \in ToSet(PieceLines(ans)) : l[1] = b
<1>1. BufferTyped /\ AtEnd /\ LinesApart /\ Forgotten
  BY DEF BufferInv
<1>2. ~buf[h].eof /\ loader[h].pc # "none"
  BY <1>1 DEF AtEnd
<1>3. /\ ans.asg \in Assigners
      /\ \A g, other \in Hosts : \A l \in GivenTo(g) : l[1] \notin ans.asg.left[other]
      /\ GetsNothing(h, ans) \/ \E b \in Blocks : GetsBlock(ans, b)
  BY <1>1, <1>2, Asked DEF BufferTyped
<1>4. CASE GetsNothing(h, ans)
  <2>1. PieceLines(ans) = <<>>
    BY <1>4, NoPiece DEF GetsNothing
  <2>2. <<>> \in Seq(AllLines) /\ IsInjective(<<>>)
    BY EmptySeq DEF IsInjective
  <2> QED BY <1>3, <1>4, <2>1, <2>2
<1>5. ASSUME NEW b \in Blocks, GetsBlock(ans, b)
      PROVE  /\ PieceLines(ans) \in Seq(AllLines) /\ IsInjective(PieceLines(ans))
             /\ \A l \in ToSet(PieceLines(ans)) : l[1] = b
  BY <1>5, PieceOfBlock DEF GetsBlock
<1> QED BY <1>3, <1>4, <1>5

\* A loading thread is given a piece, or turned down at the end of its input.
LEMMA PieceGathered ==
  ASSUME BufferInv, scn.path = "buffer", NEW h \in Hosts,
         loader[h].pc \in {"fill", "first"}, loader[h].rest = <<>>,
         UNCHANGED <<scn, thread, seen, loaded>>,
         NEW ans \in Answers(h), NEW x \in {"fill", "put"}, NEW q \in BOOLEAN,
         NEW r \in Seq(AllLines), r = PieceLines(ans),
         q <=> ans.piece = {}, q => x = "put",
         asg' = ans.asg, SetsEOF(h, q), TakesPiece(h, r, x)
  PROVE  BufferInv'
<1>1. BufferTyped /\ AtEnd /\ LinesApart /\ Forgotten
  BY DEF BufferInv
<1>2. ~buf[h].eof
  BY <1>1 DEF AtEnd
<1>3. /\ ans.asg \in Assigners
      /\ \A g, other \in Hosts : \A l \in GivenTo(g) : l[1] \notin ans.asg.left[other]
      /\ IsInjective(r)
      /\ \/ GetsNothing(h, ans) /\ r = <<>>
         \/ \E b \in Blocks : GetsBlock(ans, b) /\ \A l \in ToSet(r) : l[1] = b
  BY PieceAnswered
<1>4. /\ loader' \in [Hosts -> LoaderStates]
      /\ \A g \in Hosts : g # h => loader'[g] = loader[g]
      /\ loader'[h].rest = r /\ loader'[h].tmp = loader[h].tmp /\ loader'[h].pc = x
  BY DEF TakesPiece
<1>5. /\ buf' \in [Hosts -> BufferStates]
      /\ \A g \in Hosts :
           /\ buf'[g].slots = buf[g].slots /\ buf'[g].start = buf[g].start
           /\ buf'[g].end = buf[g].end /\ buf'[g].count = buf[g].count
           /\ buf'[g].num = buf[g].num
           /\ g # h => buf'[g].eof = buf[g].eof
      /\ buf'[h].eof = q
  BY DEF SetsEOF
<1>6. Batched(h)' = Batched(h) /\ (\A g \in Hosts : g # h => Batched(g)' = Batched(g))
  <2>1. Batched(h)' = ToSet(loader[h].tmp)
    BY <1>4 DEF Batched, Holding
  <2>2. loader[h].pc = "first" => loader[h].tmp = <<>>
    BY <1>1 DEF LinesApart
  <2>3. Batched(h) = ToSet(loader[h].tmp)
    BY <2>2, EmptyRange DEF Batched, Holding
  <2> QED BY <1>4, <2>1, <2>3 DEF Batched, Holding
<1>7. ToSet(r) \cap GivenTo(h) = {}
  BY <1>3, EmptyRange DEF GetsBlock
<1>8. /\ ToSet(loader'[h].rest) \cap Batched(h)' = {}
       /\ ToSet(loader'[h].rest) \cap loaded[h] = {}
       /\ Batched(h)' \cap loaded[h] = {}
       /\ IsInjective(loader'[h].rest)
  BY <1>1, <1>3, <1>4, <1>6, <1>7 DEF GivenTo, LinesApart
<1>9. /\ GivenTo(h)' \subseteq GivenTo(h) \cup ToSet(r)
       /\ \A g \in Hosts : g # h => GivenTo(g)' = GivenTo(g)
  BY <1>4, <1>6 DEF GivenTo
<1>10. Forgotten'
  <2>1. CASE GetsNothing(h, ans)
    <3>1. ans.piece = {} /\ r = <<>> /\ q
      BY <2>1, NoPiece DEF GetsNothing
    <3>2. \A g \in Hosts : GivenTo(g)' \subseteq GivenTo(g)
      BY <1>9, <3>1, EmptyRange
    <3>3. AtEOF' = AtEOF \cup {h}
      BY <1>5, <3>1 DEF AtEOF
    <3>4. \A g, other \in Hosts : \A l \in GivenTo(g)' : l[1] \notin asg'.left[other]
      BY <1>3, <3>2
    <3>5. ~asg'.known => \A t \in Threads : buf'[HostOf[t]].eof
      BY <1>5, <2>1, <3>1, DataAssumption DEF GetsNothing
    <3>6. scn.fmt # "binary" /\ ~scn.local => asg'.rejected = Cardinality(AtEOF')
      BY <2>1, <3>3 DEF GetsNothing, GlobalBlocks
    <3> QED BY <3>4, <3>5, <3>6 DEF Forgotten
  <2>2. CASE ~GetsNothing(h, ans)
    <3>1. PICK b \in Blocks : GetsBlock(ans, b) /\ \A l \in ToSet(r) : l[1] = b
      BY <1>3, <2>2
    <3>2. ~q
      BY <3>1 DEF GetsBlock
    <3>3. AtEOF' = AtEOF
      BY <1>2, <1>5, <3>2 DEF AtEOF
    <3>4. \A g, other \in Hosts : \A l \in GivenTo(g)' : l[1] \notin asg'.left[other]
      BY <1>3, <1>9, <3>1 DEF GetsBlock
    <3>5. asg'.known
      BY <3>1 DEF GetsBlock
    <3>6. scn.fmt # "binary" /\ ~scn.local => asg'.rejected = Cardinality(AtEOF')
      BY <3>1, <3>3 DEF GetsBlock, GlobalBlocks
    <3> QED BY <3>4, <3>5, <3>6 DEF Forgotten
  <2> QED BY <2>1, <2>2
<1>11. buf'[h].eof => loader'[h].rest = <<>> /\ loader'[h].pc = "put"
  BY <1>4, <1>5, NoPiece
<1> QED BY <1>2, <1>3, <1>4, <1>5, <1>8, <1>10, <1>11, Gathered

LEMMA LoadPieceStep ==
  ASSUME BufferInv, scn.path = "buffer", NEW h \in Hosts, LoadPiece(h)
  PROVE  BufferInv'
<1>1. PICK ans \in Answers(h) :
        /\ asg' = ans.asg
        /\ loader' = [loader EXCEPT ![h].rest = PieceLines(ans),
                                    ![h].pc = IF ans.piece = {} THEN "put" ELSE "fill"]
        /\ buf' = [buf EXCEPT ![h].eof = @ \/ ans.piece = {}]
  BY DEF LoadPiece
<1>2. /\ loader[h].pc = "fill" /\ loader[h].rest = <<>>
      /\ UNCHANGED <<scn, thread, seen, loaded>>
  BY DEF LoadPiece
<1>3. ~buf[h].eof /\ loader \in [Hosts -> LoaderStates] /\ buf \in [Hosts -> BufferStates]
  BY <1>2 DEF BufferInv, AtEnd, BufferTyped
<1>4. PICK q \in BOOLEAN : q = (ans.piece = {})
  OBVIOUS
<1>5. SetsEOF(h, q)
  <2>1. buf' = [buf EXCEPT ![h].eof = q]
    BY <1>1, <1>3, <1>4
  <2> QED BY <1>3, <2>1, EOFSet
<1>6. PICK x \in {"fill", "put"} : x = IF ans.piece = {} THEN "put" ELSE "fill"
  OBVIOUS
<1>7. PICK r \in Seq(AllLines) : r = PieceLines(ans)
  BY <1>2, PieceAnswered
<1>8. TakesPiece(h, r, x)
  <2>1. loader' = [loader EXCEPT ![h].rest = r, ![h].pc = x] /\ x \in LoaderPCs
    BY <1>1, <1>6, <1>7 DEF LoaderPCs
  <2> QED BY <1>3, <2>1, PieceTaken
<1> QED BY <1>1, <1>2, <1>4, <1>5, <1>6, <1>7, <1>8, PieceGathered

LEMMA LoadFirstStep ==
  ASSUME BufferInv, scn.path = "buffer", NEW h \in Hosts, LoadFirst(h)
  PROVE  BufferInv'
<1>1. PICK ans \in Answers(h) :
        /\ asg' = ans.asg
        /\ loader' = [loader EXCEPT ![h].rest = PieceLines(ans), ![h].pc = "put"]
        /\ buf' = [buf EXCEPT ![h].eof = ans.piece = {}]
  BY DEF LoadFirst
<1>2. loader[h].pc = "first" /\ UNCHANGED <<scn, thread, seen, loaded>>
  BY DEF LoadFirst
<1>3. /\ loader[h].rest = <<>>
      /\ loader \in [Hosts -> LoaderStates] /\ buf \in [Hosts -> BufferStates]
  BY <1>2 DEF BufferInv, LinesApart, BufferTyped
<1>4. PICK q \in BOOLEAN : q = (ans.piece = {})
  OBVIOUS
<1>5. SetsEOF(h, q)
  <2>1. buf' = [buf EXCEPT ![h].eof = q]
    BY <1>1, <1>4
  <2> QED BY <1>3, <2>1, EOFSet
<1>6. PICK r \in Seq(AllLines) : r = PieceLines(ans)
  BY <1>2, PieceAnswered
<1>7. TakesPiece(h, r, "put")
  <2>1. loader' = [loader EXCEPT ![h].rest = r, ![h].pc = "put"] /\ "put" \in LoaderPCs
    BY <1>1, <1>6 DEF LoaderPCs
  <2> QED BY <1>3, <2>1, PieceTaken
<1> QED BY <1>1, <1>2, <1>3, <1>4, <1>5, <1>6, <1>7, PieceGathered

-----------------------------------------------------------------------------
(* One buffer: a batch put at the end of its ring, or taken at the start.  *)

IsPut(b, m, p) ==
  /\ p \in BufferStates
  /\ p.count = b.count + 1 /\ p.end = Wrap(b.end + 1, b.num)
  /\ p.start = b.start /\ p.num = b.num /\ p.eof = b.eof
  /\ \A k \in 0..(BatchNum - 1) : p.slots[k] = IF k = b.end THEN m ELSE b.slots[k]
IsTaken(b, p) ==
  /\ p \in BufferStates
  /\ p.count = b.count - 1 /\ p.start = Wrap(b.start + 1, b.num)
  /\ p.end = b.end /\ p.num = b.num /\ p.eof = b.eof
  /\ \A k \in 0..(BatchNum - 1) : p.slots[k] = IF k = b.start THEN <<>> ELSE b.slots[k]

\* Every field but the slots.
LEMMA BufferFields ==
  ASSUME NEW b \in BufferStates
  PROVE  /\ b.slots \in [0..(BatchNum - 1) -> Seq(AllLines)]
         /\ b.start \in Nat /\ b.end \in Nat /\ b.count \in Nat
         /\ b.num \in {0, BatchNum} /\ b.num \in Nat /\ b.eof \in BOOLEAN
<1>1. /\ b.slots \in [0..(BatchNum - 1) -> Seq(AllLines)]
      /\ b.start \in Nat /\ b.end \in Nat /\ b.count \in Nat
      /\ b.num \in {0, BatchNum} /\ b.eof \in BOOLEAN
  BY DEF BufferStates
<1> QED BY <1>1, DataAssumption

LEMMA SlotSet ==
  ASSUME NEW b \in BufferStates, NEW m \in Seq(AllLines), NEW e \in Nat
  PROVE  /\ [b.slots EXCEPT ![e] = m] \in [0..(BatchNum - 1) -> Seq(AllLines)]
         /\ \A k \in 0..(BatchNum - 1) :
              [b.slots EXCEPT ![e] = m][k] = IF k = e THEN m ELSE b.slots[k]
<1>1. PICK f \in [0..(BatchNum - 1) -> Seq(AllLines)] : f = b.slots
  BY BufferFields
<1>2. /\ [f EXCEPT ![e] = m] \in [0..(BatchNum - 1) -> Seq(AllLines)]
      /\ \A k \in 0..(BatchNum - 1) : [f EXCEPT ![e] = m][k] = IF k = e THEN m ELSE f[k]
  OBVIOUS
<1> QED BY <1>1, <1>2

LEMMA WrapInNat ==
  ASSUME NEW i \in Nat, NEW n \in Nat
  PROVE  Wrap(i, n) \in Nat
BY DEF Wrap

LEMMA BatchPut ==
  ASSUME NEW b \in BufferStates, NEW m \in Seq(AllLines)
  PROVE  IsPut(b, m, PutBatch(b, m))
<1>1. PICK c \in Nat : c = b.count + 1
  BY BufferFields
<1>2. PICK e \in Nat : e = Wrap(b.end + 1, b.num)
  <2>1. b.end + 1 \in Nat /\ b.num \in Nat
    BY BufferFields
  <2>2. Wrap(b.end + 1, b.num) \in Nat
    BY <2>1, WrapInNat
  <2> QED BY <2>2
<1>3. PICK o \in [0..(BatchNum - 1) -> Seq(AllLines)] :
        /\ o = [b.slots EXCEPT ![b.end] = m]
        /\ \A k \in 0..(BatchNum - 1) : o[k] = IF k = b.end THEN m ELSE b.slots[k]
  <2>1. b.end \in Nat
    BY BufferFields
  <2>2. /\ [b.slots EXCEPT ![b.end] = m] \in [0..(BatchNum - 1) -> Seq(AllLines)]
        /\ \A k \in 0..(BatchNum - 1) :
             [b.slots EXCEPT ![b.end] = m][k] = IF k = b.end THEN m ELSE b.slots[k]
    BY <2>1, SlotSet
  <2> QED BY <2>2
<1>4. PutBatch(b, m) = [b EXCEPT !.count = c, !.slots = o, !.end = e]
  BY <1>1, <1>2, <1>3 DEF PutBatch
<1>5. LET p == [b EXCEPT !.count = c, !.slots = o, !.end = e]
      IN  /\ p \in BufferStates /\ p.count = c /\ p.end = e /\ p.slots = o
          /\ p.start = b.start /\ p.num = b.num /\ p.eof = b.eof
  BY DEF BufferStates
<1> QED BY <1>1, <1>2, <1>3, <1>4, <1>5 DEF IsPut

LEMMA BatchTaken ==
  ASSUME NEW b \in BufferStates, b.count > 0
  PROVE  IsTaken(b, Taken(b))
<1>1. PICK c \in Nat : c = b.count - 1
  BY BufferFields
<1>2. PICK s \in Nat : s = Wrap(b.start + 1, b.num)
  <2>1. b.start + 1 \in Nat /\ b.num \in Nat
    BY BufferFields
  <2>2. Wrap(b.start + 1, b.num) \in Nat
    BY <2>1, WrapInNat
  <2> QED BY <2>2
<1>3. PICK o \in [0..(BatchNum - 1) -> Seq(AllLines)] :
        /\ o = [b.slots EXCEPT ![b.start] = <<>>]
        /\ \A k \in 0..(BatchNum - 1) : o[k] = IF k = b.start THEN <<>> ELSE b.slots[k]
  <2>1. PICK m \in Seq(AllLines) : m = <<>>
    BY EmptySeq
  <2>2. b.start \in Nat
    BY BufferFields
  <2>3. /\ [b.slots EXCEPT ![b.start] = m] \in [0..(BatchNum - 1) -> Seq(AllLines)]
        /\ \A k \in 0..(BatchNum - 1) :
             [b.slots EXCEPT ![b.start] = m][k] = IF k = b.start THEN m ELSE b.slots[k]
    BY <2>2, SlotSet
  <2> QED BY <2>1, <2>3
<1>4. Taken(b) = [b EXCEPT !.slots = o, !.start = s, !.count = c]
  BY <1>1, <1>2, <1>3 DEF Taken
<1>5. LET p == [b EXCEPT !.slots = o, !.start = s, !.count = c]
      IN  /\ p \in BufferStates /\ p.count = c /\ p.start = s /\ p.slots = o
          /\ p.end = b.end /\ p.num = b.num /\ p.eof = b.eof
  BY DEF BufferStates
<1> QED BY <1>1, <1>2, <1>3, <1>4, <1>5 DEF IsTaken

-----------------------------------------------------------------------------
(* The buffer is destroyed when every thread has ended.                    *)

LEMMA DestroyStep ==
  ASSUME BufferInv, scn.path = "buffer", NEW h \in Hosts, Destroy(h)
  PROVE  BufferInv'
<1>1. /\ BufferTyped /\ RingShape /\ AtEnd /\ OnlyLastMissed
      /\ LinesApart /\ Forgotten /\ SlotsExact /\ DataSeen
  BY DEF BufferInv
<1>2. /\ AllDone /\ UNCHANGED <<scn, asg, thread, seen, loaded>>
      /\ buf' = [buf EXCEPT ![h].num = 0]
      /\ loader' = [loader EXCEPT ![h].pc = IF @ = "asleep" THEN "put" ELSE @]
  BY DEF Destroy, AllDone
<1>3. LoadersKept
  BY <1>1, <1>2, LoaderWoken
<1>4. /\ buf' \in [Hosts -> BufferStates]
      /\ \A g \in Hosts :
           /\ buf'[g].slots = buf[g].slots /\ buf'[g].start = buf[g].start
           /\ buf'[g].end = buf[g].end /\ buf'[g].count = buf[g].count
           /\ buf'[g].eof = buf[g].eof /\ (g # h => buf'[g].num = buf[g].num)
      /\ buf'[h].num = 0
  BY <1>1, <1>2 DEF BufferTyped, BufferStates
<1>5. BufferTyped'
  BY <1>1, <1>2, <1>3, <1>4 DEF BufferTyped, LoadersKept
<1>6. RingShape'
  <2>1. \A g \in Hosts : Live(g)' = Live(g)
    BY <1>4 DEF Live
  <2>2. AllDone'
    BY <1>2 DEF AllDone
  <2> QED BY <1>1, <1>4, <2>1, <2>2 DEF RingShape
<1>7. AtEnd'
  BY <1>3, <1>4, <1>1 DEF AtEnd, LoadersKept
<1>8. OnlyLastMissed'
  <2> SUFFICES ASSUME NEW t \in Threads, scn.path = "buffer", scn.iters = 0,
                      thread[t].pc = "done"
               PROVE  LET g == HostOf[t]
                      IN  /\ buf'[g].eof /\ loader'[g].rest = <<>>
                          /\ buf'[g].count <= IF loader'[g].pc \in Waits THEN 0 ELSE 1
    BY <1>2 DEF OnlyLastMissed, Waits
  <2> DEFINE g == HostOf[t]
  <2>1. g \in Hosts /\ buf[g].count \in Nat
    BY <1>1, DataAssumption DEF BufferTyped, BufferStates
  <2>2. /\ buf[g].eof /\ loader[g].rest = <<>>
        /\ buf[g].count <= IF loader[g].pc \in Waits THEN 0 ELSE 1
    BY <1>1 DEF OnlyLastMissed, Waits
  <2> HIDE DEF g
  <2>3. /\ loader'[g].rest = loader[g].rest
        /\ loader'[g].pc \in Waits => loader[g].pc \in Waits
    BY <1>3, <2>1 DEF LoadersKept
  <2>4. buf'[g].eof = buf[g].eof /\ buf'[g].count = buf[g].count
    BY <1>4, <2>1
  <2> QED BY <2>1, <2>2, <2>3, <2>4 DEF g
<1>9. LinesApart'
  BY <1>1, <1>2, <1>3 DEF LinesApart, LoadersKept
<1>10. Forgotten'
  <2>1. AtEOF' = AtEOF
    BY <1>4 DEF AtEOF
  <2>2. \A g \in Hosts : GivenTo(g)' \subseteq GivenTo(g)
    BY <1>2, <1>3 DEF GivenTo, LoadersKept
  <2>3. \A t \in Threads : buf'[HostOf[t]].eof = buf[HostOf[t]].eof
    BY <1>4, DataAssumption
  <2> QED BY <1>1, <1>2, <1>4, <2>1, <2>2, <2>3 DEF Forgotten
<1>11. SlotsExact'
  BY <1>1, <1>2, <1>4, SlotsSame
<1>12. DataSeen'
  BY <1>1, <1>2 DEF DataSeen
<1> QED BY <1>5, <1>6, <1>7, <1>8, <1>9, <1>10, <1>11, <1>12 DEF BufferInv

-----------------------------------------------------------------------------
(* The loading thread puts its batch into the ring.                        *)

\* What a step that puts a batch of host h changes.
PutsBatch(h) ==
  /\ \A g \in Hosts : /\ loader'[g].rest = loader[g].rest /\ loader'[g].tmp = loader[g].tmp
                      /\ loader'[g].pc = IF g = h THEN "notify" ELSE loader[g].pc
                      /\ g # h => buf'[g] = buf[g] /\ loaded'[g] = loaded[g]
  /\ loader' \in [Hosts -> LoaderStates]
  /\ buf' \in [Hosts -> BufferStates] /\ IsPut(buf[h], loader[h].tmp, buf'[h])
  /\ loaded' \in [Hosts -> SUBSET AllLines] /\ loaded'[h] = loaded[h] \cup ToSet(loader[h].tmp)

LEMMA PutSlots ==
  ASSUME BufferTyped, RingShape, LinesApart, SlotsExact, NEW h \in Hosts,
         UNCHANGED seen, PutsBatch(h), Batched(h) = ToSet(loader[h].tmp),
         loader[h].tmp # <<>>, buf[h].num # 0, buf[h].count # buf[h].num
  PROVE  /\ buf'[h].count <= BatchNum
         /\ buf'[h].end = Wrap(buf'[h].start + buf'[h].count, BatchNum)
         /\ \A k \in Live(h)' : buf'[h].slots[k] # <<>>
         /\ SlotsLoaded(h)' /\ SlotsApart(h)' /\ SlotsOrSeen(h)'
<1> DEFINE b == buf[h]
           e == buf[h].end
           m == loader[h].tmp
<1>1. /\ b \in BufferStates /\ b.start \in Nat /\ b.count \in Nat
      /\ b.num = BatchNum /\ BatchNum \in Nat \ {0}
      /\ m \in Seq(AllLines)
  <2>1. b \in BufferStates /\ m \in Seq(AllLines)
    BY DEF BufferTyped, LoaderStates
  <2> QED BY <2>1, BufferFields, DataAssumption
<1>2. /\ b.start < BatchNum /\ b.count < BatchNum /\ e = Wrap(b.start + b.count, BatchNum)
      /\ \A k \in Live(h) : b.slots[k] # <<>>
  BY <1>1 DEF RingShape
<1>3. IsPut(b, m, buf'[h])
  BY DEF PutsBatch
<1>4. /\ buf'[h].start = b.start /\ buf'[h].count = b.count + 1
      /\ buf'[h].end = Wrap(e + 1, BatchNum)
      /\ \A k \in 0..(BatchNum - 1) : buf'[h].slots[k] = IF k = e THEN m ELSE b.slots[k]
  BY <1>1, <1>3 DEF IsPut
<1>5. Live(h) = Slots(b.start, b.count, BatchNum)
  BY LiveSlots
<1>6. Live(h)' = Slots(b.start, b.count + 1, BatchNum)
  BY <1>4 DEF Live, Slots
<1> HIDE DEF b, e, m
<1>7. /\ e \in 0..(BatchNum - 1) /\ e \notin Live(h) /\ Live(h)' = Live(h) \cup {e}
      /\ Wrap(e + 1, BatchNum) = Wrap(b.start + (b.count + 1), BatchNum)
  <2>1. PICK s \in Nat : s = b.start
    BY <1>1
  <2>2. PICK c \in Nat : c = b.count
    BY <1>1
  <2>3. s < BatchNum /\ c < BatchNum /\ BatchNum \in Nat \ {0}
    BY <1>1, <1>2, <2>1, <2>2
  <2>4. /\ Wrap(s + c, BatchNum) \in 0..(BatchNum - 1)
        /\ Wrap(s + c, BatchNum) \notin Slots(s, c, BatchNum)
        /\ Slots(s, c + 1, BatchNum) = Slots(s, c, BatchNum) \cup {Wrap(s + c, BatchNum)}
        /\ Wrap(Wrap(s + c, BatchNum) + 1, BatchNum) = Wrap(s + (c + 1), BatchNum)
    BY <2>3, RingPut
  <2> QED BY <1>2, <1>5, <1>6, <2>1, <2>2, <2>4
<1>8. Live(h) \subseteq 0..(BatchNum - 1)
  <2>1. b.count <= BatchNum
    BY <1>1, <1>2
  <2> QED BY <1>1, <1>2, <1>5, <2>1, SlotsInRing
<1>9. buf'[h].slots[e] = m /\ \A k \in Live(h) : buf'[h].slots[k] = b.slots[k]
  BY <1>4, <1>7, <1>8
<1>10. /\ \A k \in Live(h) : ToSet(b.slots[k]) \subseteq loaded[h]
       /\ \A j, k \in Live(h) : j # k => ToSet(b.slots[j]) \cap ToSet(b.slots[k]) = {}
       /\ ToSet(m) \cap loaded[h] = {} /\ loaded'[h] = loaded[h] \cup ToSet(m)
  BY DEF SlotsExact, SlotsLoaded, SlotsApart, LinesApart, PutsBatch, b, m
<1>11. SlotsLoaded(h)'
  <2>1. \A k \in Live(h)' : ToSet(buf'[h].slots[k]) \subseteq loaded'[h]
    BY <1>7, <1>9, <1>10
  <2> QED BY <2>1 DEF SlotsLoaded
<1>12. SlotsApart(h)'
  <2>1. \A j, k \in Live(h)' :
          j # k => ToSet(buf'[h].slots[j]) \cap ToSet(buf'[h].slots[k]) = {}
    <3> SUFFICES ASSUME NEW j \in Live(h)', NEW k \in Live(h)', j # k
                 PROVE  ToSet(buf'[h].slots[j]) \cap ToSet(buf'[h].slots[k]) = {}
      OBVIOUS
    <3>1. CASE j \in Live(h) /\ k \in Live(h)
      BY <1>9, <1>10, <3>1
    <3>2. CASE j = e
      BY <1>7, <1>9, <1>10, <3>2
    <3>3. CASE k = e
      BY <1>7, <1>9, <1>10, <3>3
    <3> QED BY <1>7, <3>1, <3>2, <3>3
  <2> QED BY <2>1 DEF SlotsApart
<1>13. InSlots(h, Live(h))' = InSlots(h, Live(h)) \cup ToSet(m)
  <2>1. InSlots(h, Live(h)) = UNION {ToSet(b.slots[k]) : k \in Live(h)}
    BY DEF InSlots, ToSet, b
  <2>2. InSlots(h, Live(h))' = UNION {ToSet(buf'[h].slots[k]) : k \in Live(h)'}
    BY DEF InSlots, ToSet
  <2> QED BY <1>7, <1>9, <2>1, <2>2
<1>14. SlotsOrSeen(h)'
  <2>1. \A l \in Samples : SeenOn(h, l)' <=> SeenOn(h, l)
    BY DEF SeenOn, OfHost
  <2>2. \A l \in Samples : SeenOn(h, l) => l \in loaded[h]
    BY DEF SlotsExact, SeenLoaded
  <2>3. \A l \in loaded[h] \cap Samples : l \in InSlots(h, Live(h)) <=> ~SeenOn(h, l)
    BY DEF SlotsExact, SlotsOrSeen
  <2>4. ASSUME NEW l \in loaded'[h] \cap Samples
        PROVE  l \in InSlots(h, Live(h))' <=> ~SeenOn(h, l)'
    <3>1. CASE l \in loaded[h]
      <4>1. l \notin ToSet(m)
        BY <1>10, <3>1
      <4> QED BY <1>13, <2>1, <2>3, <3>1, <4>1
    <3>2. CASE l \in ToSet(m)
      <4>1. l \notin loaded[h]
        BY <1>10, <3>2
      <4> QED BY <1>13, <2>1, <2>2, <3>2, <4>1
    <3> QED BY <1>10, <3>1, <3>2
  <2> QED BY <2>4 DEF SlotsOrSeen
<1>15. \A k \in Live(h)' : buf'[h].slots[k] # <<>>
  BY <1>2, <1>7, <1>9 DEF m
<1>16. /\ buf'[h].count <= BatchNum
       /\ buf'[h].end = Wrap(buf'[h].start + buf'[h].count, BatchNum)
  BY <1>1, <1>2, <1>4, <1>7
<1> QED BY <1>11, <1>12, <1>14, <1>15, <1>16

LEMMA PutStep ==
  ASSUME BufferInv, scn.path = "buffer", NEW h \in Hosts, loader[h].pc = "put",
         loader[h].tmp # <<>>, buf[h].count # buf[h].num, PutsBatch(h),
         UNCHANGED <<scn, asg, thread, seen>>
  PROVE  BufferInv'
<1>1. /\ BufferTyped /\ RingShape /\ AtEnd /\ OnlyLastMissed
      /\ LinesApart /\ Forgotten /\ SlotsExact /\ DataSeen
  BY DEF BufferInv
<1>2. Batched(h) = ToSet(loader[h].tmp) /\ Batched(h)' = {}
  BY DEF PutsBatch, Batched, Holding
<1>3. \A g \in Hosts : g # h => Batched(g)' = Batched(g)
  BY DEF PutsBatch, Batched, Holding
<1>4. /\ buf[h].num # 0 =>
           /\ buf'[h].count <= BatchNum
           /\ buf'[h].end = Wrap(buf'[h].start + buf'[h].count, BatchNum)
           /\ \A k \in Live(h)' : buf'[h].slots[k] # <<>>
           /\ SlotsLoaded(h)' /\ SlotsApart(h)' /\ SlotsOrSeen(h)'
  BY <1>1, <1>2, PutSlots
<1>5. /\ buf'[h].start = buf[h].start /\ buf'[h].count = buf[h].count + 1
      /\ buf'[h].num = buf[h].num /\ buf'[h].eof = buf[h].eof
  BY DEF PutsBatch, IsPut
<1>6. \A g \in Hosts : buf'[g].num = buf[g].num /\ buf'[g].eof = buf[g].eof
  BY <1>5 DEF PutsBatch
<1>7. BufferTyped'
  BY <1>1 DEF BufferTyped, PutsBatch
<1>8. RingShape'
  <2>1. AllDone' <=> AllDone
    BY DEF AllDone
  <2>2. \A g \in Hosts : g # h => buf'[g] = buf[g] /\ Live(g)' = Live(g)
    BY DEF PutsBatch, Live
  <2>3. ASSUME NEW g \in Hosts
        PROVE  /\ buf'[g].num = 0 => AllDone'
               /\ buf'[g].num # 0 =>
                    /\ buf'[g].start < BatchNum /\ buf'[g].count <= BatchNum
                    /\ buf'[g].end = Wrap(buf'[g].start + buf'[g].count, BatchNum)
                    /\ \A k \in Live(g)' : buf'[g].slots[k] # <<>>
    <3>1. CASE g = h
      BY <1>1, <1>4, <1>5, <2>1, <3>1 DEF RingShape
    <3>2. CASE g # h
      BY <1>1, <2>1, <2>2, <3>2 DEF RingShape
    <3> QED BY <3>1, <3>2
  <2> QED BY <2>3 DEF RingShape
<1>9. AtEnd'
  BY <1>1, <1>6 DEF AtEnd, PutsBatch
<1>10. OnlyLastMissed'
  <2> SUFFICES ASSUME NEW t \in Threads, scn.path = "buffer", scn.iters = 0,
                      thread[t].pc = "done"
               PROVE  LET g == HostOf[t]
                      IN  /\ buf'[g].eof /\ loader'[g].rest = <<>>
                          /\ buf'[g].count <= IF loader'[g].pc \in Waits THEN 0 ELSE 1
    BY DEF OnlyLastMissed, Waits
  <2> DEFINE g == HostOf[t]
  <2>1. g \in Hosts
    BY DataAssumption
  <2>2. /\ buf[g].eof /\ loader[g].rest = <<>>
        /\ buf[g].count <= IF loader[g].pc \in Waits THEN 0 ELSE 1
    BY <1>1 DEF OnlyLastMissed, Waits
  <2> HIDE DEF g
  <2>3. buf'[g].eof = buf[g].eof /\ loader'[g].rest = loader[g].rest
    BY <1>6, <2>1 DEF PutsBatch
  <2>4. CASE g = h
    <3>1. buf[h].count \in Nat /\ buf[h].count <= 0
      BY <1>1, <2>2, <2>4 DEF BufferTyped, BufferStates, Waits
    <3>2. loader'[h].pc \notin Waits
      BY DEF PutsBatch, Waits
    <3> QED BY <1>5, <2>2, <2>3, <2>4, <3>1, <3>2 DEF g
  <2>5. CASE g # h
    <3>1. buf'[g] = buf[g] /\ loader'[g].pc = loader[g].pc
      BY <2>1, <2>5 DEF PutsBatch
    <3> QED BY <2>2, <2>3, <3>1 DEF g
  <2> QED BY <2>4, <2>5
<1>11. LinesApart'
  <2> SUFFICES ASSUME NEW g \in Hosts
               PROVE  /\ IsInjective(loader'[g].rest)
                      /\ ToSet(loader'[g].rest) \cap Batched(g)' = {}
                      /\ ToSet(loader'[g].rest) \cap loaded'[g] = {}
                      /\ Batched(g)' \cap loaded'[g] = {}
                      /\ loader'[g].pc \in {"none", "first"}
                           => loader'[g].rest = <<>> /\ loader'[g].tmp = <<>>
    BY DEF LinesApart
  <2>1. CASE g = h
    <3>1. /\ loader'[h].rest = loader[h].rest /\ loader'[h].pc = "notify"
          /\ loaded'[h] = loaded[h] \cup ToSet(loader[h].tmp)
      BY DEF PutsBatch
    <3> QED BY <1>1, <1>2, <2>1, <3>1 DEF LinesApart
  <2>2. CASE g # h
    <3>1. /\ loader'[g].rest = loader[g].rest /\ loader'[g].tmp = loader[g].tmp
          /\ loader'[g].pc = loader[g].pc /\ loaded'[g] = loaded[g]
      BY <2>2 DEF PutsBatch
    <3> QED BY <1>1, <1>3, <2>2, <3>1 DEF LinesApart
  <2> QED BY <2>1, <2>2
<1>12. Forgotten'
  <2>1. AtEOF' = AtEOF
    BY <1>6 DEF AtEOF
  <2>2. \A g \in Hosts : GivenTo(g)' = GivenTo(g)
    BY <1>2, <1>3 DEF GivenTo, PutsBatch
  <2>3. \A t \in Threads : buf'[HostOf[t]].eof = buf[HostOf[t]].eof
    BY <1>6, DataAssumption
  <2> QED BY <1>1, <1>6, <2>1, <2>2, <2>3 DEF Forgotten
<1>13. SlotsExact'
  <2> SUFFICES ASSUME NEW g \in Hosts
               PROVE  /\ SeenLoaded(g)'
                      /\ buf'[g].num # 0 => SlotsLoaded(g)' /\ SlotsApart(g)' /\ SlotsOrSeen(g)'
    BY DEF SlotsExact
  <2>1. loaded[g] \subseteq loaded'[g]
    BY DEF PutsBatch
  <2>2. \A l \in Samples : SeenOn(g, l)' <=> SeenOn(g, l)
    BY DEF SeenOn, OfHost
  <2>3. SeenLoaded(g)'
    BY <1>1, <2>1, <2>2 DEF SlotsExact, SeenLoaded
  <2>4. CASE g = h
    BY <1>4, <1>5, <2>3, <2>4
  <2>5. CASE g # h
    <3>1. buf'[g] = buf[g] /\ loaded'[g] = loaded[g]
      BY <2>5 DEF PutsBatch
    <3>2. Live(g)' = Live(g) /\ InSlots(g, Live(g))' = InSlots(g, Live(g))
      BY <3>1 DEF Live, InSlots
    <3>3. ASSUME buf[g].num # 0 PROVE SlotsLoaded(g)' /\ SlotsApart(g)' /\ SlotsOrSeen(g)'
      <4>1. SlotsLoaded(g) /\ SlotsApart(g) /\ SlotsOrSeen(g)
        BY <1>1, <3>3 DEF SlotsExact
      <4>2. SlotsLoaded(g)'
        BY <3>1, <3>2, <4>1 DEF SlotsLoaded
      <4>3. SlotsApart(g)'
        BY <3>1, <3>2, <4>1 DEF SlotsApart
      <4>4. SlotsOrSeen(g)'
        BY <2>2, <3>1, <3>2, <4>1 DEF SlotsOrSeen
      <4> QED BY <4>2, <4>3, <4>4
    <3> QED BY <2>3, <3>1, <3>3
  <2> QED BY <2>4, <2>5
<1>14. DataSeen'
  BY <1>1 DEF DataSeen
<1> QED BY <1>7, <1>8, <1>9, <1>10, <1>11, <1>12, <1>13, <1>14 DEF BufferInv

LEMMA StoreBatchStep ==
  ASSUME BufferInv, scn.path = "buffer", NEW h \in Hosts, StoreBatch(h)
  PROVE  BufferInv'
<1>1. BufferTyped /\ AtEnd /\ LinesApart
  BY DEF BufferInv
<1>2. /\ loader[h].pc = "put" /\ buf[h].count # buf[h].num
      /\ UNCHANGED <<scn, asg, thread, seen>>
      /\ loader' = [loader EXCEPT ![h].pc = "notify"]
      /\ loaded' = [loaded EXCEPT ![h] = @ \cup ToSet(loader[h].tmp)]
  BY DEF StoreBatch, Full, ToSet
<1>3. buf' = [buf EXCEPT ![h] = IF loader[h].tmp = <<>> THEN @ ELSE PutBatch(@, loader[h].tmp)]
  BY DEF StoreBatch
<1>4. CASE loader[h].tmp = <<>>
  <2>1. buf' = buf
    BY <1>1, <1>3, <1>4 DEF BufferTyped
  <2>2. loaded' = loaded
    BY <1>1, <1>2, <1>4, EmptyRange DEF BufferTyped
  <2>3. \E t \in Threads : HostOf[t] = h
    BY <1>1, <1>2 DEF AtEnd
  <2>4. LoadersKept
    BY <1>1, <1>2, <2>3, OneLoaderMoves DEF LoaderPCs, Waits
  <2> QED BY <1>1, <1>2, <2>1, <2>2, <2>4, ThreadsStay, MovesKept
<1>5. CASE loader[h].tmp # <<>>
  <2>1. buf[h] \in BufferStates /\ loader[h].tmp \in Seq(AllLines)
    BY <1>1 DEF BufferTyped, LoaderStates
  <2>2. PICK p \in BufferStates : p = PutBatch(buf[h], loader[h].tmp) /\ IsPut(buf[h], loader[h].tmp, p)
    <3>1. IsPut(buf[h], loader[h].tmp, PutBatch(buf[h], loader[h].tmp))
      BY <2>1, BatchPut
    <3> QED BY <3>1 DEF IsPut
  <2>3. buf' = [buf EXCEPT ![h] = p]
    BY <1>3, <1>5, <2>2
  <2>4. buf' \in [Hosts -> BufferStates] /\ buf'[h] = p /\ \A g \in Hosts : g # h => buf'[g] = buf[g]
    BY <1>1, <2>3 DEF BufferTyped
  <2>5. PICK s \in SUBSET AllLines : s = loaded[h] \cup ToSet(loader[h].tmp)
    BY <1>1, <2>1, SeqRange DEF BufferTyped
  <2>6. /\ loaded' \in [Hosts -> SUBSET AllLines]
        /\ loaded'[h] = loaded[h] \cup ToSet(loader[h].tmp)
        /\ \A g \in Hosts : g # h => loaded'[g] = loaded[g]
    <3>1. loaded' = [loaded EXCEPT ![h] = s]
      BY <1>2, <2>5
    <3> QED BY <1>1, <2>5, <3>1 DEF BufferTyped
  <2>7. /\ loader' \in [Hosts -> LoaderStates]
        /\ \A g \in Hosts : /\ loader'[g].rest = loader[g].rest
                            /\ loader'[g].tmp = loader[g].tmp
                            /\ loader'[g].pc = IF g = h THEN "notify" ELSE loader[g].pc
    <3>1. loader \in [Hosts -> LoaderStates] /\ "notify" \in LoaderPCs
      BY <1>1 DEF BufferTyped, LoaderPCs
    <3>2. loader' = [loader EXCEPT ![h].pc = "notify"]
      BY <1>2
    <3> QED BY <3>1, <3>2, LoaderMoves
  <2>8. PutsBatch(h)
    BY <2>2, <2>4, <2>6, <2>7 DEF PutsBatch
  <2> QED BY <1>2, <1>5, <2>8, PutStep
<1> QED BY <1>4, <1>5

-----------------------------------------------------------------------------
(* A thread takes the batch at the start of the ring.                      *)

\* The samples of the parsed batch are those of the batch, and some the reader
\* had before.
LEMMA ParsedLines ==
  ASSUME NEW old \in Seq(AllLines), NEW raw \in Seq(AllLines)
  PROVE  /\ Parsed(old, raw) \in Seq(AllLines)
         /\ ToSet(raw) \cap Samples \subseteq ToSet(Parsed(old, raw))
         /\ ToSet(Parsed(old, raw)) \subseteq ToSet(raw) \cup ToSet(old)
<1>1. CASE scn.fmt # "raw"
  BY <1>1 DEF Parsed
<1>2. CASE scn.fmt = "raw"
  <2> DEFINE d == [i \in 1..Len(raw) |-> IF raw[i] \notin Blank THEN raw[i]
                                         ELSE IF i <= Len(old) THEN old[i] ELSE raw[i]]
  <2>1. Parsed(old, raw) = d
    BY <1>2 DEF Parsed
  <2>2. /\ Len(raw) \in Nat /\ DOMAIN raw = 1..Len(raw)
        /\ Len(old) \in Nat /\ DOMAIN old = 1..Len(old)
        /\ \A i \in 1..Len(raw) : raw[i] \in AllLines
        /\ \A i \in 1..Len(old) : old[i] \in AllLines
    OBVIOUS
  <2>3. /\ DOMAIN d = 1..Len(raw)
        /\ \A i \in 1..Len(raw) : /\ raw[i] \notin Blank => d[i] = raw[i]
                                  /\ d[i] = raw[i] \/ (i \in 1..Len(old) /\ d[i] = old[i])
    BY <2>2
  <2>4. d \in [1..Len(raw) -> AllLines]
    BY <2>2
  <2>5. d \in Seq(AllLines)
    BY <2>2, <2>4
  <2> HIDE DEF d
  <2>6. ToSet(raw) \cap Samples \subseteq ToSet(d)
    BY <2>2, <2>3 DEF ToSet, Samples
  <2>7. ToSet(d) \subseteq ToSet(raw) \cup ToSet(old)
    BY <2>2, <2>3 DEF ToSet
  <2> QED BY <2>1, <2>5, <2>6, <2>7
<1> QED BY <1>1, <1>2

\* What a step that gives the first batch of the ring to thread t changes.
TakesBatch(t, data) ==
  LET h == HostOf[t]
  IN /\ thread' \in [Threads -> ThreadStates]
     /\ \A u \in Threads : u # t => thread'[u] = thread[u]
     /\ thread'[t].pc = "tell" /\ thread'[t].data = data
     /\ buf' \in [Hosts -> BufferStates] /\ IsTaken(buf[h], buf'[h])
     /\ \A g \in Hosts : g # h => buf'[g] = buf[g]
     /\ seen' = Count(t, data)

\* The samples of the first batch are seen with this step, and no others.
LEMMA TakenSeen ==
  ASSUME BufferTyped, DataSeen, NEW t \in Threads, NEW raw \in Seq(AllLines), NEW data,
         data = Parsed(thread[t].data, raw), seen' = Count(t, data)
  PROVE  /\ seen' \in [Threads -> [Samples -> Nat]] /\ data \in Seq(AllLines)
         /\ \A u \in Threads, l \in Samples : seen[u][l] > 0 => seen'[u][l] > 0
         /\ \A l \in ToSet(data) \cap Samples : seen'[t][l] > 0
         /\ \A u \in Threads, l \in Samples :
              seen'[u][l] > 0 <=> seen[u][l] > 0 \/ (u = t /\ l \in ToSet(raw))
<1>1. thread[t].data \in Seq(AllLines) /\ SeenTyped
  BY DEF BufferTyped, ThreadStates, SeenTyped
<1>2. /\ data \in Seq(AllLines)
      /\ ToSet(raw) \cap Samples \subseteq ToSet(data)
      /\ ToSet(data) \subseteq ToSet(raw) \cup ToSet(thread[t].data)
  BY <1>1, ParsedLines
<1>3. /\ seen' \in [Threads -> [Samples -> Nat]]
      /\ \A u \in Threads, l \in Samples :
           seen'[u][l] > 0 <=> seen[u][l] > 0 \/ (u = t /\ l \in ToSet(data))
  BY <1>1, <1>2, CountSeen
<1>4. \A l \in ToSet(thread[t].data) \cap Samples : seen[t][l] > 0
  BY DEF DataSeen
<1>5. ASSUME NEW l \in Samples
      PROVE  seen[t][l] > 0 \/ l \in ToSet(data) <=> seen[t][l] > 0 \/ l \in ToSet(raw)
  BY <1>2, <1>4
<1> QED BY <1>2, <1>3, <1>5

LEMMA TakenSlots ==
  ASSUME RingShape, SlotsExact, BufferTyped, NEW t \in Threads, NEW h \in Hosts, h = HostOf[t],
         buf[h].num # 0, buf[h].count > 0, UNCHANGED loaded,
         IsTaken(buf[h], buf'[h]),
         \A u \in Threads, l \in Samples :
           seen'[u][l] > 0 <=> seen[u][l] > 0 \/ (u = t /\ l \in ToSet(buf[h].slots[buf[h].start]))
  PROVE  /\ buf'[h].start < BatchNum /\ buf'[h].count <= BatchNum
         /\ buf'[h].end = Wrap(buf'[h].start + buf'[h].count, BatchNum)
         /\ \A k \in Live(h)' : buf'[h].slots[k] # <<>>
         /\ SeenLoaded(h)' /\ SlotsLoaded(h)' /\ SlotsApart(h)' /\ SlotsOrSeen(h)'
<1> DEFINE b == buf[h]
           s == buf[h].start
           raw == b.slots[s]
<1>1. /\ b \in BufferStates /\ s \in Nat /\ b.count \in Nat
      /\ b.num = BatchNum /\ BatchNum \in Nat \ {0}
  <2>1. b \in BufferStates
    BY DEF BufferTyped
  <2> QED BY <2>1, BufferFields, DataAssumption
<1>2. /\ s < BatchNum /\ b.count <= BatchNum /\ b.end = Wrap(s + b.count, BatchNum)
      /\ \A k \in Live(h) : b.slots[k] # <<>>
  BY <1>1 DEF RingShape
<1>3. /\ buf'[h].start = Wrap(s + 1, BatchNum) /\ buf'[h].count = b.count - 1
      /\ buf'[h].end = b.end
      /\ \A k \in 0..(BatchNum - 1) : buf'[h].slots[k] = IF k = s THEN <<>> ELSE b.slots[k]
  BY <1>1 DEF IsTaken
<1>4. Live(h) = Slots(s, b.count, BatchNum)
  BY LiveSlots
<1>5. Live(h)' = Slots(Wrap(s + 1, BatchNum), b.count - 1, BatchNum)
  BY <1>3 DEF Live, Slots
<1>6. 0 < b.count
  OBVIOUS
<1>7. /\ s \in Live(h) /\ Wrap(s + 1, BatchNum) \in Nat /\ Wrap(s + 1, BatchNum) < BatchNum
      /\ Live(h)' = Live(h) \ {s}
      /\ Wrap(Wrap(s + 1, BatchNum) + (b.count - 1), BatchNum) = Wrap(s + b.count, BatchNum)
  <2>1. PICK i \in Nat : i = s
    BY <1>1
  <2>2. PICK c \in Nat : c = b.count
    BY <1>1
  <2>3. i < BatchNum /\ c <= BatchNum /\ 0 < c /\ BatchNum \in Nat \ {0}
    BY <1>1, <1>2, <1>6, <2>1, <2>2
  <2>4. /\ i \in Slots(i, c, BatchNum)
        /\ Wrap(i + 1, BatchNum) \in Nat /\ Wrap(i + 1, BatchNum) < BatchNum
        /\ Slots(Wrap(i + 1, BatchNum), c - 1, BatchNum) = Slots(i, c, BatchNum) \ {i}
        /\ Wrap(Wrap(i + 1, BatchNum) + (c - 1), BatchNum) = Wrap(i + c, BatchNum)
    BY <2>3, RingTake
  <2> QED BY <1>4, <1>5, <2>1, <2>2, <2>4
<1>8. Live(h) \subseteq 0..(BatchNum - 1)
  BY <1>1, <1>2, <1>4, SlotsInRing
<1>9. \A k \in Live(h)' : k \in Live(h) /\ k # s /\ buf'[h].slots[k] = b.slots[k]
  BY <1>3, <1>7, <1>8
<1>10. /\ \A k \in Live(h) : ToSet(b.slots[k]) \subseteq loaded[h]
       /\ \A j, k \in Live(h) : j # k => ToSet(b.slots[j]) \cap ToSet(b.slots[k]) = {}
  BY DEF SlotsExact, SlotsLoaded, SlotsApart
<1> HIDE DEF b, s, raw
<1>11. \A l \in Samples : SeenOn(h, l)' <=> SeenOn(h, l) \/ l \in ToSet(raw)
  <2>1. \A u \in Threads, l \in Samples :
          seen'[u][l] > 0 <=> seen[u][l] > 0 \/ (u = t /\ l \in ToSet(raw))
    BY DEF b, s, raw
  <2>2. t \in OfHost(h) /\ OfHost(h) \subseteq Threads
    BY DEF OfHost
  <2> QED BY <2>1, <2>2 DEF SeenOn, OfHost
<1>12. ToSet(raw) \subseteq loaded[h]
  BY <1>7, <1>10 DEF raw
<1>13. SeenLoaded(h)'
  <2>1. \A l \in Samples : SeenOn(h, l) => l \in loaded[h]
    BY DEF SlotsExact, SeenLoaded
  <2> QED BY <1>11, <1>12, <2>1 DEF SeenLoaded
<1>14. SlotsLoaded(h)'
  <2>1. \A k \in Live(h)' : ToSet(buf'[h].slots[k]) \subseteq loaded'[h]
    BY <1>9, <1>10
  <2> QED BY <2>1 DEF SlotsLoaded
<1>15. SlotsApart(h)'
  <2>1. \A j, k \in Live(h)' :
          j # k => ToSet(buf'[h].slots[j]) \cap ToSet(buf'[h].slots[k]) = {}
    BY <1>9, <1>10
  <2> QED BY <2>1 DEF SlotsApart
<1>16. \A l : l \in InSlots(h, Live(h))' <=> l \in InSlots(h, Live(h)) /\ l \notin ToSet(raw)
  <2>1. \A l : l \in InSlots(h, Live(h)) <=> \E k \in Live(h) : l \in ToSet(b.slots[k])
    BY DEF InSlots, ToSet, b
  <2>2. \A l : l \in InSlots(h, Live(h))' <=> \E k \in Live(h)' : l \in ToSet(buf'[h].slots[k])
    BY DEF InSlots, ToSet
  <2>3. \A l : l \in InSlots(h, Live(h))' <=> \E k \in Live(h) \ {s} : l \in ToSet(b.slots[k])
    BY <1>7, <1>9, <2>2
  <2>4. \A k \in Live(h) \ {s} : ToSet(b.slots[k]) \cap ToSet(raw) = {}
    BY <1>7, <1>10 DEF raw
  <2> QED BY <2>1, <2>3, <2>4 DEF raw
<1>17. SlotsOrSeen(h)'
  <2>1. \A l \in loaded[h] \cap Samples : l \in InSlots(h, Live(h)) <=> ~SeenOn(h, l)
    BY DEF SlotsExact, SlotsOrSeen
  <2> QED BY <1>11, <1>16, <2>1 DEF SlotsOrSeen
<1>18. \A k \in Live(h)' : buf'[h].slots[k] # <<>>
  BY <1>2, <1>9
<1>19. /\ buf'[h].start < BatchNum /\ buf'[h].count <= BatchNum
       /\ buf'[h].end = Wrap(buf'[h].start + buf'[h].count, BatchNum)
  BY <1>1, <1>2, <1>3, <1>7
<1> QED BY <1>13, <1>14, <1>15, <1>17, <1>18, <1>19

LEMMA GetStep ==
  ASSUME BufferInv, scn.path = "buffer", NEW t \in Threads, NEW h \in Hosts, h = HostOf[t],
         thread[t].pc = "get", buf[h].count > 0,
         NEW data, data = Parsed(thread[t].data, buf[h].slots[buf[h].start]),
         TakesBatch(t, data), UNCHANGED <<scn, asg, loader, loaded>>
  PROVE  BufferInv'
<1>1. /\ BufferTyped /\ RingShape /\ AtEnd /\ OnlyLastMissed
      /\ LinesApart /\ Forgotten /\ SlotsExact /\ DataSeen
  BY DEF BufferInv
<1>2. /\ thread' \in [Threads -> ThreadStates]
      /\ \A u \in Threads : u # t => thread'[u] = thread[u]
      /\ thread'[t].pc = "tell" /\ thread'[t].data = data
      /\ buf' \in [Hosts -> BufferStates] /\ IsTaken(buf[h], buf'[h])
      /\ \A g \in Hosts : g # h => buf'[g] = buf[g]
      /\ seen' = Count(t, data)
  BY DEF TakesBatch
<1>3. ~AllDone
  BY DEF AllDone
<1>4. \A g \in Hosts : buf[g].num # 0
  BY <1>1, <1>3 DEF RingShape
<1>5. /\ buf[h] \in BufferStates /\ buf[h].start \in 0..(BatchNum - 1)
      /\ buf[h].slots[buf[h].start] \in Seq(AllLines)
  <2>1. buf[h] \in BufferStates
    BY <1>1 DEF BufferTyped
  <2>2. /\ buf[h].slots \in [0..(BatchNum - 1) -> Seq(AllLines)]
        /\ buf[h].start \in Nat /\ buf[h].start < BatchNum
    BY <1>1, <1>4, <2>1, BufferFields DEF RingShape
  <2>3. buf[h].start \in 0..(BatchNum - 1)
    BY <2>2, DataAssumption
  <2> QED BY <2>1, <2>2, <2>3
<1>6. PICK raw \in Seq(AllLines) : raw = buf[h].slots[buf[h].start]
  BY <1>5
<1>7. /\ seen' \in [Threads -> [Samples -> Nat]] /\ data \in Seq(AllLines)
      /\ \A u \in Threads, l \in Samples : seen[u][l] > 0 => seen'[u][l] > 0
      /\ \A l \in ToSet(data) \cap Samples : seen'[t][l] > 0
      /\ \A u \in Threads, l \in Samples :
           seen'[u][l] > 0 <=> seen[u][l] > 0 \/ (u = t /\ l \in ToSet(raw))
  BY <1>1, <1>2, <1>6, TakenSeen
<1>8. /\ buf'[h].start < BatchNum /\ buf'[h].count <= BatchNum
      /\ buf'[h].end = Wrap(buf'[h].start + buf'[h].count, BatchNum)
      /\ \A k \in Live(h)' : buf'[h].slots[k] # <<>>
      /\ SeenLoaded(h)' /\ SlotsLoaded(h)' /\ SlotsApart(h)' /\ SlotsOrSeen(h)'
  BY <1>1, <1>2, <1>4, <1>6, <1>7, TakenSlots
<1>9. /\ buf'[h].num = buf[h].num /\ buf'[h].eof = buf[h].eof
      /\ buf'[h].count = buf[h].count - 1
      /\ \A g \in Hosts : buf'[g].num = buf[g].num /\ buf'[g].eof = buf[g].eof
  BY <1>2 DEF IsTaken
<1>10. BufferTyped'
  BY <1>1, <1>2, <1>7 DEF BufferTyped
<1>11. RingShape'
  <2>1. \A g \in Hosts : g # h => buf'[g] = buf[g] /\ Live(g)' = Live(g)
    BY <1>2 DEF Live
  <2>2. ASSUME NEW g \in Hosts
        PROVE  /\ buf'[g].num # 0
               /\ buf'[g].start < BatchNum /\ buf'[g].count <= BatchNum
               /\ buf'[g].end = Wrap(buf'[g].start + buf'[g].count, BatchNum)
               /\ \A k \in Live(g)' : buf'[g].slots[k] # <<>>
    <3>1. CASE g = h
      BY <1>4, <1>8, <1>9, <3>1
    <3>2. CASE g # h
      BY <1>1, <1>4, <2>1, <3>2 DEF RingShape
    <3> QED BY <3>1, <3>2
  <2> QED BY <2>2 DEF RingShape
<1>12. AtEnd'
  BY <1>1, <1>9 DEF AtEnd
<1>13. OnlyLastMissed'
  <2> SUFFICES ASSUME NEW u \in Threads, scn.path = "buffer", scn.iters = 0,
                      thread'[u].pc = "done"
               PROVE  LET g == HostOf[u]
                      IN  /\ buf'[g].eof /\ loader[g].rest = <<>>
                          /\ buf'[g].count <= IF loader[g].pc \in Waits THEN 0 ELSE 1
    BY DEF OnlyLastMissed, Waits
  <2> DEFINE g == HostOf[u]
  <2>1. u # t /\ thread'[u] = thread[u]
    BY <1>2
  <2>2. /\ buf[g].eof /\ loader[g].rest = <<>>
        /\ buf[g].count <= IF loader[g].pc \in Waits THEN 0 ELSE 1
    BY <1>1, <2>1 DEF OnlyLastMissed, Waits
  <2>3. g \in Hosts
    BY DataAssumption
  <2>4. buf[g].count \in Nat /\ buf'[g].count \in Nat
    BY <1>1, <1>2, <2>3 DEF BufferTyped, BufferStates
  <2> HIDE DEF g
  <2>5. buf'[g].eof = buf[g].eof /\ buf'[g].count <= buf[g].count
    <3>1. CASE g = h
      BY <1>9, <2>4, <3>1
    <3>2. CASE g # h
      BY <1>2, <2>3, <2>4, <3>2
    <3> QED BY <3>1, <3>2
  <2>6. buf'[g].count <= IF loader[g].pc \in Waits THEN 0 ELSE 1
    BY <2>2, <2>4, <2>5
  <2> QED BY <2>2, <2>5, <2>6 DEF g
<1>14. LinesApart'
  BY <1>1 DEF LinesApart, Batched, Holding
<1>15. Forgotten'
  <2>1. AtEOF' = AtEOF
    BY <1>9 DEF AtEOF
  <2>2. \A g \in Hosts : GivenTo(g)' = GivenTo(g)
    BY DEF GivenTo, Batched, Holding
  <2>3. \A u \in Threads : buf'[HostOf[u]].eof = buf[HostOf[u]].eof
    BY <1>9, DataAssumption
  <2> QED BY <1>1, <1>9, <2>1, <2>2, <2>3 DEF Forgotten
<1>16. SlotsExact'
  <2> SUFFICES ASSUME NEW g \in Hosts
               PROVE  SeenLoaded(g)' /\ SlotsLoaded(g)' /\ SlotsApart(g)' /\ SlotsOrSeen(g)'
    BY DEF SlotsExact
  <2>1. CASE g = h
    BY <1>8, <2>1
  <2>2. CASE g # h
    <3>1. buf'[g] = buf[g]
      BY <1>2, <2>2
    <3>2. \A l \in Samples : SeenOn(g, l)' <=> SeenOn(g, l)
      <4>1. t \notin OfHost(g) /\ OfHost(g) \subseteq Threads
        BY <2>2 DEF OfHost
      <4> QED BY <1>7, <4>1 DEF SeenOn, OfHost
    <3>3. Live(g)' = Live(g) /\ InSlots(g, Live(g))' = InSlots(g, Live(g))
      BY <3>1 DEF Live, InSlots
    <3>4. SeenLoaded(g) /\ SlotsLoaded(g) /\ SlotsApart(g) /\ SlotsOrSeen(g)
      BY <1>1, <1>4 DEF SlotsExact
    <3>5. SeenLoaded(g)'
      BY <3>2, <3>4 DEF SeenLoaded
    <3>6. SlotsLoaded(g)'
      BY <3>1, <3>3, <3>4 DEF SlotsLoaded
    <3>7. SlotsApart(g)'
      BY <3>1, <3>3, <3>4 DEF SlotsApart
    <3>8. SlotsOrSeen(g)'
      BY <3>2, <3>3, <3>4 DEF SlotsOrSeen
    <3> QED BY <3>5, <3>6, <3>7, <3>8
  <2> QED BY <2>1, <2>2
<1>17. DataSeen'
  <2> SUFFICES ASSUME NEW u \in Threads, NEW l \in ToSet(thread'[u].data) \cap Samples
               PROVE  seen'[u][l] > 0
    BY DEF DataSeen
  <2>1. CASE u = t
    BY <1>2, <1>7, <2>1
  <2>2. CASE u # t
    BY <1>1, <1>2, <1>7, <2>2 DEF DataSeen
  <2> QED BY <2>1, <2>2
<1> QED BY <1>10, <1>11, <1>12, <1>13, <1>14, <1>15, <1>16, <1>17 DEF BufferInv

LEMMA GetBatchStep ==
  ASSUME BufferInv, scn.path = "buffer", NEW t \in Threads, GetBatch(t)
  PROVE  BufferInv'
<1> DEFINE h == HostOf[t]
           raw == buf[h].slots[buf[h].start]
           data == Parsed(thread[t].data, raw)
<1>1. BufferTyped /\ RingShape /\ h \in Hosts
  BY DataAssumption DEF BufferInv
<1>2. /\ thread[t].pc = "get" /\ buf[h].count > 0
      /\ thread' = [thread EXCEPT ![t].pc = "tell", ![t].data = data,
                                  ![t].got = IF scn.iters = 0 THEN @ ELSE @ + 1]
      /\ seen' = Count(t, data) /\ buf' = [buf EXCEPT ![h] = Taken(@)]
      /\ UNCHANGED <<scn, asg, loader, loaded>>
  BY DEF GetBatch
<1>3. buf[h].num # 0
  BY <1>1, <1>2 DEF RingShape, AllDone
<1>4. raw \in Seq(AllLines) /\ buf[h] \in BufferStates
  <2>1. buf[h] \in BufferStates
    BY <1>1 DEF BufferTyped
  <2>2. /\ buf[h].slots \in [0..(BatchNum - 1) -> Seq(AllLines)]
        /\ buf[h].start \in Nat /\ buf[h].start < BatchNum
    BY <1>1, <1>3, <2>1, BufferFields DEF RingShape
  <2>3. buf[h].start \in 0..(BatchNum - 1)
    BY <2>2, DataAssumption
  <2> QED BY <2>1, <2>2, <2>3
<1>5. thread[t].data \in Seq(AllLines) /\ thread[t].got \in Nat
  BY <1>1 DEF BufferTyped, ThreadStates
<1> HIDE DEF h, raw
<1>6. PICK d \in Seq(AllLines) : d = data
  BY <1>4, <1>5, ParsedLines
<1>7. PICK n \in Nat : n = IF scn.iters = 0 THEN thread[t].got ELSE thread[t].got + 1
  BY <1>5
<1> HIDE DEF data
<1>8. thread' = [thread EXCEPT ![t].pc = "tell", ![t].data = d, ![t].got = n]
  BY <1>2, <1>6, <1>7
<1>9. /\ thread' \in [Threads -> ThreadStates]
      /\ \A u \in Threads : u # t => thread'[u] = thread[u]
      /\ thread'[t].pc = "tell" /\ thread'[t].data = d
  BY <1>1, <1>8 DEF BufferTyped, ThreadStates, ThreadPCs
<1>10. PICK p \in BufferStates : p = Taken(buf[h]) /\ IsTaken(buf[h], p)
  <2>1. IsTaken(buf[h], Taken(buf[h]))
    BY <1>2, <1>4, BatchTaken
  <2> QED BY <2>1 DEF IsTaken
<1>11. buf' = [buf EXCEPT ![h] = p]
  BY <1>2, <1>10
<1>12. /\ buf' \in [Hosts -> BufferStates] /\ buf'[h] = p
       /\ \A g \in Hosts : g # h => buf'[g] = buf[g]
  BY <1>1, <1>11 DEF BufferTyped
<1>13. TakesBatch(t, data)
  BY <1>2, <1>6, <1>9, <1>10, <1>12 DEF TakesBatch, h
<1> QED BY <1>1, <1>2, <1>13, GetStep DEF data, raw, h

-----------------------------------------------------------------------------
(* The theorems.                                                           *)

LEMMA InitBufferInv == Init => BufferInv
<1> SUFFICES ASSUME Init, scn.path = "buffer" PROVE BufferInv
  BY DEF BufferInv
<1>1. /\ asg = NoAssigner /\ thread = [t \in Threads |-> NewThread]
      /\ loader = [h \in Hosts |-> NewLoader] /\ buf = [h \in Hosts |-> NewBuffer]
      /\ seen = [t \in Threads |-> [l \in Samples |-> 0]]
      /\ loaded = [h \in Hosts |-> {}]
  BY DEF Init
<1>2. <<>> \in Seq(AllLines) /\ ToSet(<<>>) = {} /\ IsInjective(<<>>)
  BY EmptySeq, EmptyRange DEF IsInjective
<1>3. /\ asg \in Assigners /\ ~asg.known /\ asg.rejected = 0
      /\ \A h \in Hosts : asg.left[h] = {}
  BY <1>1 DEF NoAssigner, Assigners
<1>4. NewThread \in ThreadStates /\ NewThread.pc = "init" /\ NewThread.data = <<>>
  BY <1>2 DEF NewThread, ThreadStates, ThreadPCs
<1>5. /\ NewLoader \in LoaderStates /\ NewLoader.pc = "none"
      /\ NewLoader.rest = <<>> /\ NewLoader.tmp = <<>>
  BY <1>2 DEF NewLoader, LoaderStates, LoaderPCs
<1>6. /\ NewBuffer \in BufferStates /\ NewBuffer.num # 0 /\ ~NewBuffer.eof
      /\ NewBuffer.start = 0 /\ NewBuffer.count = 0 /\ NewBuffer.end = 0
  <2>1. PICK o \in [0..(BatchNum - 1) -> Seq(AllLines)] : o = [k \in 0..(BatchNum - 1) |-> <<>>]
    BY <1>2
  <2>2. NewBuffer = [slots |-> o, start |-> 0, end |-> 0, count |-> 0, num |-> BatchNum,
                     eof |-> FALSE]
    BY <2>1 DEF NewBuffer
  <2> QED BY <2>2, DataAssumption DEF BufferStates
<1>7. \A h \in Hosts : loader[h] = NewLoader /\ buf[h] = NewBuffer /\ loaded[h] = {}
  BY <1>1
<1>8. \A t \in Threads : thread[t] = NewThread /\ \A l \in Samples : seen[t][l] = 0
  BY <1>1
<1>9. BufferTyped
  BY <1>1, <1>3, <1>4, <1>5, <1>6 DEF BufferTyped
<1>10. \A h \in Hosts : Live(h) = {} /\ InSlots(h, Live(h)) = {} /\ Batched(h) = {}
  BY <1>5, <1>6, <1>7 DEF Live, InSlots, Batched, Holding
<1>11. RingShape
  <2>1. BatchNum \in Nat \ {0} /\ Wrap(0 + 0, BatchNum) = 0
    BY DataAssumption DEF Wrap
  <2> QED BY <1>6, <1>7, <1>10, <2>1 DEF RingShape
<1>12. AtEnd /\ LinesApart
  BY <1>2, <1>5, <1>6, <1>7, <1>10 DEF AtEnd, LinesApart
<1>13. OnlyLastMissed
  BY <1>4, <1>8 DEF OnlyLastMissed
<1>14. Forgotten
  <2>1. \A h \in Hosts : GivenTo(h) = {} /\ ~buf[h].eof
    BY <1>2, <1>5, <1>6, <1>7, <1>10 DEF GivenTo
  <2>2. Cardinality(AtEOF) = 0
    <3>1. AtEOF = {}
      BY <2>1 DEF AtEOF
    <3> QED BY <3>1, FS_EmptySet
  <2> QED BY <1>3, <2>1, <2>2 DEF Forgotten
<1>15. SlotsExact
  <2>1. \A h \in Hosts, l \in Samples : ~SeenOn(h, l)
    BY <1>8 DEF SeenOn, OfHost
  <2> QED BY <1>7, <1>10, <2>1 DEF SlotsExact, SeenLoaded, SlotsLoaded, SlotsApart, SlotsOrSeen
<1>16. DataSeen
  BY <1>2, <1>4, <1>8 DEF DataSeen
<1> QED BY <1>9, <1>11, <1>12, <1>13, <1>14, <1>15, <1>16 DEF BufferInv

\* The steps of the other two ways of reading do not happen in this one.
LEMMA OtherPaths ==
  ASSUME BufferInv, scn.path = "buffer"
  PROVE  /\ ~NextEpoch
         /\ \A t \in Threads :
              /\ ~StartDirect(t) /\ ~ReadRecord(t) /\ ~AskMaster(t)
              /\ ~StartLoad(t) /\ ~LoadLine(t) /\ ~LoadAsk(t) /\ ~LoadEnough(t)
              /\ ~StartWalk(t) /\ ~Walk(t) /\ ~EndWalk(t)
<1>1. \A t \in Threads : thread[t].pc \in ThreadPCs
  BY DEF BufferInv, BufferTyped, ThreadStates
<1>2. \A t \in Threads : thread[t].pc \notin {"read", "load", "loaded", "walk"}
  BY <1>1 DEF ThreadPCs
<1>3. ~NextEpoch /\ \A t \in Threads : ~StartDirect(t) /\ ~StartLoad(t)
  BY DEF NextEpoch, StartDirect, StartLoad
<1>4. \A t \in Threads : ~ReadRecord(t) /\ ~AskMaster(t)
  BY <1>2 DEF ReadRecord, AskMaster
<1>5. \A t \in Threads : ~LoadLine(t) /\ ~LoadAsk(t) /\ ~LoadEnough(t)
  BY <1>2 DEF LoadLine, LoadAsk, LoadEnough
<1>6. \A t \in Threads : ~StartWalk(t) /\ ~Walk(t) /\ ~EndWalk(t)
  BY <1>2 DEF StartWalk, Walk, EndWalk
<1> QED BY <1>3, <1>4, <1>5, <1>6

LEMMA ScenarioKept ==
  ASSUME Next
  PROVE  UNCHANGED scn
<1>1. CASE NextEpoch
  BY <1>1 DEF NextEpoch
<1>2. ASSUME NEW t \in Threads, ThreadStep(t) PROVE UNCHANGED scn
  BY <1>2 DEF ThreadStep, StartDirect, ReadRecord, AskMaster, InitBuffer, CheckEmpty, GetNothing,
     WaitForData, GetBatch, TellLoader, StartLoad, LoadLine, LoadAsk, LoadEnough, StartWalk,
     Walk, EndWalk
<1>3. ASSUME NEW h \in Hosts, LoaderStep(h) \/ Destroy(h) PROVE UNCHANGED scn
  BY <1>3 DEF LoaderStep, NewBatch, LoadRecord, LoadPiece, LoadFirst, StoreBatch, FindFull, Sleep,
     NotifyGet, LoadingFinished, Destroy
<1> QED BY <1>1, <1>2, <1>3 DEF Next

LEMMA StutterKept ==
  ASSUME BufferInv, UNCHANGED vars
  PROVE  BufferInv'
<1> USE DEF vars
<1>1. UNCHANGED <<scn, asg, thread, loader, buf, seen, loaded>>
  OBVIOUS
<1>2. CASE scn.path # "buffer"
  BY <1>1, <1>2 DEF BufferInv
<1>3. CASE scn.path = "buffer"
  <2>1. BufferTyped /\ AtEnd /\ LinesApart
    BY <1>3 DEF BufferInv
  <2> QED BY <1>1, <1>3, <2>1, ThreadsStay, LoadersStay, MovesKept
<1> QED BY <1>2, <1>3

LEMMA NextBufferInv ==
  ASSUME BufferInv, Next
  PROVE  BufferInv'
<1>1. CASE scn.path # "buffer"
  BY <1>1, ScenarioKept DEF BufferInv
<1>2. CASE scn.path = "buffer"
  <2>1. CASE NextEpoch
    BY <1>2, <2>1, OtherPaths
  <2>2. ASSUME NEW t \in Threads, ThreadStep(t) PROVE BufferInv'
    <3>1. \/ InitBuffer(t) \/ CheckEmpty(t) \/ GetNothing(t) \/ WaitForData(t)
          \/ GetBatch(t) \/ TellLoader(t)
      BY <1>2, <2>2, OtherPaths DEF ThreadStep
    <3> QED BY <1>2, <3>1, InitBufferStep, CheckEmptyStep, GetNothingStep, WaitForDataStep,
               GetBatchStep, TellLoaderStep
  <2>3. ASSUME NEW h \in Hosts, LoaderStep(h) PROVE BufferInv'
    BY <1>2, <2>3, NewBatchStep, LoadRecordStep, LoadPieceStep, LoadFirstStep, StoreBatchStep,
       FindFullStep, SleepStep, NotifyGetStep, LoadingFinishedStep DEF LoaderStep
  <2>4. ASSUME NEW h \in Hosts, Destroy(h) PROVE BufferInv'
    BY <1>2, <2>4, DestroyStep
  <2> QED BY <2>1, <2>2, <2>3, <2>4 DEF Next
<1> QED BY <1>1, <1>2

\* The inductive invariant of the sample buffer (AsyncReadBuffer): its types, the
\* shape of the ring, and where a line is on its way from the assigner to a thread.
THEOREM BufferInvariance == Spec => []BufferInv
<1>1. BufferInv /\ [Next]_vars => BufferInv'
  BY NextBufferInv, StutterKept
<1> QED BY <1>1, InitBufferInv, PTL DEF Spec

LEMMA InvGivesSound == BufferInv => BufferSound
<1> SUFFICES ASSUME BufferInv PROVE RingExact /\ OnlyLastMissed
  BY DEF BufferSound
<1>1. CASE scn.path # "buffer"
  BY <1>1 DEF RingExact, OnlyLastMissed
<1>2. CASE scn.path = "buffer"
  <2>1. /\ BufferTyped /\ RingShape /\ OnlyLastMissed /\ SlotsExact
    BY <1>2 DEF BufferInv
  <2>2. SeenTyped
    BY <2>1 DEF BufferTyped, SeenTyped
  <2>3. ASSUME NEW h \in Hosts, buf[h].num # 0
        PROVE  /\ buf[h].count <= BatchNum
               /\ buf[h].end = Wrap(buf[h].start + buf[h].count, BatchNum)
               /\ \A k \in Live(h) : buf[h].slots[k] # <<>>
    BY <2>1, <2>3 DEF RingShape
  <2>4. ASSUME NEW h \in Hosts, buf[h].num # 0, NEW l \in loaded[h] \cap Samples
        PROVE  (l \in InSlots(h, Live(h))) # (SeenBy(OfHost(h), l) > 0)
    <3>1. l \in InSlots(h, Live(h)) <=> ~SeenOn(h, l)
      BY <2>1, <2>4 DEF SlotsExact, SlotsOrSeen
    <3>2. SeenBy(OfHost(h), l) > 0 <=> SeenOn(h, l)
      <4>1. OfHost(h) \in SUBSET Threads
        BY DEF OfHost
      <4> QED BY <2>2, <4>1, SeenBySome DEF SeenOn
    <3>3. l \in InSlots(h, Live(h)) <=> ~(SeenBy(OfHost(h), l) > 0)
      BY <3>1, <3>2
    <3>4. CASE l \in InSlots(h, Live(h))
      BY <3>3, <3>4
    <3>5. CASE l \notin InSlots(h, Live(h))
      BY <3>3, <3>5
    <3> QED BY <3>4, <3>5
  <2> QED BY <2>1, <2>3, <2>4 DEF RingExact
<1> QED BY <1>1, <1>2

\* The buffer between the loading thread of a process and its training threads
\* neither loses nor repeats a batch while it lives: what was put into the ring is
\* in a slot between start_ and end_ or was given to a thread, never both, and a
\* thread that was told "no more data" leaves at most the last batch behind.
THEOREM BufferIsSound == Spec => []BufferSound
BY BufferInvariance, InvGivesSound, PTL
=============================================================================
