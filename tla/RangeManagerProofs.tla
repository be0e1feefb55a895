-------------------------- MODULE RangeManagerProofs --------------------------
(***************************************************************************)
(* Proof that the ranges of a RangeManager divide the keys and the chunks  *)
(* of a store, for keys of any width, any number of servers and any size   *)
(* of chunks.                                                              *)
(***************************************************************************)
EXTENDS RangeManager, WellFoundedInduction, NaturalsInduction, SequenceTheorems, TLAPS

------------------------------------------------------------------------------
(* Arithmetic.                                                             *)

\* A non-empty set of naturals has a least element.
LEMMA Least ==
  ASSUME NEW S \in SUBSET Nat, S # {}
  PROVE  \E a \in S : \A b \in S : a <= b
<1>1. PICK a \in S : \A b \in S : ~(<<b, a>> \in OpToRel(<, Nat))
  BY NatLessThanWellFounded, WFMin
<1>2. \A b \in S : ~(b < a)
  BY <1>1 DEF OpToRel
<1> QED BY <1>2

LEMMA MinOfTwo ==
  ASSUME NEW a \in Int, NEW b \in Int
  PROVE  Min({a, b}) = IF a <= b THEN a ELSE b
<1> DEFINE m == IF a <= b THEN a ELSE b
<1>1. m \in {a, b} /\ \A y \in {a, b} : m <= y
  OBVIOUS
<1>2. \A x \in {a, b} : (\A y \in {a, b} : x <= y) => x = m
  OBVIOUS
<1> HIDE DEF m
<1>3. Min({a, b}) = m
  BY <1>1, <1>2, Zenon DEF Min
<1> QED BY <1>3 DEF m

\* Division as the code's integer types do it.
LEMMA DivMod ==
  ASSUME NEW a \in Nat, NEW d \in Nat \ {0}
  PROVE  a \div d \in Nat /\ a % d \in 0 .. d - 1 /\ a = (a \div d) * d + (a % d)
<1>1. PICK q \in Nat : q = a \div d
  OBVIOUS
<1>2. PICK r \in 0 .. d - 1 : r = a % d
  OBVIOUS
<1>3. r = a - d * q
  BY <1>1, <1>2
<1>4. a = q * d + r
  BY <1>3
<1> QED BY <1>1, <1>2, <1>4, Zenon

LEMMA MulMono ==
  ASSUME NEW a \in Nat, NEW b \in Nat, NEW c \in Nat, a <= b
  PROVE  a * c \in Nat /\ b * c \in Nat /\ a * c <= b * c
<1>1. PICK k \in Nat : b = a + k
  <2>1. b - a \in Nat /\ b = a + (b - a)
    OBVIOUS
  <2> QED BY <2>1
<1>2. b * c = a * c + k * c
  BY <1>1
<1>3. a * c \in Nat /\ k * c \in Nat
  BY <1>1
<1> QED BY <1>2, <1>3

LEMMA DivUnique ==
  ASSUME NEW q \in Nat, NEW d \in Nat \ {0}, NEW r \in 0 .. d - 1
  PROVE  (q * d + r) \div d = q
<1> DEFINE a == q * d + r
           p == a \div d
           s == a % d
<1>1. a \in Nat
  OBVIOUS
<1>2. p \in Nat /\ s \in 0 .. d - 1 /\ a = p * d + s
  BY <1>1, DivMod
<1> HIDE DEF p, s
<1>3. ~(p + 1 <= q)
  <2> SUFFICES ASSUME p + 1 <= q PROVE FALSE
    OBVIOUS
  <2>1. (p + 1) * d <= q * d
    BY <1>2, MulMono
  <2>2. (p + 1) * d = p * d + d
    BY <1>2
  <2>3. p * d \in Nat /\ q * d \in Nat
    BY <1>2
  <2> QED BY <1>2, <2>1, <2>2, <2>3
<1>4. ~(q + 1 <= p)
  <2> SUFFICES ASSUME q + 1 <= p PROVE FALSE
    OBVIOUS
  <2>1. (q + 1) * d <= p * d
    BY <1>2, MulMono
  <2>2. (q + 1) * d = q * d + d
    OBVIOUS
  <2>3. p * d \in Nat /\ q * d \in Nat
    BY <1>2
  <2> QED BY <1>2, <2>1, <2>2, <2>3
<1>5. p = q
  BY <1>2, <1>3, <1>4
<1> QED BY <1>5 DEF p

------------------------------------------------------------------------------
(* The number of chunks.                                                   *)

\* The last chunk begins below max_key and reaches it.
LEMMA ChunkNumCovers ==
  ASSUME NEW max_key \in Nat \ {0}, NEW chunk_size \in Nat \ {0}
  PROVE  LET n == ChunkNum(max_key, chunk_size)
         IN  /\ n \in Nat \ {0}
             /\ (n - 1) * chunk_size < max_key
             /\ max_key <= n * chunk_size
<1> DEFINE q == (max_key - 1) \div chunk_size
           r == (max_key - 1) % chunk_size
<1>1. q \in Nat /\ r \in 0 .. chunk_size - 1 /\ max_key - 1 = q * chunk_size + r
  <2>1. max_key - 1 \in Nat
    OBVIOUS
  <2> HIDE DEF q, r
  <2> QED BY <2>1, DivMod DEF q, r
<1>2. ChunkNum(max_key, chunk_size) = q + 1
  BY DEF ChunkNum
<1> HIDE DEF q, r
<1>3. (q + 1) * chunk_size = q * chunk_size + chunk_size /\ q * chunk_size \in Nat
  BY <1>1
<1>4. q + 1 - 1 = q /\ q + 1 \in Nat \ {0}
  BY <1>1
<1> QED BY <1>1, <1>2, <1>3, <1>4

------------------------------------------------------------------------------
(* SetMaxKeyAndChunkSize's chunk ranges in closed form.                    *)

\* Where the i-th of n servers begins.
Share(n, chunk_num, i) ==
  (i - 1) * (chunk_num \div n)
    + (IF i - 1 <= chunk_num % n THEN i - 1 ELSE chunk_num % n)

LEMMA Shares ==
  ASSUME NEW n \in Nat \ {0}, NEW chunk_num \in Nat
  PROVE  /\ Share(n, chunk_num, 1) = 0
         /\ Share(n, chunk_num, n + 1) = chunk_num
         /\ \A i \in 1 .. n + 1 : Share(n, chunk_num, i) \in Nat
         /\ \A i, j \in 1 .. n + 1 :
              i <= j => Share(n, chunk_num, i) <= Share(n, chunk_num, j)
         /\ ChunkRanges(n, chunk_num) =
              [i \in 1 .. n |-> Interval(Share(n, chunk_num, i), Share(n, chunk_num, i + 1))]
<1> DEFINE base == chunk_num \div n
           remain == chunk_num % n
           some(i) == IF i - 1 <= remain THEN i - 1 ELSE remain
<1>1. base \in Nat /\ remain \in 0 .. n - 1 /\ chunk_num = base * n + remain
  BY DivMod
<1>2. \A i : Share(n, chunk_num, i) = (i - 1) * base + some(i)
  BY DEF Share
<1>3. ChunkRanges(n, chunk_num) =
        [i \in 1 .. n |->
           IF i <= remain THEN Interval((i - 1) * (base + 1), i * (base + 1))
           ELSE IF i < n
             THEN Interval(remain * (base + 1) + (i - 1 - remain) * base,
                           remain * (base + 1) + (i - remain) * base)
             ELSE Interval(remain * (base + 1) + (n - remain - 1) * base, chunk_num)]
  BY DEF ChunkRanges
<1> HIDE DEF base, remain
<1>4. \A i \in 1 .. n + 1 : some(i) \in Nat
  BY <1>1
<1>5. \A i, j \in 1 .. n + 1 : i <= j => some(i) <= some(j)
  BY <1>1
<1>6. some(1) = 0 /\ some(n + 1) = remain
  BY <1>1
<1>7. \A i \in 1 .. n + 1 : (i - 1) * base \in Nat
  BY <1>1
<1>8. \A i, j \in 1 .. n + 1 : i <= j => (i - 1) * base <= (j - 1) * base
  <2> SUFFICES ASSUME NEW i \in 1 .. n + 1, NEW j \in 1 .. n + 1, i <= j
               PROVE  (i - 1) * base <= (j - 1) * base
    OBVIOUS
  <2>1. i - 1 \in Nat /\ j - 1 \in Nat /\ i - 1 <= j - 1
    OBVIOUS
  <2> QED BY <1>1, <2>1, MulMono
<1>9. Share(n, chunk_num, 1) = 0
  <2>1. (1 - 1) * base = 0
    BY <1>1
  <2> QED BY <1>2, <1>6, <2>1
<1>10. Share(n, chunk_num, n + 1) = chunk_num
  <2>1. (n + 1 - 1) * base = base * n
    BY <1>1
  <2> QED BY <1>1, <1>2, <1>6, <2>1
<1>11. \A i \in 1 .. n + 1 : Share(n, chunk_num, i) \in Nat
  <2> HIDE DEF some
  <2> QED BY <1>2, <1>4, <1>7
<1>12. \A i, j \in 1 .. n + 1 : i <= j => Share(n, chunk_num, i) <= Share(n, chunk_num, j)
  <2> SUFFICES ASSUME NEW i \in 1 .. n + 1, NEW j \in 1 .. n + 1, i <= j
               PROVE  Share(n, chunk_num, i) <= Share(n, chunk_num, j)
    OBVIOUS
  <2> PICK a, b, c, d \in Nat : a = (i - 1) * base /\ b = (j - 1) * base
                             /\ c = some(i) /\ d = some(j)
    BY <1>4, <1>7
  <2> HIDE DEF some
  <2>1. a <= b /\ c <= d
    BY <1>5, <1>8
  <2>2. Share(n, chunk_num, i) = a + c /\ Share(n, chunk_num, j) = b + d
    BY <1>2
  <2> QED BY <2>1, <2>2
\* A server among the first `remain' begins after i - 1 larger shares, any
\* other one after all the larger shares and some smaller ones.
<1>13. ASSUME NEW i \in 1 .. n + 1
       PROVE  /\ i - 1 <= remain => Share(n, chunk_num, i) = (i - 1) * (base + 1)
              /\ i - 1 >= remain =>
                   Share(n, chunk_num, i) = remain * (base + 1) + (i - 1 - remain) * base
  <2>1. (i - 1) * (base + 1) = (i - 1) * base + (i - 1)
    BY <1>1
  <2>2. remain * (base + 1) = remain * base + remain
    BY <1>1
  <2>3. (i - 1 - remain) * base = (i - 1) * base - remain * base
    BY <1>1
  <2>4. (i - 1) * base \in Int /\ remain * base \in Int
    BY <1>1
  <2> QED BY <1>1, <1>2, <2>1, <2>2, <2>3, <2>4
<1>14. ASSUME NEW i \in 1 .. n
       PROVE  ChunkRanges(n, chunk_num)[i] =
                Interval(Share(n, chunk_num, i), Share(n, chunk_num, i + 1))
  <2>0. i \in 1 .. n + 1 /\ i + 1 \in 1 .. n + 1 /\ i + 1 - 1 = i /\ n \in Int
        /\ remain \in Int
    BY <1>1
  <2> HIDE DEF some
  <2>1. CASE i <= remain
    <3>1. Share(n, chunk_num, i) = (i - 1) * (base + 1)
      BY <1>13, <2>0, <2>1
    <3>2. Share(n, chunk_num, i + 1) = i * (base + 1)
      BY <1>13, <2>0, <2>1
    <3> QED BY <1>3, <2>1, <3>1, <3>2
  <2>2. CASE ~(i <= remain) /\ i < n
    <3>1. Share(n, chunk_num, i) = remain * (base + 1) + (i - 1 - remain) * base
      BY <1>13, <2>0, <2>2
    <3>2. Share(n, chunk_num, i + 1) = remain * (base + 1) + (i - remain) * base
      BY <1>13, <2>0, <2>2
    <3> QED BY <1>3, <2>2, <3>1, <3>2
  <2>3. CASE ~(i <= remain) /\ i = n
    <3>1. Share(n, chunk_num, i) = remain * (base + 1) + (n - remain - 1) * base
      <4>1. Share(n, chunk_num, i) = remain * (base + 1) + (i - 1 - remain) * base
        BY <1>13, <2>0, <2>3
      <4>2. i - 1 - remain = n - remain - 1
        BY <2>0, <2>3
      <4> QED BY <4>1, <4>2
    <3>2. Share(n, chunk_num, i + 1) = chunk_num
      BY <1>10, <2>3
    <3> QED BY <1>3, <2>3, <3>1, <3>2
  <2> QED BY <2>1, <2>2, <2>3
<1>15. ChunkRanges(n, chunk_num) =
         [i \in 1 .. n |-> ChunkRanges(n, chunk_num)[i]]
  BY <1>3
<1>16. ChunkRanges(n, chunk_num) =
        [i \in 1 .. n |-> Interval(Share(n, chunk_num, i), Share(n, chunk_num, i + 1))]
  BY <1>14, <1>15, Zenon
<1> QED BY <1>9, <1>10, <1>11, <1>12, <1>16

------------------------------------------------------------------------------
(* Where the servers begin does not wrap around, although where the last    *)
(* one ends may.                                                            *)

LEMMA NoWrap ==
  ASSUME NEW n \in 1 .. MaxServers, NEW max_key \in MaxKeys,
         NEW chunk_size \in 1 .. MaxChunkSize,
         NEW i \in 1 .. n
  PROVE  LET begin == Share(n, ChunkNum(max_key, chunk_size), i) * chunk_size
         IN  begin \in Nat /\ Word(begin) = begin
<1> DEFINE chunk_num == ChunkNum(max_key, chunk_size)
           base == chunk_num \div n
           remain == chunk_num % n
           at == Share(n, chunk_num, i)
<1>0. /\ n \in Nat \ {0} /\ max_key \in Nat \ {0} /\ chunk_size \in Nat \ {0}
      /\ MaxServers \in Nat \ {0} /\ MaxChunkSize \in Nat \ {0}
      /\ 2^Width \in Nat \ {0} /\ MaxServers * MaxChunkSize <= 2^Width
      /\ max_key < 2^Width /\ chunk_size <= MaxChunkSize /\ n <= MaxServers
  BY RangeAssumption DEF MaxKeys
<1>1. chunk_num \in Nat \ {0} /\ (chunk_num - 1) * chunk_size < max_key
  BY <1>0, ChunkNumCovers
<1> HIDE DEF chunk_num
<1>2. base \in Nat /\ remain \in 0 .. n - 1 /\ chunk_num = base * n + remain
  BY <1>0, <1>1, DivMod
<1>3. at \in Nat /\ at <= Share(n, chunk_num, n) /\ Share(n, chunk_num, n) <= chunk_num
      /\ Share(n, chunk_num, n) \in Nat
  <2>1. i \in 1 .. n + 1 /\ n \in 1 .. n + 1 /\ n + 1 \in 1 .. n + 1 /\ i <= n /\ n <= n + 1
    BY <1>0
  <2>2. /\ \A k \in 1 .. n + 1 : Share(n, chunk_num, k) \in Nat
        /\ \A k, l \in 1 .. n + 1 :
             k <= l => Share(n, chunk_num, k) <= Share(n, chunk_num, l)
        /\ Share(n, chunk_num, n + 1) = chunk_num
    BY <1>0, <1>1, Shares
  <2> QED BY <2>1, <2>2
<1>4. Share(n, chunk_num, n) = (n - 1) * base + remain
  <2>1. n - 1 >= remain /\ (n - 1 <= remain => n - 1 = remain)
    BY <1>2, <1>0
  <2>2. Share(n, chunk_num, n) = (n - 1) * base + (IF n - 1 <= remain THEN n - 1 ELSE remain)
    BY DEF Share
  <2> HIDE DEF base, remain
  <2> QED BY <2>1, <2>2, Zenon
<1> HIDE DEF base, remain, at
<1>5. at * chunk_size \in Nat /\ at * chunk_size < 2^Width
  <2>1. CASE base = 0
    <3>1. chunk_num = remain
      BY <1>0, <1>2, <2>1
    <3>2. at <= MaxServers - 1 /\ MaxServers - 1 \in Nat
      BY <1>0, <1>2, <1>3, <3>1
    <3>3. at * chunk_size <= (MaxServers - 1) * chunk_size /\ at * chunk_size \in Nat
          /\ (MaxServers - 1) * chunk_size \in Nat
      BY <1>0, <1>3, <3>2, MulMono
    <3>4. chunk_size * (MaxServers - 1) <= MaxChunkSize * (MaxServers - 1)
          /\ MaxChunkSize * (MaxServers - 1) \in Nat
      BY <1>0, <3>2, MulMono
    <3>5. MaxChunkSize * (MaxServers - 1) = MaxServers * MaxChunkSize - MaxChunkSize
          /\ (MaxServers - 1) * chunk_size = chunk_size * (MaxServers - 1)
          /\ MaxServers * MaxChunkSize \in Int
      BY <1>0
    <3> QED BY <1>0, <3>3, <3>4, <3>5
  <2>2. CASE base # 0
    <3>1. (n - 1) * base = base * n - base /\ base * n \in Int
      BY <1>0, <1>2
    <3>2. at <= chunk_num - 1 /\ chunk_num - 1 \in Nat
      BY <1>1, <1>2, <1>3, <1>4, <2>2, <3>1
    <3>3. at * chunk_size <= (chunk_num - 1) * chunk_size /\ at * chunk_size \in Nat
          /\ (chunk_num - 1) * chunk_size \in Nat
      BY <1>0, <1>3, <3>2, MulMono
    <3> QED BY <1>0, <1>1, <3>3
  <2> QED BY <2>1, <2>2
<1>6. PICK a, m \in Nat : a = at * chunk_size /\ m = 2^Width
  BY <1>0, <1>5
<1>7. a < m
  BY <1>5, <1>6
<1>8. a % m = a
  BY <1>7
<1>9. at * chunk_size \in Nat /\ (at * chunk_size) % 2^Width = at * chunk_size
  BY <1>6, <1>8, Zenon
<1> QED BY <1>9 DEF at, chunk_num, Word

------------------------------------------------------------------------------
(* The pass over the ranges in closed form.                                 *)

Reaching(b, n, max_key) ==
  /\ b \in [1 .. n + 1 -> Nat] /\ b[n + 1] >= max_key
  /\ \A i, j \in 1 .. n + 1 : i <= j => b[i] <= b[j]

BeginningAt(b, n, ranges) ==
  /\ Len(ranges) = n /\ ranges[n].begin = b[n]
  /\ \A i \in 1 .. n - 1 : ranges[i] = Interval(b[i], b[i + 1])

CutAt(b, n, max_key) ==
  [i \in 1 .. n |-> Interval(Min({b[i], max_key}), Min({b[i + 1], max_key}))]

\* Key ranges that begin at b[1] <= b[2] <= ... and reach max_key are cut at
\* max_key; the pass stops at the last range that ends no later, and rightly
\* so: all ranges before it do.
LEMMA ClippedAtMaxKey ==
  ASSUME NEW n \in Nat \ {0}, NEW max_key \in Nat, NEW b, NEW ranges,
         Reaching(b, n, max_key), BeginningAt(b, n, ranges)
  PROVE  Clipped(ranges, max_key) = CutAt(b, n, max_key)
<1> DEFINE cut(x) == IF x <= max_key THEN x ELSE max_key
           last == [range |-> LastClipped(ranges[n], max_key), stop |-> FALSE]
           before(i, next) ==
             IF ~next.stop /\ ranges[i].end > next.range.begin
               THEN [range |-> CutBack(ranges[i], next.range), stop |-> FALSE]
               ELSE [range |-> ranges[i], stop |-> TRUE]
           Pass(f) == [i \in 1 .. n |-> IF i = n THEN last ELSE before(i, f[i + 1])]
           g == [i \in 1 .. n |-> [range |-> Interval(cut(b[i]), cut(b[i + 1])),
                                   stop |-> i < n /\ b[i + 1] <= max_key]]
           pass == CHOOSE f : f = Pass(f)
<1> USE DEF Reaching, BeginningAt
<1>1. Clipped(ranges, max_key) = [i \in 1 .. n |-> pass[i].range]
  BY DEF Clipped
<1>2. last = g[n]
  <2>1. n \in 1 .. n /\ n \in 1 .. n + 1 /\ n + 1 \in 1 .. n + 1
    OBVIOUS
  <2>2. b[n] \in Nat /\ b[n + 1] \in Nat
    BY <2>1
  <2>3. cut(b[n + 1]) = max_key
    BY <2>2
  <2>4. LastClipped(ranges[n], max_key) = Interval(cut(b[n]), max_key)
    BY <2>2 DEF LastClipped, Interval
  <2>5. g[n] = [range |-> Interval(cut(b[n]), cut(b[n + 1])),
                stop |-> n < n /\ b[n + 1] <= max_key]
    BY <2>1
  <2>6. ~(n < n)
    OBVIOUS
  <2> HIDE DEF g, cut
  <2> QED BY <2>3, <2>4, <2>5, <2>6
<1>3. \A i \in 1 .. n - 1 : before(i, g[i + 1]) = g[i]
  <2> SUFFICES ASSUME NEW i \in 1 .. n - 1 PROVE before(i, g[i + 1]) = g[i]
    OBVIOUS
  <2>1. /\ i \in 1 .. n /\ i + 1 \in 1 .. n /\ i \in 1 .. n + 1 /\ i + 1 \in 1 .. n + 1
        /\ i + 1 + 1 \in 1 .. n + 1 /\ i < n
    OBVIOUS
  <2> PICK x, y, z \in Nat : x = b[i] /\ y = b[i + 1] /\ z = b[i + 1 + 1]
    BY <2>1
  <2>2. x <= y /\ y <= z
    BY <2>1
  <2>3. ranges[i] = Interval(x, y)
    OBVIOUS
  <2>4. g[i + 1] = [range |-> Interval(cut(y), cut(z)), stop |-> i + 1 < n /\ z <= max_key]
    BY <2>1
  <2>5. g[i] = [range |-> Interval(cut(x), cut(y)), stop |-> i < n /\ y <= max_key]
    BY <2>1
  <2>6. (i < n /\ y <= max_key) = (y <= max_key)
    BY <2>1
  <2> HIDE DEF g
  <2>7. CASE y <= max_key
    <3>1. cut(y) = y /\ cut(x) = x
      BY <2>2, <2>7
    <3>2. before(i, g[i + 1]) = [range |-> Interval(x, y), stop |-> TRUE]
      <4>1. g[i + 1].range.begin = y /\ ranges[i].end = y
        BY <2>3, <2>4, <3>1 DEF Interval
      <4>2. ~(ranges[i].end > g[i + 1].range.begin)
        BY <4>1
      <4> QED BY <2>3, <4>2
    <3> QED BY <2>1, <2>5, <2>7, <3>1, <3>2
  <2>8. CASE ~(y <= max_key)
    <3>1. cut(y) = max_key /\ ~(z <= max_key)
      BY <2>2, <2>8
    <3>2. ~g[i + 1].stop /\ g[i + 1].range.begin = max_key /\ ranges[i].end = y
          /\ ranges[i].begin = x
      <4>1. g[i + 1] = [range |-> Interval(max_key, cut(z)), stop |-> FALSE]
        BY <2>4, <3>1
      <4> QED BY <2>3, <4>1 DEF Interval
    <3>3. before(i, g[i + 1]) = [range |-> CutBack(ranges[i], g[i + 1].range), stop |-> FALSE]
      BY <2>8, <3>2
    <3>4. CutBack(ranges[i], g[i + 1].range) = Interval(cut(x), max_key)
      BY <3>2 DEF CutBack, Interval
    <3> QED BY <2>5, <2>8, <3>1, <3>3, <3>4
  <2> QED BY <2>7, <2>8
<1> HIDE DEF last, before
<1>4. g = Pass(g)
  <2>1. \A i \in 1 .. n : i = n \/ i \in 1 .. n - 1
    OBVIOUS
  <2>2. g = [i \in 1 .. n |-> g[i]]
    OBVIOUS
  <2> HIDE DEF g
  <2>3. \A i \in 1 .. n : g[i] = IF i = n THEN last ELSE before(i, g[i + 1])
    BY <1>2, <1>3, <2>1
  <2> QED BY <2>2, <2>3, Zenon
<1>5. pass = Pass(pass)
  <2> HIDE DEF Pass, g
  <2> QED BY <1>4, Zenon
<1> HIDE DEF pass
\* Counting from the last range, there is no first one where they differ.
<1>6. \A k \in 0 .. n - 1 : pass[n - k] = g[n - k]
  <2> DEFINE S == {k \in 0 .. n - 1 : pass[n - k] # g[n - k]}
  <2> SUFFICES ASSUME S # {} PROVE FALSE
    OBVIOUS
  <2>1. PICK k \in S : \A m \in S : k <= m
    <3>1. S \in SUBSET Nat
      OBVIOUS
    <3> HIDE DEF S
    <3> QED BY <3>1, Least
  <2>2. k \in 0 .. n - 1 /\ n - k \in 1 .. n /\ n \in 1 .. n
    OBVIOUS
  <2>3. \A i \in 1 .. n : pass[i] = IF i = n THEN last ELSE before(i, pass[i + 1])
    BY <1>5
  <2>4. CASE k = 0
    <3>1. n - k = n
      BY <2>4
    <3> QED BY <1>2, <2>2, <2>3, <3>1
  <2>5. CASE k # 0
    <3>1. k - 1 \in 0 .. n - 1 /\ ~(k <= k - 1) /\ n - k \in 1 .. n - 1 /\ n - k # n
          /\ n - k + 1 = n - (k - 1)
      BY <2>2, <2>5
    <3>2. pass[n - (k - 1)] = g[n - (k - 1)]
      BY <2>1, <3>1
    <3>3. pass[n - k + 1] = g[n - k + 1]
      BY <3>1, <3>2
    <3>4. pass[n - k] = before(n - k, pass[n - k + 1])
      BY <2>2, <2>3, <3>1
    <3>5. before(n - k, g[n - k + 1]) = g[n - k]
      BY <1>3, <3>1
    <3>6. pass[n - k] # g[n - k]
      OBVIOUS
    <3> HIDE DEF g, S
    <3> QED BY <3>3, <3>4, <3>5, <3>6
  <2> QED BY <2>4, <2>5
<1>7. \A i \in 1 .. n : pass[i] = g[i]
  <2>1. \A i \in 1 .. n : n - i \in 0 .. n - 1 /\ n - (n - i) = i
    OBVIOUS
  <2> HIDE DEF g
  <2> QED BY <1>6, <2>1
<1>8. \A i \in 1 .. n : pass[i].range = Interval(Min({b[i], max_key}), Min({b[i + 1], max_key}))
  <2> SUFFICES ASSUME NEW i \in 1 .. n
               PROVE  pass[i].range = Interval(Min({b[i], max_key}), Min({b[i + 1], max_key}))
    OBVIOUS
  <2>1. i \in 1 .. n + 1 /\ i + 1 \in 1 .. n + 1
    OBVIOUS
  <2>2. b[i] \in Int /\ b[i + 1] \in Int /\ max_key \in Int
    BY <2>1
  <2>3. Min({b[i], max_key}) = cut(b[i]) /\ Min({b[i + 1], max_key}) = cut(b[i + 1])
    BY <2>2, MinOfTwo
  <2>4. g[i].range = Interval(cut(b[i]), cut(b[i + 1]))
    OBVIOUS
  <2> HIDE DEF g, cut
  <2> QED BY <1>7, <2>3, <2>4
<1> QED BY <1>1, <1>8, Zenon DEF CutAt

------------------------------------------------------------------------------
(* Both ways of setting a store up establish the invariant.                 *)

LEMMA Monotone ==
  ASSUME NEW n \in Nat, NEW b \in [1 .. n -> Nat],
         \A i \in 1 .. n - 1 : b[i] <= b[i + 1]
  PROVE  \A i, j \in 1 .. n : i <= j => b[i] <= b[j]
<1> SUFFICES ASSUME NEW i \in 1 .. n PROVE \A j \in 1 .. n : i <= j => b[i] <= b[j]
  OBVIOUS
<1> DEFINE S == {j \in i .. n : ~(b[i] <= b[j])}
<1>1. CASE S = {}
  <2> SUFFICES ASSUME NEW j \in 1 .. n, i <= j PROVE b[i] <= b[j]
    OBVIOUS
  <2>1. j \in i .. n
    OBVIOUS
  <2> QED BY <1>1, <2>1
<1>2. CASE S # {}
  <2>1. S \in SUBSET Nat
    OBVIOUS
  <2>2. PICK j \in S : \A k \in S : j <= k
    <3> HIDE DEF S
    <3> QED BY <1>2, <2>1, Least
  <2>3. j \in i .. n /\ ~(b[i] <= b[j]) /\ j # i
    BY <2>2
  <2>4. j - 1 \in i .. n /\ j - 1 \in 1 .. n - 1 /\ j - 1 + 1 = j /\ ~(j <= j - 1)
        /\ j \in 1 .. n /\ j - 1 \in 1 .. n
    BY <2>3
  <2>5. b[i] <= b[j - 1]
    BY <2>2, <2>4
  <2>6. b[j - 1] <= b[j]
    BY <2>4
  <2>7. b[i] \in Nat /\ b[j - 1] \in Nat /\ b[j] \in Nat
    BY <2>4
  <2> QED BY <2>3, <2>5, <2>6, <2>7
<1> QED BY <1>1, <1>2

LEMMA DividedBy ==
  ASSUME NEW max_key \in MaxKeys, NEW chunk_size \in 1 .. MaxChunkSize,
         num_servers_ \in 1 .. MaxServers,
         NEW b \in [1 .. num_servers_ + 1 -> 0 .. ChunkNum(max_key, chunk_size)],
         b[1] = 0, b[num_servers_ + 1] = ChunkNum(max_key, chunk_size),
         \A i, j \in 1 .. num_servers_ + 1 : i <= j => b[i] <= b[j],
         UNCHANGED num_servers_,
         max_key_' = max_key, chunk_size_' = chunk_size,
         chunk_num_' = ChunkNum(max_key, chunk_size),
         server_chunk_ranges_' = [i \in 1 .. num_servers_ |-> Interval(b[i], b[i + 1])],
         server_key_ranges_' =
           [i \in 1 .. num_servers_ |->
              Interval(Min({b[i] * chunk_size, max_key}), Min({b[i + 1] * chunk_size, max_key}))]
  PROVE  Inv'
<1> PICK n \in Nat \ {0} : n = num_servers_
  BY RangeAssumption
<1> DEFINE chunk_num == ChunkNum(max_key, chunk_size)
<1>1. \A i \in 1 .. n + 1 : Begins(i)' = b[i]
  <2> SUFFICES ASSUME NEW i \in 1 .. n + 1 PROVE Begins(i)' = b[i]
    OBVIOUS
  <2>1. Begins(i)' = IF i <= n THEN server_chunk_ranges_'[i].begin ELSE chunk_num
    BY DEF Begins
  <2>2. CASE i <= n
    <3>1. i \in 1 .. n
      BY <2>2
    <3>2. server_chunk_ranges_'[i].begin = b[i]
      BY <3>1 DEF Interval
    <3> QED BY <2>1, <2>2, <3>2
  <2>3. CASE ~(i <= n)
    <3>1. i = n + 1
      BY <2>3
    <3> QED BY <2>1, <2>3, <3>1
  <2> QED BY <2>2, <2>3
<1>2. \A i \in 1 .. n : i \in 1 .. n + 1 /\ i + 1 \in 1 .. n + 1
  OBVIOUS
<1>3. 1 \in 1 .. n + 1
  OBVIOUS
<1> HIDE DEF chunk_num
<1>4. Consecutive'
  <2>1. Begins(1)' = 0
    BY <1>1, <1>3
  <2>2. \A i \in 1 .. n + 1 : Begins(i)' \in 0 .. chunk_num
    BY <1>1 DEF chunk_num
  <2>3. \A i, j \in 1 .. n + 1 : i <= j => Begins(i)' <= Begins(j)'
    BY <1>1
  <2> QED BY <2>1, <2>2, <2>3 DEF Consecutive, chunk_num
<1>5. server_chunk_ranges_' = [i \in AllServers |-> Interval(Begins(i), Begins(i + 1))]'
  <2>1. \A i \in 1 .. n : Interval(Begins(i), Begins(i + 1))' = Interval(b[i], b[i + 1])
    BY <1>1, <1>2 DEF Interval
  <2> QED BY <2>1 DEF AllServers
<1>6. server_key_ranges_' =
        [i \in AllServers |-> Interval(UpToMaxKey(Begins(i) * chunk_size_),
                                       UpToMaxKey(Begins(i + 1) * chunk_size_))]'
  <2>1. \A i \in 1 .. n : Interval(UpToMaxKey(Begins(i) * chunk_size_),
                                   UpToMaxKey(Begins(i + 1) * chunk_size_))'
                          = Interval(Min({b[i] * chunk_size, max_key}),
                                     Min({b[i + 1] * chunk_size, max_key}))
    BY <1>1, <1>2 DEF Interval, UpToMaxKey
  <2> QED BY <2>1 DEF AllServers
<1>7. max_key \in 0 .. 2^Width - 1
  BY RangeAssumption DEF MaxKeys
<1> QED BY <1>4, <1>5, <1>6, <1>7 DEF Inv, Divided

\* The largest keys, whose chunks' ends wrap around, and fewer chunks than
\* servers included.
LEMMA SetMaxKeyAndChunkSizeStep ==
  ASSUME Inv, NEW max_key \in MaxKeys, NEW chunk_size \in 1 .. MaxChunkSize,
         SetMaxKeyAndChunkSize(max_key, chunk_size)
  PROVE  Inv'
<1> PICK n \in 1 .. MaxServers : n = num_servers_
  BY DEF Inv, SetMaxKeyAndChunkSize
<1> PICK chunk_num : chunk_num = ChunkNum(max_key, chunk_size)
  OBVIOUS
<1> DEFINE at(i) == Share(n, chunk_num, i)
           b == [i \in 1 .. n + 1 |-> at(i)]
           keys == [i \in 1 .. n + 1 |-> at(i) * chunk_size]
           ranges == [i \in 1 .. n |-> Interval(Word(at(i) * chunk_size),
                                                Word(at(i + 1) * chunk_size))]
<1>1. n \in Nat \ {0} /\ max_key \in Nat \ {0} /\ chunk_size \in Nat \ {0}
  BY RangeAssumption DEF MaxKeys
<1>2. chunk_num \in Nat \ {0} /\ max_key <= chunk_num * chunk_size
  BY <1>1, ChunkNumCovers
<1>3. /\ at(1) = 0 /\ at(n + 1) = chunk_num
      /\ \A i \in 1 .. n + 1 : at(i) \in Nat
      /\ \A i, j \in 1 .. n + 1 : i <= j => at(i) <= at(j)
      /\ ChunkRanges(n, chunk_num) = [i \in 1 .. n |-> Interval(at(i), at(i + 1))]
  BY <1>1, <1>2, Shares
<1>4. \A i \in 1 .. n : Word(at(i) * chunk_size) = at(i) * chunk_size
  BY NoWrap
<1> HIDE DEF at
<1>5. /\ 1 \in 1 .. n + 1 /\ n + 1 \in 1 .. n + 1
      /\ \A i \in 1 .. n + 1 : i <= n + 1
      /\ \A i \in 1 .. n : i \in 1 .. n + 1 /\ i + 1 \in 1 .. n + 1
      /\ \A i \in 1 .. n - 1 : i \in 1 .. n /\ i + 1 \in 1 .. n
      /\ n \in 1 .. n
  BY <1>1
<1>6. keys \in [1 .. n + 1 -> Nat]
  BY <1>1, <1>3
<1>7. keys[n + 1] >= max_key
  BY <1>2, <1>3, <1>5
<1>8. \A i, j \in 1 .. n + 1 : i <= j => keys[i] <= keys[j]
  <2> SUFFICES ASSUME NEW i \in 1 .. n + 1, NEW j \in 1 .. n + 1, i <= j
               PROVE  keys[i] <= keys[j]
    OBVIOUS
  <2>1. at(i) \in Nat /\ at(j) \in Nat /\ at(i) <= at(j)
    BY <1>3
  <2> QED BY <1>1, <2>1, MulMono
<1>9. Len(ranges) = n
  BY <1>1
<1>10. ranges[n].begin = keys[n]
  BY <1>4, <1>5 DEF Interval
<1>11. \A i \in 1 .. n - 1 : ranges[i] = Interval(keys[i], keys[i + 1])
  BY <1>4, <1>5
<1>12. Clipped(ranges, max_key) = CutAt(keys, n, max_key)
  <2>1. max_key \in Nat
    BY <1>1
  <2> HIDE DEF ranges, keys
  <2>2. Reaching(keys, n, max_key)
    BY <1>6, <1>7, <1>8 DEF Reaching
  <2>3. BeginningAt(keys, n, ranges)
    BY <1>9, <1>10, <1>11 DEF BeginningAt
  <2> QED BY <1>1, <2>1, <2>2, <2>3, ClippedAtMaxKey
<1>13. \A i \in 1 .. n + 1 : b[i] = at(i) /\ keys[i] = at(i) * chunk_size
  OBVIOUS
<1>14. b \in [1 .. n + 1 -> 0 .. chunk_num] /\ b[1] = 0 /\ b[n + 1] = chunk_num
       /\ \A i, j \in 1 .. n + 1 : i <= j => b[i] <= b[j]
  <2>1. \A i \in 1 .. n + 1 : at(i) \in 0 .. chunk_num
    BY <1>2, <1>3, <1>5
  <2> QED BY <1>3, <1>5, <2>1
<1>15. server_chunk_ranges_' = [i \in 1 .. n |-> Interval(b[i], b[i + 1])]
  <2>1. server_chunk_ranges_' = [i \in 1 .. n |-> Interval(at(i), at(i + 1))]
    BY <1>3 DEF SetMaxKeyAndChunkSize
  <2> HIDE DEF b
  <2> QED BY <1>5, <1>13, <2>1
<1>16. server_key_ranges_' =
         [i \in 1 .. n |-> Interval(Min({b[i] * chunk_size, max_key}),
                                    Min({b[i + 1] * chunk_size, max_key}))]
  <2>1. KeyRanges(ChunkRanges(n, chunk_num), chunk_size, max_key) = Clipped(ranges, max_key)
    <3>1. [i \in DOMAIN ChunkRanges(n, chunk_num) |->
             Interval(Word(ChunkRanges(n, chunk_num)[i].begin * chunk_size),
                      Word(ChunkRanges(n, chunk_num)[i].end * chunk_size))] = ranges
      BY <1>3 DEF Interval
    <3> QED BY <3>1 DEF KeyRanges
  <2>2. server_key_ranges_' = KeyRanges(ChunkRanges(n, chunk_num), chunk_size, max_key)
    BY DEF SetMaxKeyAndChunkSize
  <2> HIDE DEF b, keys, ranges
  <2>3. \A i \in 1 .. n : keys[i] = b[i] * chunk_size /\ keys[i + 1] = b[i + 1] * chunk_size
    BY <1>5, <1>13
  <2> QED BY <1>12, <2>1, <2>2, <2>3 DEF CutAt
<1>17. /\ max_key_' = max_key /\ chunk_size_' = chunk_size /\ chunk_num_' = chunk_num
       /\ UNCHANGED num_servers_
  BY DEF SetMaxKeyAndChunkSize
<1> HIDE DEF b, keys, ranges
<1> QED BY <1>14, <1>15, <1>16, <1>17, DividedBy

LEMMA CustomizeRangesStep ==
  ASSUME Inv, NEW max_key \in MaxKeys, NEW chunk_size \in 1 .. MaxChunkSize,
         NEW bounds \in Bounds(num_servers_, ChunkNum(max_key, chunk_size)),
         CustomizeRanges(max_key, chunk_size, bounds)
  PROVE  Inv'
<1> PICK n \in 1 .. MaxServers : n = num_servers_
  BY DEF Inv, CustomizeRanges
<1> PICK chunk_num : chunk_num = ChunkNum(max_key, chunk_size)
  OBVIOUS
<1> DEFINE at(i) == IF i > n THEN chunk_num ELSE bounds[i]
           b == [i \in 1 .. n + 1 |-> at(i)]
<1>1. n \in Nat \ {0} /\ max_key \in Nat \ {0} /\ chunk_size \in Nat \ {0}
  BY RangeAssumption DEF MaxKeys
<1>2. chunk_num \in Nat \ {0}
  BY <1>1, ChunkNumCovers
<1>3. bounds \in [1 .. n -> 0 .. chunk_num] /\ bounds[1] = 0
      /\ \A i \in 1 .. n - 1 : bounds[i] <= bounds[i + 1]
  BY DEF Bounds
<1>4. \A i \in 1 .. n : at(i) = bounds[i] /\ at(i) \in 0 .. chunk_num
  BY <1>1, <1>3
<1>5. at(n + 1) = chunk_num
  BY <1>1
<1>6. /\ 1 \in 1 .. n /\ 1 \in 1 .. n + 1 /\ n + 1 \in 1 .. n + 1
      /\ \A i \in 1 .. n + 1 : i \in 1 .. n \/ i = n + 1
      /\ \A i \in 1 .. n : i \in 1 .. n + 1 /\ i + 1 \in 1 .. n + 1
      /\ \A i \in 1 .. n : i = n \/ (i \in 1 .. n - 1 /\ i + 1 \in 1 .. n)
  BY <1>1
<1> HIDE DEF at
<1>7. b \in [1 .. n + 1 -> 0 .. chunk_num] /\ b[1] = 0 /\ b[n + 1] = chunk_num
  <2>1. \A i \in 1 .. n + 1 : at(i) \in 0 .. chunk_num
    BY <1>2, <1>4, <1>5, <1>6
  <2> QED BY <1>3, <1>4, <1>5, <1>6, <2>1
<1>8. \A i, j \in 1 .. n + 1 : i <= j => b[i] <= b[j]
  <2>1. \A i \in 1 .. n : b[i] <= b[i + 1]
    <3> SUFFICES ASSUME NEW i \in 1 .. n PROVE b[i] <= b[i + 1]
      OBVIOUS
    <3>1. CASE i = n
      BY <1>2, <1>4, <1>5, <1>6, <3>1
    <3>2. CASE i \in 1 .. n - 1 /\ i + 1 \in 1 .. n
      BY <1>3, <1>4, <1>6, <3>2
    <3> QED BY <1>6, <3>1, <3>2
  <2>2. b \in [1 .. n + 1 -> Nat] /\ n + 1 \in Nat /\ n + 1 - 1 = n
    <3> HIDE DEF b
    <3> QED BY <1>1, <1>7
  <2> HIDE DEF b
  <2>3. PICK m \in Nat : m = n + 1
    BY <2>2
  <2>4. b \in [1 .. m -> Nat] /\ \A i \in 1 .. m - 1 : b[i] <= b[i + 1]
    BY <2>1, <2>2, <2>3
  <2>5. \A i, j \in 1 .. m : i <= j => b[i] <= b[j]
    BY <2>3, <2>4, Monotone
  <2> QED BY <2>3, <2>5
<1>9. /\ max_key_' = max_key /\ chunk_size_' = chunk_size /\ chunk_num_' = chunk_num
      /\ UNCHANGED num_servers_
  BY DEF CustomizeRanges
<1>10. server_chunk_ranges_' = [i \in 1 .. n |-> Interval(b[i], b[i + 1])]
  <2>1. server_chunk_ranges_' = [i \in 1 .. n |-> Interval(at(i), at(i + 1))]
    BY DEF CustomizeRanges, at
  <2> QED BY <1>6, <2>1
<1>11. server_key_ranges_' =
         [i \in 1 .. n |-> Interval(Min({b[i] * chunk_size, max_key}),
                                    Min({b[i + 1] * chunk_size, max_key}))]
  <2>1. server_key_ranges_' =
          [i \in 1 .. n |-> Interval(Min({at(i) * chunk_size, max_key}),
                                     Min({at(i + 1) * chunk_size, max_key}))]
    BY DEF CustomizeRanges, at
  <2>2. \A i \in 1 .. n : b[i] = at(i) /\ b[i + 1] = at(i + 1)
    BY <1>6
  <2> HIDE DEF b
  <2> QED BY <2>1, <2>2
<1> HIDE DEF b
<1> QED BY <1>7, <1>8, <1>9, <1>10, <1>11, DividedBy

\* Whatever set-up a store has had, its ranges are consecutive ranges of whole
\* chunks, cut at max_key (range_manager.cpp: SetMaxKeyAndChunkSize,
\* CustomizeRanges, Clear).
THEOREM Invariance == Spec => []Inv
<1>1. Init => Inv
  BY RangeAssumption DEF Init, Inv, Divided, Ready
<1>2. Inv /\ [Next]_vars => Inv'
  <2> SUFFICES ASSUME Inv, [Next]_vars PROVE Inv'
    OBVIOUS
  <2>1. ASSUME NEW n \in 1 .. MaxServers, SetNumServers(n) PROVE Inv'
    <3>1. ~Ready
      BY <2>1, RangeAssumption DEF SetNumServers, Inv, Divided
    <3>2. ~Ready'
      BY <2>1, <3>1 DEF SetNumServers, Ready
    <3> QED BY <2>1, <3>2 DEF SetNumServers, Inv, Divided
  <2>2. ASSUME NEW max_key \in MaxKeys, NEW chunk_size \in 1 .. MaxChunkSize,
               SetMaxKeyAndChunkSize(max_key, chunk_size)
        PROVE  Inv'
    BY <2>2, SetMaxKeyAndChunkSizeStep
  <2>3. ASSUME NEW max_key \in MaxKeys, NEW chunk_size \in 1 .. MaxChunkSize,
               NEW bounds \in Bounds(num_servers_, ChunkNum(max_key, chunk_size)),
               CustomizeRanges(max_key, chunk_size, bounds)
        PROVE  Inv'
    BY <2>3, CustomizeRangesStep
  <2>4. CASE Clear
    BY <2>4, RangeAssumption DEF Clear, Inv, Divided, Ready
  <2>5. CASE UNCHANGED vars
    <3>1. /\ Ready' = Ready /\ AllServers' = AllServers
          /\ \A i : Begins(i)' = Begins(i)
          /\ \A key : UpToMaxKey(key)' = UpToMaxKey(key)
      BY <2>5 DEF vars, Ready, AllServers, Begins, UpToMaxKey
    <3> QED BY <2>5, <3>1 DEF vars, Inv, Divided, Consecutive
  <2> QED BY <2>1, <2>2, <2>3, <2>4, <2>5 DEF Next
<1> QED BY <1>1, <1>2, PTL DEF Spec

------------------------------------------------------------------------------
(* What the invariant implies.                                              *)

\* Where the key ranges begin, seen as one ascending sequence from 0 to
\* max_key.
Edge(i) == IF Begins(i) * chunk_size_ <= max_key_ THEN Begins(i) * chunk_size_ ELSE max_key_

EdgesAscend ==
  /\ num_servers_ \in Nat \ {0} /\ max_key_ \in Nat \ {0} /\ chunk_size_ \in Nat \ {0}
  /\ \A i \in 1 .. num_servers_ + 1 : Begins(i) \in Nat
  /\ \A i \in 1 .. num_servers_ + 1 : Edge(i) \in 0 .. max_key_
  /\ \A i, j \in 1 .. num_servers_ + 1 : i <= j => Edge(i) <= Edge(j)
  /\ Edge(1) = 0 /\ Edge(num_servers_ + 1) = max_key_
  /\ DOMAIN server_key_ranges_ = 1 .. num_servers_
  /\ \A i \in 1 .. num_servers_ : server_key_ranges_[i] = Interval(Edge(i), Edge(i + 1))

LEMMA Edges == ASSUME Inv, Ready PROVE EdgesAscend
<1> PICK n \in Nat : n = num_servers_ /\ n # 0
  BY RangeAssumption DEF Inv, Divided
<1>1. /\ max_key_ \in Nat \ {0} /\ chunk_size_ \in Nat \ {0}
      /\ chunk_num_ = ChunkNum(max_key_, chunk_size_)
  BY RangeAssumption DEF Inv, Divided, MaxKeys
<1>2. chunk_num_ \in Nat \ {0} /\ max_key_ <= chunk_num_ * chunk_size_
  BY <1>1, ChunkNumCovers
<1>3. \A i \in 1 .. n + 1 : Begins(i) \in Nat
  BY <1>2 DEF Inv, Divided, Consecutive
<1>4. \A i, j \in 1 .. n + 1 : i <= j => Begins(i) <= Begins(j)
  BY DEF Inv, Divided, Consecutive
<1>5. Begins(1) = 0 /\ Begins(n + 1) = chunk_num_
  <2>1. Begins(1) = 0
    BY DEF Inv, Divided, Consecutive
  <2>2. ~(n + 1 <= n)
    OBVIOUS
  <2> QED BY <2>1, <2>2 DEF Begins
<1>6. \A i, j \in 1 .. n + 1 : i <= j => Begins(i) * chunk_size_ <= Begins(j) * chunk_size_
  BY <1>1, <1>3, <1>4, MulMono
<1>7. \A i \in 1 .. n + 1 : Begins(i) * chunk_size_ \in Nat
  BY <1>1, <1>3
<1>8. \A i \in 1 .. n + 1 : Edge(i) \in 0 .. max_key_
  BY <1>1, <1>7 DEF Edge
<1>9. \A i, j \in 1 .. n + 1 : i <= j => Edge(i) <= Edge(j)
  <2> SUFFICES ASSUME NEW i \in 1 .. n + 1, NEW j \in 1 .. n + 1, i <= j
               PROVE  Edge(i) <= Edge(j)
    OBVIOUS
  <2> PICK x, y \in Nat : x = Begins(i) * chunk_size_ /\ y = Begins(j) * chunk_size_
    BY <1>7
  <2>1. x <= y
    BY <1>6
  <2>2. Edge(i) = (IF x <= max_key_ THEN x ELSE max_key_)
        /\ Edge(j) = (IF y <= max_key_ THEN y ELSE max_key_)
    BY DEF Edge
  <2> QED BY <1>1, <2>1, <2>2
<1>10. Edge(1) = 0
  <2>1. Begins(1) * chunk_size_ = 0
    BY <1>1, <1>5
  <2> QED BY <1>1, <2>1 DEF Edge
<1>11. Edge(n + 1) = max_key_
  <2> PICK x \in Nat : x = chunk_num_ * chunk_size_
    BY <1>1, <1>2
  <2>1. Edge(n + 1) = IF x <= max_key_ THEN x ELSE max_key_
    BY <1>5 DEF Edge
  <2> QED BY <1>1, <1>2, <2>1
<1>12. \A i \in 1 .. n + 1 : UpToMaxKey(Begins(i) * chunk_size_) = Edge(i)
  <2> SUFFICES ASSUME NEW i \in 1 .. n + 1
               PROVE  UpToMaxKey(Begins(i) * chunk_size_) = Edge(i)
    OBVIOUS
  <2>1. Begins(i) * chunk_size_ \in Int /\ max_key_ \in Int
    BY <1>1, <1>7
  <2> QED BY <2>1, MinOfTwo DEF UpToMaxKey, Edge
<1>13. server_key_ranges_ =
         [i \in 1 .. n |-> Interval(UpToMaxKey(Begins(i) * chunk_size_),
                                    UpToMaxKey(Begins(i + 1) * chunk_size_))]
  BY DEF Inv, Divided, AllServers
<1>14. \A i \in 1 .. n : i \in 1 .. n + 1 /\ i + 1 \in 1 .. n + 1
  OBVIOUS
<1>15. \A i \in 1 .. n : server_key_ranges_[i] = Interval(Edge(i), Edge(i + 1))
  BY <1>12, <1>13, <1>14
<1>16. DOMAIN server_key_ranges_ = 1 .. n
  BY <1>13
<1> QED BY <1>1, <1>3, <1>8, <1>9, <1>10, <1>11, <1>15, <1>16 DEF EdgesAscend

LEMMA KeyPartition == Inv => KeysPartitioned
<1> SUFFICES ASSUME Inv, Ready, NEW key \in Keys
             PROVE  \E s \in AllServers :
                      \A t \in AllServers : Within(key, server_key_ranges_[t]) <=> t = s
  BY DEF KeysPartitioned
<1> PICK n \in Nat \ {0} : n = num_servers_
  BY Edges DEF EdgesAscend
<1>1. /\ key \in Nat /\ key < max_key_ /\ max_key_ \in Nat
      /\ \A i \in 1 .. n + 1 : Edge(i) \in Nat
      /\ \A i, j \in 1 .. n + 1 : i <= j => Edge(i) <= Edge(j)
      /\ Edge(1) = 0 /\ Edge(n + 1) = max_key_
  BY Edges DEF EdgesAscend, Keys
<1>2. \A t \in 1 .. n : Within(key, server_key_ranges_[t]) <=> Edge(t) <= key /\ key < Edge(t + 1)
  BY Edges DEF EdgesAscend, Within, Interval
<1> DEFINE S == {i \in 1 .. n : key < Edge(i + 1)}
<1>3. n \in S /\ S \in SUBSET Nat
  BY <1>1
<1>4. PICK s \in S : \A t \in S : s <= t
  <2> HIDE DEF S
  <2> QED BY <1>3, Least
<1>5. s \in 1 .. n /\ key < Edge(s + 1)
  OBVIOUS
<1>6. Edge(s) <= key
  <2>1. CASE s = 1
    BY <1>1, <2>1
  <2>2. CASE s # 1
    <3>1. s - 1 \in 1 .. n /\ ~(s <= s - 1) /\ s - 1 + 1 = s /\ s \in 1 .. n + 1
      BY <1>5, <2>2
    <3>2. ~(key < Edge(s))
      BY <1>4, <3>1
    <3> QED BY <1>1, <3>1, <3>2
  <2> QED BY <2>1, <2>2
<1>7. \A t \in 1 .. n : Edge(t) <= key /\ key < Edge(t + 1) => t = s
  <2> SUFFICES ASSUME NEW t \in 1 .. n, Edge(t) <= key, key < Edge(t + 1), s < t
               PROVE  FALSE
    BY <1>4
  <2>1. s + 1 \in 1 .. n + 1 /\ t \in 1 .. n + 1 /\ s + 1 <= t
    BY <1>5
  <2>2. Edge(s + 1) <= Edge(t) /\ Edge(s + 1) \in Nat /\ Edge(t) \in Nat
    BY <1>1, <2>1
  <2> QED BY <1>1, <1>5, <2>2
<1> HIDE DEF S
<1> QED BY <1>2, <1>5, <1>6, <1>7 DEF AllServers

\* The last chunk has what is left of the keys.
LEMMA LastChunk ==
  ASSUME Inv, Ready
  PROVE  /\ chunk_num_ \in Nat \ {0} /\ GetLastChunkSize \in 1 .. chunk_size_
         /\ (chunk_num_ - 1) * chunk_size_ + GetLastChunkSize = max_key_
<1>1. /\ max_key_ \in Nat \ {0} /\ chunk_size_ \in Nat \ {0}
      /\ chunk_num_ = ChunkNum(max_key_, chunk_size_)
  BY RangeAssumption DEF Inv, Divided, MaxKeys
<1> PICK m, d \in Nat \ {0} : m = max_key_ /\ d = chunk_size_
  BY <1>1
<1>2. m - 1 \in Nat
  OBVIOUS
<1>3. PICK q \in Nat, r \in 0 .. d - 1 : q = (m - 1) \div d /\ m - 1 = q * d + r
  BY <1>2, DivMod
<1>4. chunk_num_ = q + 1
  BY <1>1, <1>3 DEF ChunkNum
<1>5. PICK p \in Nat, l \in 0 .. d - 1 : l = m % d /\ m = p * d + l
  <2>1. m \in Nat
    OBVIOUS
  <2>2. m \div d \in Nat /\ m % d \in 0 .. d - 1 /\ m = (m \div d) * d + (m % d)
    BY <2>1, DivMod
  <2> QED BY <2>2, Zenon
<1>6. q * d \in Nat /\ p * d \in Nat /\ (q + 1) * d = q * d + d
  OBVIOUS
<1>7. m = q * d + (r + 1) /\ m = p * d + l
  BY <1>6, <1>3, <1>5
<1>8. CASE r + 1 = d
  <2>1. m = (q + 1) * d
    BY <1>6, <1>7, <1>8
  <2>2. l = 0
    <3>1. p <= q + 1 => (q + 1 <= p \/ p + 1 <= q + 1)
      OBVIOUS
    <3>2. CASE p + 1 <= q + 1
      <4>1. (p + 1) * d <= (q + 1) * d
        BY <3>2, MulMono
      <4>2. (p + 1) * d = p * d + d /\ p * d \in Nat
        OBVIOUS
      <4>3. FALSE
        BY <1>6, <1>7, <1>8, <4>1, <4>2
      <4> QED BY <4>3
    <3>3. CASE q + 1 <= p
      <4>1. (q + 1) * d <= p * d
        BY <3>3, MulMono
      <4> QED BY <1>6, <1>7, <1>8, <4>1
    <3> QED BY <3>2, <3>3
  <2>3. GetLastChunkSize = d
    BY <1>5, <2>2 DEF GetLastChunkSize
  <2>4. chunk_num_ - 1 = q /\ chunk_num_ \in Nat \ {0}
    BY <1>4
  <2>5. q * d + d = m
    BY <1>7, <1>8
  <2> QED BY <2>3, <2>4, <2>5
<1>9. CASE r + 1 # d
  <2>1. r + 1 \in 0 .. d - 1
    BY <1>9
  <2>2. (q * d + (r + 1)) \div d = q /\ (p * d + l) \div d = p
    BY <2>1, DivUnique
  <2>3. p = q
    BY <1>7, <2>2
  <2>4. l = r + 1
    BY <1>6, <1>7, <2>3
  <2>5. GetLastChunkSize = r + 1
    BY <1>5, <2>4 DEF GetLastChunkSize
  <2>6. chunk_num_ - 1 = q /\ chunk_num_ \in Nat \ {0}
    BY <1>4
  <2>7. r + 1 \in 1 .. chunk_size_
    BY <2>1
  <2> QED BY <1>7, <2>5, <2>6, <2>7
<1> QED BY <1>8, <1>9

LEMMA Whole == Inv => ChunksWhole
<1> DEFINE size(c) == IF c = chunk_num_ - 1 THEN GetLastChunkSize ELSE chunk_size_
<1> SUFFICES ASSUME Inv, Ready, NEW c \in ChunkIds, NEW s \in AllServers,
                    Within(c, server_chunk_ranges_[s]),
                    NEW key \in c * chunk_size_ .. c * chunk_size_ + size(c) - 1
             PROVE  /\ key < max_key_ /\ Within(key, server_key_ranges_[s])
                    /\ GetLocation(key)[1] = c
  BY Zenon DEF ChunksWhole
<1> PICK n, d, m \in Nat \ {0} : n = num_servers_ /\ d = chunk_size_ /\ m = max_key_
  BY Edges DEF EdgesAscend
<1>1. s \in 1 .. n /\ s \in 1 .. n + 1 /\ s + 1 \in 1 .. n + 1
  BY DEF AllServers
<1>2. /\ chunk_num_ \in Nat \ {0} /\ GetLastChunkSize \in 1 .. d
      /\ (chunk_num_ - 1) * d + GetLastChunkSize = m
  BY LastChunk
<1>3. c \in Nat /\ c <= chunk_num_ - 1
  BY <1>2 DEF ChunkIds
<1>4. Begins(s) <= c /\ c + 1 <= Begins(s + 1) /\ Begins(s) \in Nat /\ Begins(s + 1) \in Nat
  <2>1. Begins(s) \in Nat /\ Begins(s + 1) \in Nat
    BY <1>1, Edges DEF EdgesAscend
  <2>2. server_chunk_ranges_[s] = Interval(Begins(s), Begins(s + 1))
    BY DEF Inv, Divided
  <2>3. Begins(s) <= c /\ c < Begins(s + 1)
    BY <2>2 DEF Within, Interval
  <2> QED BY <1>3, <2>1, <2>3
<1>5. /\ Begins(s) * d <= c * d /\ Begins(s) * d \in Nat /\ c * d \in Nat
      /\ (c + 1) * d <= Begins(s + 1) * d /\ Begins(s + 1) * d \in Nat
      /\ (c + 1) * d = c * d + d
  BY <1>3, <1>4, MulMono
<1>6. size(c) \in 1 .. d /\ c * d + size(c) <= m
  <2>1. CASE c = chunk_num_ - 1
    BY <1>2, <1>5, <2>1
  <2>2. CASE c # chunk_num_ - 1
    <3>1. size(c) = d
      BY <2>2
    <3>2. c + 1 <= chunk_num_ - 1 /\ chunk_num_ - 1 \in Nat
      BY <1>2, <1>3, <2>2
    <3>3. (c + 1) * d <= (chunk_num_ - 1) * d /\ (chunk_num_ - 1) * d \in Nat
      BY <1>3, <3>2, MulMono
    <3> HIDE DEF size
    <3> QED BY <1>2, <1>5, <3>1, <3>3
  <2> QED BY <2>1, <2>2
<1> HIDE DEF size
<1>7. key \in Nat /\ c * d <= key /\ key < m /\ key < c * d + d
  BY <1>5, <1>6
<1>8. Within(key, server_key_ranges_[s])
  <2>1. server_key_ranges_[s] = Interval(Edge(s), Edge(s + 1))
    BY <1>1, Edges DEF EdgesAscend
  <2>2. Edge(s) = (IF Begins(s) * d <= m THEN Begins(s) * d ELSE m)
        /\ Edge(s + 1) = (IF Begins(s + 1) * d <= m THEN Begins(s + 1) * d ELSE m)
    BY DEF Edge
  <2>3. Edge(s) <= key /\ key < Edge(s + 1)
    BY <1>5, <1>7, <2>2
  <2> QED BY <2>1, <2>3 DEF Within, Interval
<1>9. GetLocation(key)[1] = c
  <2> PICK r \in 0 .. d - 1 : key = c * d + r
    <3>1. key - c * d \in 0 .. d - 1 /\ key = c * d + (key - c * d)
      BY <1>5, <1>7
    <3> QED BY <3>1
  <2>1. (c * d + r) \div d = c
    BY <1>3, DivUnique
  <2>2. key \div chunk_size_ = c
    BY <2>1
  <2> QED BY <2>2 DEF GetLocation
<1> QED BY <1>7, <1>8, <1>9

\* Every key below max_key has exactly one server, and no chunk is split among
\* servers, for keys of any width, although the pass that cuts the ranges back
\* stops early and the end of the last range may wrap around
\* (range_manager.cpp: SetMaxKeyAndChunkSize).
THEOREM Partition == Spec => []RangesPartition
<1>1. Inv => RangesPartition
  BY KeyPartition, Whole DEF RangesPartition
<1> QED BY <1>1, Invariance, PTL

\* Every range is a proper interval of keys.
THEOREM TypeCorrect == Spec => []TypeOK
<1>1. Inv => TypeOK
  <2> SUFFICES ASSUME Inv PROVE TypeOK
    OBVIOUS
  <2>1. CASE ~Ready
    <3>1. DOMAIN server_key_ranges_ = {}
      BY <2>1 DEF Ready
    <3> QED BY <2>1, <3>1 DEF Inv, TypeOK
  <2>2. CASE Ready
    <3>1. ASSUME NEW i \in DOMAIN server_key_ranges_
          PROVE  /\ server_key_ranges_[i].begin \in 0 .. server_key_ranges_[i].end
                 /\ server_key_ranges_[i].end <= max_key_
      <4> PICK n \in Nat \ {0} : n = num_servers_
        BY <2>2, Edges DEF EdgesAscend
      <4>1. i \in 1 .. n /\ i \in 1 .. n + 1 /\ i + 1 \in 1 .. n + 1 /\ i <= i + 1
        BY <2>2, Edges DEF EdgesAscend
      <4>2. server_key_ranges_[i].begin = Edge(i) /\ server_key_ranges_[i].end = Edge(i + 1)
        BY <2>2, <4>1, Edges DEF EdgesAscend, Interval
      <4>3. Edge(i) \in 0 .. max_key_ /\ Edge(i + 1) \in 0 .. max_key_ /\ Edge(i) <= Edge(i + 1)
            /\ max_key_ \in Nat
        BY <2>2, <4>1, Edges DEF EdgesAscend
      <4> QED BY <4>2, <4>3
    <3>2. DOMAIN server_key_ranges_ = AllServers
      BY <2>2, Edges DEF EdgesAscend, AllServers
    <3> QED BY <3>1, <3>2 DEF Inv, TypeOK
  <2> QED BY <2>1, <2>2
<1> QED BY <1>1, Invariance, PTL

------------------------------------------------------------------------------
(* Cutting a request along the ranges.                                      *)

LEMMA MinIs ==
  ASSUME NEW S, NEW m \in S, \A y \in S : y \in Int, \A y \in S : m <= y
  PROVE  Min(S) = m
<1>1. \A x \in S : (\A y \in S : x <= y) => x = m
  OBVIOUS
<1> QED BY <1>1, Zenon DEF Min

LEMMA MaxIs ==
  ASSUME NEW S, NEW m \in S, \A y \in S : y \in Int, \A y \in S : m >= y
  PROVE  Max(S) = m
<1>1. \A x \in S : (\A y \in S : x >= y) => x = m
  OBVIOUS
<1> QED BY <1>1, Zenon DEF Max

\* The server of a key, and how it is found from the ranges on either side.
HasKey(s, key) ==
  /\ s \in 1 .. num_servers_ /\ Edge(s) <= key /\ key < Edge(s + 1)

LEMMA ServerOfKey ==
  ASSUME Inv, Ready, NEW key \in Keys
  PROVE  HasKey(GetServerFromKey(key), key)
<1> PICK n \in Nat \ {0} : n = num_servers_
  BY Edges DEF EdgesAscend
<1>1. /\ key \in Nat
      /\ \A i \in 1 .. n + 1 : Edge(i) \in Nat
      /\ \A i, j \in 1 .. n + 1 : i <= j => Edge(i) <= Edge(j)
  BY Edges DEF EdgesAscend, Keys
<1>2. PICK s \in 1 .. n : Edge(s) <= key /\ key < Edge(s + 1)
  <2>1. PICK s \in AllServers : Within(key, server_key_ranges_[s])
    BY KeyPartition DEF KeysPartitioned
  <2> QED BY <2>1, Edges DEF EdgesAscend, Within, Interval, AllServers
<1>3. {i \in 1 .. n : \A j \in 1 .. i : key >= server_key_ranges_[j].begin} = 1 .. s
  <2>1. \A i \in 1 .. n : server_key_ranges_[i].begin = Edge(i)
    BY Edges DEF EdgesAscend, Interval
  <2>2. ASSUME NEW i \in 1 .. s PROVE i \in 1 .. n /\ key >= Edge(i)
    <3>1. i \in 1 .. n + 1 /\ s \in 1 .. n + 1 /\ i <= s
      OBVIOUS
    <3>2. Edge(i) <= Edge(s) /\ Edge(i) \in Nat /\ Edge(s) \in Nat
      BY <1>1, <3>1
    <3> QED BY <1>1, <1>2, <3>2
  <2>3. ASSUME NEW i \in 1 .. n, \A j \in 1 .. i : key >= Edge(j) PROVE i \in 1 .. s
    <3> SUFFICES ASSUME ~(i <= s) PROVE FALSE
      OBVIOUS
    <3>1. s + 1 \in 1 .. i /\ s + 1 \in 1 .. n + 1
      OBVIOUS
    <3>2. key >= Edge(s + 1) /\ Edge(s + 1) \in Nat
      BY <1>1, <2>3, <3>1
    <3> QED BY <1>1, <1>2, <3>2
  <2> DEFINE T == {i \in 1 .. n : \A j \in 1 .. i : key >= server_key_ranges_[j].begin}
  <2>4. ASSUME NEW i \in 1 .. s PROVE i \in T
    <3>1. \A j \in 1 .. i : j \in 1 .. s /\ j \in 1 .. n
      OBVIOUS
    <3>2. i \in 1 .. n
      OBVIOUS
    <3> QED BY <2>1, <2>2, <3>1, <3>2
  <2>5. ASSUME NEW i \in T PROVE i \in 1 .. s
    <3>1. i \in 1 .. n /\ \A j \in 1 .. i : key >= server_key_ranges_[j].begin /\ j \in 1 .. n
      OBVIOUS
    <3> QED BY <2>1, <2>3, <3>1
  <2> QED BY <2>4, <2>5
<1>4. GetServerFromKey(key) = Max({0} \cup 1 .. s)
  BY <1>3 DEF GetServerFromKey
<1>5. Max({0} \cup 1 .. s) = s
  <2>1. s \in {0} \cup 1 .. s /\ (\A y \in {0} \cup 1 .. s : y \in Int /\ s >= y)
    OBVIOUS
  <2> QED BY <2>1, MaxIs
<1> QED BY <1>2, <1>4, <1>5 DEF HasKey

LEMMA OneServer ==
  ASSUME Inv, Ready, NEW s, NEW t, NEW key \in Keys, NEW other \in Keys,
         HasKey(s, key), HasKey(t, other), key <= other
  PROVE  s <= t
<1> PICK n \in Nat \ {0} : n = num_servers_
  BY Edges DEF EdgesAscend
<1>1. /\ key \in Nat /\ other \in Nat
      /\ \A i \in 1 .. n + 1 : Edge(i) \in Nat
      /\ \A i, j \in 1 .. n + 1 : i <= j => Edge(i) <= Edge(j)
  BY Edges DEF EdgesAscend, Keys
<1>2. s \in 1 .. n /\ t \in 1 .. n /\ Edge(s) <= key /\ other < Edge(t + 1)
  BY DEF HasKey
<1> SUFFICES ASSUME ~(s <= t) PROVE FALSE
  OBVIOUS
<1>3. t + 1 \in 1 .. n + 1 /\ s \in 1 .. n + 1 /\ t + 1 <= s
  BY <1>2
<1>4. Edge(t + 1) <= Edge(s) /\ Edge(t + 1) \in Nat /\ Edge(s) \in Nat
  BY <1>1, <1>3
<1> QED BY <1>1, <1>2, <1>4

\* A key below max_key does not wrap around.
LEMMA NoWrapBelow ==
  ASSUME Inv, Ready, NEW key \in Keys
  PROVE  Word(key) = key
<1> PICK w \in Nat \ {0} : w = 2^Width
  BY RangeAssumption
<1>1. key \in 0 .. w - 1
  BY RangeAssumption DEF Inv, Keys
<1>2. key % w = key
  BY <1>1
<1> QED BY <1>2 DEF Word

\* The i-th key of a server's range is at place i of its vector
\* (GetServerInterval, returned as an int).
LEMMA InVector == Inv => VectorAddressed
<1> SUFFICES ASSUME Inv, Ready, NEW s \in AllServers,
                    server_key_ranges_[s].begin < 2^(IntWidth - 1),
                    NEW key \in server_key_ranges_[s].begin .. server_key_ranges_[s].end - 1
             PROVE  VectorIndex(s, key) = key - server_key_ranges_[s].begin
  BY DEF VectorAddressed
<1> PICK n, m \in Nat \ {0} : n = num_servers_ /\ m = max_key_
  BY Edges DEF EdgesAscend
<1>1. s \in 1 .. n /\ s \in 1 .. n + 1 /\ s + 1 \in 1 .. n + 1
  BY DEF AllServers
<1>2. Edge(s) \in 0 .. m /\ Edge(s + 1) \in 0 .. m
      /\ server_key_ranges_[s].begin = Edge(s) /\ server_key_ranges_[s].end = Edge(s + 1)
  BY <1>1, Edges DEF EdgesAscend, Interval
<1> PICK h \in Nat \ {0} : h = 2^(IntWidth - 1) /\ 2^IntWidth = 2 * h
  BY RangeAssumption
<1>3. Edge(s) \in 0 .. h - 1 /\ Edge(s) \in 0 .. 2 * h - 1
  BY <1>2
<1>4. Edge(s) % (2 * h) = Edge(s)
  <2> PICK x \in 0 .. 2 * h - 1 : x = Edge(s)
    BY <1>3
  <2> PICK y \in Nat \ {0} : y = 2 * h
    OBVIOUS
  <2>1. x % y = x
    OBVIOUS
  <2> QED BY <2>1
<1>5. GetServerInterval(s) = Edge(s)
  BY <1>2, <1>3, <1>4 DEF GetServerInterval, ToInt
<1>6. key - Edge(s) \in Keys
  BY <1>2 DEF Keys
<1>7. Word(key - Edge(s)) = key - Edge(s)
  BY <1>6, NoWrapBelow
<1> QED BY <1>2, <1>5, <1>7 DEF VectorIndex

\* A chunk begins below max_key.
LEMMA ChunkBegins ==
  ASSUME Inv, Ready, NEW c \in ChunkIds
  PROVE  c * chunk_size_ \in Keys
<1> PICK d, m \in Nat \ {0} : d = chunk_size_ /\ m = max_key_
  BY Edges DEF EdgesAscend
<1>1. /\ chunk_num_ \in Nat \ {0} /\ GetLastChunkSize \in 1 .. d
      /\ (chunk_num_ - 1) * d + GetLastChunkSize = m
  BY LastChunk
<1>2. c \in Nat /\ c <= chunk_num_ - 1 /\ chunk_num_ - 1 \in Nat
  BY <1>1 DEF ChunkIds
<1>3. c * d <= (chunk_num_ - 1) * d /\ c * d \in Nat /\ (chunk_num_ - 1) * d \in Nat
  BY <1>2, MulMono
<1>4. c * d < m
  BY <1>1, <1>3
<1> QED BY <1>3, <1>4 DEF Keys

\* Moving on from a range no later than the right one ends at the right one.
LEMMA NextRange ==
  ASSUME Inv, Ready, NEW key \in Keys, NEW s, HasKey(s, key), NEW from \in 1 .. s
  PROVE  Min({NoRange} \cup {r \in from .. num_servers_ : key < server_key_ranges_[r].end}) = s
<1> PICK n \in Nat \ {0} : n = num_servers_ /\ n <= MaxServers
  BY Edges, RangeAssumption DEF EdgesAscend, Inv
<1>1. /\ key \in Nat /\ s \in 1 .. n /\ Edge(s) <= key /\ key < Edge(s + 1)
      /\ \A i \in 1 .. n + 1 : Edge(i) \in Nat
      /\ \A i, j \in 1 .. n + 1 : i <= j => Edge(i) <= Edge(j)
  BY Edges DEF EdgesAscend, Keys, HasKey
<1>2. \A r \in 1 .. n : server_key_ranges_[r].end = Edge(r + 1)
  BY Edges DEF EdgesAscend, Interval
<1> DEFINE S == {r \in from .. n : key < server_key_ranges_[r].end}
<1>3. NoRange \in Int /\ s <= NoRange
  BY <1>1, RangeAssumption DEF NoRange
<1>4. s \in S
  BY <1>1, <1>2
<1>5. ASSUME NEW r \in S PROVE r \in Int /\ s <= r
  <2>1. r \in 1 .. n /\ key < Edge(r + 1)
    BY <1>1, <1>2
  <2> SUFFICES ASSUME ~(s <= r) PROVE FALSE
    BY <2>1
  <2>2. r + 1 \in 1 .. n + 1 /\ s \in 1 .. n + 1 /\ r + 1 <= s
    BY <1>1, <2>1
  <2>3. Edge(r + 1) <= Edge(s) /\ Edge(r + 1) \in Nat /\ Edge(s) \in Nat
    BY <1>1, <2>2
  <2> QED BY <1>1, <2>1, <2>3
<1> HIDE DEF S
<1>6. s \in {NoRange} \cup S /\ \A y \in {NoRange} \cup S : y \in Int /\ s <= y
  BY <1>3, <1>4, <1>5
<1>7. Min({NoRange} \cup S) = s
  BY <1>6, MinIs
<1> QED BY <1>7 DEF S

\* PartitionChunks_ finds the server of every chunk, for a request of any size.
LEMMA ChunkRequest ==
  ASSUME Inv, Ready, NEW ids \in Seq(ChunkIds), Ascending(ids)
  PROVE  Partitioned(ids)
<1> DEFINE L == Len(ids)
           key(i) == ids[i] * chunk_size_
           find(i, from) ==
             Min({NoRange} \cup {r \in from .. num_servers_ :
                                   EndsAfter(ids[i], server_key_ranges_[r])})
           Find(f) == [i \in 0 .. L |-> IF i = 0 THEN 1 ELSE find(i, f[i - 1])]
           g == [i \in 0 .. L |-> IF i = 0 THEN 1 ELSE GetServerFromKey(key(i))]
           range_id == CHOOSE f : f = Find(f)
<1>1. PartitionChunks_(ids) = [i \in 1 .. L |-> range_id[i]]
  BY DEF PartitionChunks_
<1>2. L \in Nat /\ DOMAIN ids = 1 .. L /\ \A i \in 1 .. L : ids[i] \in ChunkIds
  OBVIOUS
<1>3. \A i \in 1 .. L : /\ key(i) \in Keys /\ Word(key(i)) = key(i)
                        /\ HasKey(GetServerFromKey(key(i)), key(i))
  BY <1>2, ChunkBegins, NoWrapBelow, ServerOfKey
<1>4. ASSUME NEW i \in 1 .. L, NEW from \in 1 .. GetServerFromKey(key(i))
      PROVE  find(i, from) = GetServerFromKey(key(i))
  <2>1. \A r : EndsAfter(ids[i], server_key_ranges_[r]) <=> key(i) < server_key_ranges_[r].end
    BY <1>3 DEF EndsAfter
  <2> HIDE DEF key
  <2>2. find(i, from) = Min({NoRange} \cup {r \in from .. num_servers_ :
                                              key(i) < server_key_ranges_[r].end})
    BY <2>1
  <2> HIDE DEF find
  <2> QED BY <1>3, <1>4, <2>2, NextRange
<1>5. ASSUME NEW i \in 1 .. L PROVE g[i - 1] \in 1 .. GetServerFromKey(key(i))
  <2>1. PICK t : t = GetServerFromKey(key(i)) /\ t \in Nat \ {0} /\ HasKey(t, key(i))
    <3>1. num_servers_ \in Nat
      BY Edges DEF EdgesAscend
    <3> QED BY <1>3, <3>1 DEF HasKey
  <2>2. CASE i = 1
    BY <2>1, <2>2
  <2>3. CASE i # 1
    <3>1. i - 1 \in 1 .. L /\ i - 1 \in 0 .. L /\ i - 1 # 0 /\ i - 1 < i
      BY <1>2, <2>3
    <3>2. PICK s : s = GetServerFromKey(key(i - 1)) /\ s \in Nat \ {0} /\ HasKey(s, key(i - 1))
      <4>1. num_servers_ \in Nat
        BY Edges DEF EdgesAscend
      <4> QED BY <1>3, <3>1, <4>1 DEF HasKey
    <3>3. key(i - 1) <= key(i)
      <4>1. ids[i - 1] < ids[i]
        BY <1>2, <3>1 DEF Ascending
      <4>2. ids[i - 1] \in ChunkIds /\ ids[i] \in ChunkIds
        BY <1>2, <3>1
      <4>3. chunk_num_ \in Nat
        BY LastChunk
      <4>4. chunk_size_ \in Nat
        BY Edges DEF EdgesAscend
      <4>5. ids[i - 1] \in Nat /\ ids[i] \in Nat /\ ids[i - 1] <= ids[i]
        BY <4>1, <4>2, <4>3 DEF ChunkIds
      <4> QED BY <4>4, <4>5, MulMono
    <3>4. s <= t
      <4>1. key(i - 1) \in Keys /\ key(i) \in Keys
        BY <1>3, <3>1
      <4> HIDE DEF key
      <4> QED BY <2>1, <3>2, <3>3, <4>1, OneServer
    <3>5. g[i - 1] = s
      BY <3>1, <3>2
    <3> HIDE DEF g, key
    <3> QED BY <2>1, <3>2, <3>4, <3>5
  <2> QED BY <2>2, <2>3
<1>6. g = Find(g)
  <2>1. \A i \in 0 .. L : g[i] = IF i = 0 THEN 1 ELSE find(i, g[i - 1])
    <3> SUFFICES ASSUME NEW i \in 0 .. L, i # 0 PROVE g[i] = find(i, g[i - 1])
      OBVIOUS
    <3>1. i \in 1 .. L
      BY <1>2
    <3>2. g[i] = GetServerFromKey(key(i))
      OBVIOUS
    <3> HIDE DEF g, find, key
    <3> QED BY <1>4, <1>5, <3>1, <3>2
  <2>2. g = [i \in 0 .. L |-> g[i]]
    OBVIOUS
  <2> HIDE DEF g, find
  <2> QED BY <2>1, <2>2, Zenon
<1>7. range_id = Find(range_id)
  <2> HIDE DEF Find, g
  <2> QED BY <1>6, Zenon
<1>8. \A i \in 0 .. L : range_id[i] = (IF i = 0 THEN 1 ELSE find(i, range_id[i - 1]))
                        /\ g[i] = (IF i = 0 THEN 1 ELSE find(i, g[i - 1]))
  <2> HIDE DEF range_id, g, find
  <2> QED BY <1>6, <1>7
<1> HIDE DEF range_id, g, find, key, Find
<1>9. \A i \in 0 .. L : range_id[i] = g[i]
  <2> DEFINE S == {i \in 0 .. L : range_id[i] # g[i]}
  <2> SUFFICES ASSUME S # {} PROVE FALSE
    OBVIOUS
  <2>1. PICK i \in S : \A j \in S : i <= j
    <3>1. S \in SUBSET Nat
      BY <1>2
    <3> HIDE DEF S
    <3> QED BY <3>1, Least
  <2>2. i \in 0 .. L /\ range_id[i] # g[i]
    OBVIOUS
  <2>3. i # 0
    BY <1>8, <2>2
  <2>4. i - 1 \in 0 .. L /\ ~(i <= i - 1)
    BY <1>2, <2>2, <2>3
  <2>5. range_id[i - 1] = g[i - 1]
    BY <2>1, <2>4
  <2> QED BY <1>8, <2>2, <2>3, <2>5
<1>10. ASSUME NEW i \in 1 .. L
       PROVE  /\ PartitionChunks_(ids)[i] = GetServerFromKey(key(i))
              /\ GetServerFromKey(key(i)) \in AllServers
              /\ GetServerFromChunk(ids[i]) = GetServerFromKey(key(i))
  <2>1. i \in 0 .. L /\ i # 0
    BY <1>2
  <2>2. g[i] = GetServerFromKey(key(i))
    BY <2>1 DEF g
  <2>3. PartitionChunks_(ids)[i] = range_id[i]
    BY <1>1
  <2>4. GetServerFromKey(key(i)) \in AllServers
    BY <1>3 DEF HasKey, AllServers
  <2>5. GetServerFromChunk(ids[i]) = GetServerFromKey(key(i))
    BY <1>3 DEF GetServerFromChunk, key
  <2> QED BY <1>9, <2>1, <2>2, <2>3, <2>4, <2>5
<1> QED BY <1>2, <1>10 DEF Partitioned

\* The first p keys, and no others, are below `bound'.
Splits(keys, p, bound) ==
  /\ p \in 0 .. Len(keys)
  /\ \A i \in 1 .. p : keys[i] < bound
  /\ \A i \in p + 1 .. Len(keys) : keys[i] >= bound

\* std::lower_bound may start anywhere below the position it looks for.
LEMMA LowerBound ==
  ASSUME NEW keys \in Seq(Nat), Ascending(keys), NEW from \in 0 .. Len(keys),
         NEW bound \in Nat, \A i \in 1 .. from : keys[i] < bound
  PROVE  Splits(keys, lower_bound(keys, from, bound), bound)
<1> PICK L \in Nat : L = Len(keys)
  OBVIOUS
<1>1. DOMAIN keys = 1 .. L /\ \A i \in 1 .. L : keys[i] \in Nat
  OBVIOUS
<1> DEFINE S == {L} \cup {i \in from .. L - 1 : keys[i + 1] >= bound}
<1>2. S # {} /\ S \in SUBSET Nat /\ \A i \in S : i <= L
  OBVIOUS
<1>3. PICK p \in S : \A j \in S : p <= j
  <2> HIDE DEF S
  <2> QED BY <1>2, Least
<1>4. lower_bound(keys, from, bound) = p
  <2>1. lower_bound(keys, from, bound) = Min(S)
    BY DEF lower_bound
  <2>2. \A y \in S : y \in Int
    BY <1>2
  <2> HIDE DEF S
  <2> QED BY <1>3, <2>1, <2>2, MinIs
<1>5. p \in 0 .. L
  BY <1>2
<1>6. ASSUME NEW i \in 1 .. p PROVE keys[i] < bound
  <2>1. CASE i <= from
    BY <2>1
  <2>2. CASE ~(i <= from)
    <3>1. i - 1 \in from .. L - 1 /\ ~(p <= i - 1) /\ i \in 1 .. L /\ (i - 1) + 1 = i
      BY <1>5, <2>2
    <3>2. i - 1 \notin S
      <4> HIDE DEF S
      <4> QED BY <1>3, <3>1
    <3>3. ~(keys[i] >= bound)
      BY <3>1, <3>2
    <3> QED BY <1>1, <3>1, <3>3
  <2> QED BY <2>1, <2>2
<1>7. ASSUME NEW i \in p + 1 .. L PROVE keys[i] >= bound
  <2>1. p # L /\ p + 1 \in 1 .. L /\ i \in 1 .. L
    BY <1>5
  <2>2. keys[p + 1] >= bound
    BY <1>3, <2>1
  <2>3. keys[p + 1] <= keys[i]
    <3>1. p + 1 = i \/ p + 1 < i
      BY <1>5
    <3> HIDE DEF S
    <3> QED BY <1>1, <2>1, <3>1 DEF Ascending
  <2> HIDE DEF S
  <2> QED BY <1>1, <2>1, <2>2, <2>3
<1> QED BY <1>4, <1>5, <1>6, <1>7 DEF Splits

\* A higher bound has no fewer keys below it.
LEMMA SplitsAscend ==
  ASSUME NEW keys \in Seq(Nat), NEW bound \in Nat, NEW p, NEW q,
         NEW other \in Nat, bound <= other,
         Splits(keys, p, bound), Splits(keys, q, other)
  PROVE  p <= q
<1> PICK L \in Nat : L = Len(keys)
  OBVIOUS
<1>1. /\ p \in 0 .. L /\ q \in 0 .. L /\ \A i \in 1 .. L : keys[i] \in Nat
      /\ \A i \in 1 .. p : keys[i] < bound
      /\ \A i \in p + 1 .. L : keys[i] >= bound
      /\ \A i \in 1 .. q : keys[i] < other
      /\ \A i \in q + 1 .. L : keys[i] >= other
  BY DEF Splits
<1>2. p <= q
  <2> SUFFICES ASSUME ~(p <= q) PROVE FALSE
    OBVIOUS
  <2>1. p \in 1 .. p /\ p \in q + 1 .. L /\ p \in 1 .. L
    BY <1>1
  <2> QED BY <1>1, <2>1
<1> QED BY <1>2

\* Adjacent pieces of a sequence, put together again, are the sequence.
LEMMA FlattenSlices ==
  ASSUME NEW S, NEW keys \in Seq(S), NEW n \in Nat \ {0},
         NEW g \in [0 .. n -> 0 .. Len(keys)], g[0] = 0, g[n] = Len(keys),
         \A i \in 1 .. n : g[i - 1] <= g[i]
  PROVE  FlattenSeq([i \in 1 .. n |-> SubSeq(keys, g[i - 1] + 1, g[i])]) = keys
<1> DEFINE sliced == [i \in 1 .. n |-> SubSeq(keys, g[i - 1] + 1, g[i])]
           Next1(f) == [i \in 1 .. n |-> IF i = 1 THEN sliced[i] ELSE f[i - 1] \o sliced[i]]
           h == [i \in 1 .. n |-> SubSeq(keys, 1, g[i])]
           flatten == CHOOSE f : f = Next1(f)
<1> PICK L \in Nat : L = Len(keys)
  OBVIOUS
<1>1. \A i \in 0 .. n : g[i] \in 0 .. L
  OBVIOUS
<1>2. ASSUME NEW i \in 1 .. n
      PROVE  h[i] = IF i = 1 THEN sliced[i] ELSE h[i - 1] \o sliced[i]
  <2>1. CASE i = 1
    BY <2>1
  <2>2. CASE i # 1
    <3>1. i - 1 \in 1 .. n /\ i - 1 \in 0 .. n /\ i \in 0 .. n
      BY <2>2
    <3>2. PICK a, b \in 0 .. L : a = g[i - 1] /\ b = g[i] /\ a <= b
      <4>1. g[i - 1] \in 0 .. L /\ g[i] \in 0 .. L
        BY <1>1, <3>1
      <4>2. g[i - 1] <= g[i]
        OBVIOUS
      <4> QED BY <4>1, <4>2, Zenon
    <3>3. 1 \in 1 .. Len(keys) + 1 /\ a \in 1 - 1 .. Len(keys) /\ b \in a .. Len(keys)
      BY <3>2
    <3>4. SubSeq(keys, 1, a) \o SubSeq(keys, a + 1, b) = SubSeq(keys, 1, b)
      BY <3>3, ConcatAdjacentSubSeq
    <3> QED BY <2>2, <3>1, <3>2, <3>4
  <2> QED BY <2>1, <2>2
<1>3. h = Next1(h)
  <2>1. h = [i \in 1 .. n |-> h[i]]
    OBVIOUS
  <2> HIDE DEF h, sliced
  <2> QED BY <1>2, <2>1, Zenon
<1>4. flatten = Next1(flatten)
  <2> HIDE DEF Next1, h
  <2> QED BY <1>3, Zenon
<1>5. \A i \in 1 .. n : flatten[i] = IF i = 1 THEN sliced[i] ELSE flatten[i - 1] \o sliced[i]
  <2> HIDE DEF flatten, sliced
  <2> QED BY <1>4
<1>6. Len(sliced) = n
  OBVIOUS
<1>7. FlattenSeq(sliced) = flatten[n]
  <2> HIDE DEF sliced
  <2> QED BY <1>6, Zenon DEF FlattenSeq
<1>8. h[n] = keys
  BY SubSeqFull
<1> HIDE DEF flatten, h, sliced, Next1
<1>9. \A i \in 1 .. n : flatten[i] = h[i]
  <2> DEFINE T == {i \in 1 .. n : flatten[i] # h[i]}
  <2> SUFFICES ASSUME T # {} PROVE FALSE
    OBVIOUS
  <2>1. PICK i \in T : \A j \in T : i <= j
    <3>1. T \in SUBSET Nat
      OBVIOUS
    <3> HIDE DEF T
    <3> QED BY <3>1, Least
  <2>2. i \in 1 .. n /\ flatten[i] # h[i]
    OBVIOUS
  <2>3. i # 1
    BY <1>2, <1>5, <2>2
  <2>4. i - 1 \in 1 .. n /\ ~(i <= i - 1)
    BY <2>2, <2>3
  <2>5. flatten[i - 1] = h[i - 1]
    BY <2>1, <2>4
  <2> QED BY <1>2, <1>5, <2>2, <2>3, <2>5
<1>10. FlattenSeq(sliced) = keys
  <2>1. n \in 1 .. n
    OBVIOUS
  <2> QED BY <1>7, <1>8, <1>9, <2>1
<1> QED BY <1>10 DEF sliced

\* Slice_ cuts a request of any size where the ranges end, and sends every key
\* to its server.
LEMMA SliceRequest ==
  ASSUME Inv, Ready, NEW keys \in Seq(Keys), Ascending(keys)
  PROVE  Sliced(keys)
<1> PICK n, m \in Nat \ {0} : n = num_servers_ /\ m = max_key_
  BY Edges DEF EdgesAscend
<1> PICK L \in Nat : L = Len(keys)
  OBVIOUS
<1>1. /\ \A i \in 1 .. n + 1 : Edge(i) \in 0 .. m
      /\ \A i, j \in 1 .. n + 1 : i <= j => Edge(i) <= Edge(j)
      /\ Edge(1) = 0 /\ Edge(n + 1) = m
      /\ \A i \in 1 .. n : /\ server_key_ranges_[i].begin = Edge(i)
                           /\ server_key_ranges_[i].end = Edge(i + 1)
  BY Edges DEF EdgesAscend, Interval
<1>2. /\ keys \in Seq(Nat) /\ \A i \in 1 .. L : keys[i] \in Keys
      /\ Keys = 0 .. m - 1
  BY DEF Keys
<1> DEFINE cut(i) == lower_bound(keys, 0, Edge(i + 1))
           Find(f) == [i \in 0 .. n |-> IF i = 0 THEN lower_bound(keys, 0, server_key_ranges_[1].begin)
                                        ELSE lower_bound(keys, f[i - 1], server_key_ranges_[i].end)]
           g == [i \in 0 .. n |-> cut(i)]
           pos == CHOOSE f : f = Find(f)
<1>3. Slice_(keys) = [i \in 1 .. n |-> SubSeq(keys, pos[i - 1] + 1, pos[i])]
  BY DEF Slice_
<1>4. ASSUME NEW i \in 0 .. n PROVE Splits(keys, cut(i), Edge(i + 1)) /\ Edge(i + 1) \in Nat
  <2>1. Edge(i + 1) \in Nat
    BY <1>1
  <2>2. 0 \in 0 .. Len(keys) /\ \A j \in 1 .. 0 : keys[j] < Edge(i + 1)
    OBVIOUS
  <2> QED BY <1>2, <2>1, <2>2, LowerBound
<1>5. ASSUME NEW i \in 1 .. n
      PROVE  /\ cut(i - 1) <= cut(i)
             /\ lower_bound(keys, cut(i - 1), server_key_ranges_[i].end) = cut(i)
  <2>1. i - 1 \in 0 .. n /\ i \in 0 .. n /\ (i - 1) + 1 = i
        /\ i \in 1 .. n + 1 /\ i + 1 \in 1 .. n + 1 /\ i <= i + 1
    OBVIOUS
  <2>2. Splits(keys, cut(i - 1), Edge(i)) /\ Edge(i) \in Nat
    BY <1>4, <2>1
  <2>3. Splits(keys, cut(i), Edge(i + 1)) /\ Edge(i + 1) \in Nat
    BY <1>4, <2>1
  <2>4. Edge(i) <= Edge(i + 1)
    BY <1>1, <2>1
  <2> HIDE DEF cut
  <2>5. cut(i - 1) <= cut(i)
    BY <1>2, <2>2, <2>3, <2>4, SplitsAscend
  <2>6. cut(i - 1) \in 0 .. Len(keys) /\ \A j \in 1 .. cut(i - 1) : keys[j] < Edge(i + 1)
    <3>1. cut(i - 1) \in 0 .. L /\ \A j \in 1 .. cut(i - 1) : keys[j] < Edge(i)
      BY <2>2 DEF Splits
    <3>2. \A j \in 1 .. cut(i - 1) : keys[j] \in Nat
      BY <1>2, <3>1
    <3> QED BY <2>2, <2>3, <2>4, <3>1, <3>2
  <2>7. Splits(keys, lower_bound(keys, cut(i - 1), Edge(i + 1)), Edge(i + 1))
    BY <1>2, <2>3, <2>6, LowerBound
  <2>8. lower_bound(keys, cut(i - 1), Edge(i + 1)) = cut(i)
    <3> PICK p : p = lower_bound(keys, cut(i - 1), Edge(i + 1))
      OBVIOUS
    <3> PICK e \in Nat : e = Edge(i + 1)
      BY <2>3
    <3> PICK q : q = cut(i)
      OBVIOUS
    <3>1. Splits(keys, p, e) /\ Splits(keys, q, e)
      BY <2>3, <2>7
    <3>2. keys \in Seq(Nat) /\ e <= e
      BY <1>2
    <3>3. p <= q /\ q <= p
      BY <3>1, <3>2, SplitsAscend
    <3>4. p \in Int /\ q \in Int
      BY <3>1 DEF Splits
    <3> QED BY <3>3, <3>4
  <2> QED BY <1>1, <2>5, <2>8
<1>6. cut(0) = lower_bound(keys, 0, server_key_ranges_[1].begin)
  BY <1>1
<1>7. ASSUME NEW i \in 0 .. n
      PROVE  g[i] = IF i = 0 THEN lower_bound(keys, 0, server_key_ranges_[1].begin)
                    ELSE lower_bound(keys, g[i - 1], server_key_ranges_[i].end)
  <2>1. g[i] = cut(i)
    OBVIOUS
  <2>2. CASE i = 0
    BY <1>6, <2>1, <2>2
  <2>3. CASE i # 0
    <3>1. i \in 1 .. n /\ i - 1 \in 0 .. n
      BY <2>3
    <3>2. g[i - 1] = cut(i - 1)
      BY <3>1
    <3> HIDE DEF g, cut
    <3> QED BY <1>5, <2>1, <2>3, <3>1, <3>2
  <2> QED BY <2>2, <2>3
<1>8. g = Find(g)
  <2>1. g = [i \in 0 .. n |-> g[i]]
    OBVIOUS
  <2> HIDE DEF g
  <2> QED BY <1>7, <2>1, Zenon
<1>9. pos = Find(pos)
  <2> HIDE DEF Find, g
  <2> QED BY <1>8, Zenon
<1>10. \A i \in 0 .. n : pos[i] = IF i = 0 THEN lower_bound(keys, 0, server_key_ranges_[1].begin)
                                  ELSE lower_bound(keys, pos[i - 1], server_key_ranges_[i].end)
  <2> HIDE DEF pos
  <2> QED BY <1>9
<1> HIDE DEF pos, Find
<1>11. \A i \in 0 .. n : pos[i] = g[i]
  <2> DEFINE T == {i \in 0 .. n : pos[i] # g[i]}
  <2> HIDE DEF g
  <2> SUFFICES ASSUME T # {} PROVE FALSE
    OBVIOUS
  <2>1. PICK i \in T : \A j \in T : i <= j
    <3>1. T \in SUBSET Nat
      OBVIOUS
    <3> HIDE DEF T
    <3> QED BY <3>1, Least
  <2>2. i \in 0 .. n /\ pos[i] # g[i]
    OBVIOUS
  <2>3. i # 0
    BY <1>7, <1>10, <2>2
  <2>4. i - 1 \in 0 .. n /\ ~(i <= i - 1)
    BY <2>2, <2>3
  <2>5. pos[i - 1] = g[i - 1]
    BY <2>1, <2>4
  <2> QED BY <1>7, <1>10, <2>2, <2>3, <2>5
<1>12. /\ g \in [0 .. n -> 0 .. Len(keys)]
       /\ \A i \in 0 .. n : g[i] = cut(i)
  <2>1. \A i \in 0 .. n : cut(i) \in 0 .. Len(keys)
    <3> HIDE DEF cut
    <3> QED BY <1>4 DEF Splits
  <2> HIDE DEF cut
  <2> QED BY <2>1
<1> HIDE DEF g, cut
<1>13. Slice_(keys) = [i \in 1 .. n |-> SubSeq(keys, g[i - 1] + 1, g[i])]
  <2>1. \A i \in 1 .. n : pos[i - 1] = g[i - 1] /\ pos[i] = g[i]
    BY <1>11
  <2> QED BY <1>3, <2>1
<1>14. FlattenSeq(Slice_(keys)) = keys
  <2>1. g[0] = 0
    <3>1. 0 \in 0 .. n /\ 0 + 1 = 1
      OBVIOUS
    <3>2. Splits(keys, g[0], Edge(1))
      BY <1>4, <1>12, <3>1
    <3>3. g[0] \in 0 .. L /\ \A i \in 1 .. g[0] : keys[i] < 0
      BY <1>1, <3>2 DEF Splits
    <3> SUFFICES ASSUME g[0] # 0 PROVE FALSE
      OBVIOUS
    <3>4. 1 \in 1 .. g[0] /\ 1 \in 1 .. L
      BY <3>3
    <3> QED BY <1>2, <3>3, <3>4
  <2>2. g[n] = Len(keys)
    <3>1. n \in 0 .. n
      OBVIOUS
    <3>2. Splits(keys, g[n], m)
      BY <1>1, <1>4, <1>12, <3>1
    <3>3. g[n] \in 0 .. L /\ \A i \in g[n] + 1 .. L : keys[i] >= m
      BY <3>2 DEF Splits
    <3> SUFFICES ASSUME g[n] # L PROVE FALSE
      OBVIOUS
    <3>4. L \in g[n] + 1 .. L /\ L \in 1 .. L
      BY <3>3
    <3> QED BY <1>2, <3>3, <3>4
  <2>3. \A i \in 1 .. n : g[i - 1] <= g[i]
    BY <1>5, <1>12
  <2>4. FlattenSeq([i \in 1 .. n |-> SubSeq(keys, g[i - 1] + 1, g[i])]) = keys
    <3>1. g \in [0 .. n -> 0 .. Len(keys)]
      BY <1>12
    <3> QED BY <2>1, <2>2, <2>3, <3>1, FlattenSlices
  <2> QED BY <1>13, <2>4, Zenon
<1>15. ASSUME NEW s \in 1 .. n, NEW i \in DOMAIN Slice_(keys)[s]
       PROVE  GetServerFromKey(Slice_(keys)[s][i]) = s
  <2>1. s - 1 \in 0 .. n /\ s \in 0 .. n /\ (s - 1) + 1 = s
    OBVIOUS
  <2>2. PICK a, b \in 0 .. L : a = g[s - 1] /\ b = g[s]
    BY <1>12, <2>1
  <2>3. Splits(keys, a, Edge(s)) /\ Splits(keys, b, Edge(s + 1))
    BY <1>4, <1>12, <2>1, <2>2
  <2>4. Slice_(keys)[s] = SubSeq(keys, a + 1, b)
    BY <1>13, <2>2
  <2>5. \A j \in a + 1 .. b : keys[j] \in Keys
    BY <1>2
  <2>6. /\ SubSeq(keys, a + 1, b) \in Seq(Keys)
        /\ Len(SubSeq(keys, a + 1, b)) = (IF a + 1 <= b THEN b - (a + 1) + 1 ELSE 0)
        /\ \A j \in 1 .. b - (a + 1) + 1 : SubSeq(keys, a + 1, b)[j] = keys[a + 1 + j - 1]
    <3>1. a + 1 \in Int /\ b \in Int
      OBVIOUS
    <3> QED BY <2>5, <3>1, SubSeqProperties
  <2>7. i \in 1 .. b - a
    <3>1. i \in 1 .. Len(SubSeq(keys, a + 1, b))
      BY <2>4, <2>6
    <3> QED BY <2>6, <3>1
  <2>8. PICK j \in 1 .. L : j = a + i /\ Slice_(keys)[s][i] = keys[j]
    <3>1. i \in 1 .. b - (a + 1) + 1 /\ a + i \in 1 .. L /\ a + 1 + i - 1 = a + i
      BY <2>7
    <3>2. SubSeq(keys, a + 1, b)[i] = keys[a + i]
      BY <2>6, <3>1
    <3> QED BY <2>4, <3>1, <3>2
  <2>9. j \in a + 1 .. L /\ j \in 1 .. b
    BY <2>7, <2>8
  <2>10. keys[j] \in Keys /\ Edge(s) <= keys[j] /\ keys[j] < Edge(s + 1)
    <3>1. keys[j] >= Edge(s) /\ keys[j] < Edge(s + 1)
      BY <2>3, <2>9 DEF Splits
    <3>2. keys[j] \in Nat /\ Edge(s) \in Nat
      BY <1>1, <1>2
    <3> QED BY <1>2, <3>1, <3>2
  <2>11. HasKey(s, keys[j])
    BY <2>10 DEF HasKey
  <2>12. HasKey(GetServerFromKey(keys[j]), keys[j])
    BY <2>10, ServerOfKey
  <2>13. keys[j] <= keys[j]
    BY <1>2
  <2> PICK t : t = GetServerFromKey(keys[j])
    OBVIOUS
  <2>14. s <= t /\ t <= s
    BY <2>10, <2>11, <2>12, <2>13, OneServer
  <2>15. t \in 1 .. n
    BY <2>12 DEF HasKey
  <2> QED BY <2>8, <2>14, <2>15
<1> QED BY <1>14, <1>15 DEF Sliced, AllServers

\* A request of any size, its keys or its chunks in ascending order, comes
\* apart into pieces that are the request again when put together, and every
\* key and every chunk goes to the server that has it, at its own place in the
\* server's vector (kvworker.hpp: Slice_, PartitionChunks_; range_manager.hpp:
\* GetServerFromKey, GetServerInterval).
AnyRequestRouted ==
  /\ Ready => \A keys \in Seq(Keys) : Ascending(keys) => Sliced(keys)
  /\ Ready => \A chunk_ids \in Seq(ChunkIds) : Ascending(chunk_ids) => Partitioned(chunk_ids)
  /\ VectorAddressed

\* However the store was set up and whatever the request, Slice_ and
\* PartitionChunks_ route it as above.
THEOREM AnyRouted == Spec => []AnyRequestRouted
<1>1. Inv => AnyRequestRouted
  BY SliceRequest, ChunkRequest, InVector DEF AnyRequestRouted
<1> QED BY <1>1, Invariance, PTL

\* In particular the requests TLC looks at are routed.
THEOREM Routed == Spec => []RequestsRouted
<1>1. \A S : \A seq \in UpToThree(S) : seq \in Seq(S) /\ Ascending(seq)
  <2> SUFFICES ASSUME NEW S, NEW seq \in UpToThree(S)
               PROVE  seq \in Seq(S) /\ Ascending(seq)
    BY Zenon
  <2>1. Ascending(seq) /\ seq \in UNION {[1 .. m -> S] : m \in 0 .. 3}
    BY Zenon DEF UpToThree, BoundedSeq, SeqOf
  <2>2. PICK m \in 0 .. 3 : seq \in [1 .. m -> S]
    BY <2>1, Zenon
  <2> QED BY <2>1, <2>2
<1>2. AnyRequestRouted => RequestsRouted
  BY <1>1 DEF AnyRequestRouted, RequestsRouted, SlicesRouted, ChunksRouted
<1> QED BY <1>2, AnyRouted, PTL
==============================================================================
