----------------------------- MODULE RangeManager -----------------------------
(***************************************************************************)
(* How keys and chunks are divided among the servers: the RangeManager     *)
(* (kvstore/range_manager.hpp and .cpp), and the two ways KVWorker cuts a  *)
(* request along these ranges, Slice_ for keys and PartitionChunks_ for    *)
(* chunks.  The state is one kv_id's row of the manager's vectors; rows    *)
(* are independent.                                                        *)
(*                                                                         *)
(* Keys are unsigned integers of Width bits and wrap around; intervals of  *)
(* vector stores go through an int of IntWidth bits.  Servers are numbered *)
(* from 1 here and from 0 in the code.                                     *)
(***************************************************************************)
EXTENDS Integers, Sequences, FiniteSets, FiniteSetsExt, SequencesExt

CONSTANTS
  Width,         \* bits of husky::constants::Key (64)
  IntWidth,      \* bits of int (32)
  MaxServers,    \* bound: number of servers
  MaxChunkSize   \* bound: chunk_size

\* The range of int, and with it chunk_size and num_servers_, is far below
\* that of keys: fewer chunks than servers never reach the wrap-around.
ASSUME RangeAssumption ==
  /\ Width \in Nat \ {0} /\ IntWidth \in 1 .. Width
  /\ 2^Width \in Nat \ {0}   \* arithmetic, for the provers
  /\ 2^IntWidth = 2 * 2^(IntWidth - 1) /\ 2^(IntWidth - 1) \in Nat \ {0}
  /\ MaxServers \in Nat \ {0} /\ MaxChunkSize \in Nat \ {0}
  /\ MaxServers * MaxChunkSize <= 2^Width

VARIABLES
  num_servers_,
  max_key_,
  chunk_size_,
  chunk_num_,
  server_chunk_ranges_,
  server_key_ranges_     \* <<>> until the store is set up

vars == <<num_servers_, max_key_, chunk_size_, chunk_num_, server_chunk_ranges_,
          server_key_ranges_>>

Word(n) == n % 2^Width
Interval(b, e) == [begin |-> b, end |-> e]

MaxKeys == 1 .. 2^Width - 1

------------------------------------------------------------------------------
(* SetMaxKeyAndChunkSize.                                                  *)

ChunkNum(max_key, chunk_size) == (max_key - 1) \div chunk_size + 1

\* The first `remain' servers get one chunk more than the others.
ChunkRanges(n, chunk_num) ==
  LET base == chunk_num \div n
      remain == chunk_num % n
      end == remain * (base + 1)
  IN  [i \in 1 .. n |->
         IF i <= remain THEN Interval((i - 1) * (base + 1), i * (base + 1))
         ELSE IF i < n
           THEN Interval(end + (i - 1 - remain) * base, end + (i - remain) * base)
           ELSE Interval(end + (n - remain - 1) * base, chunk_num)]

\* The last range ends at max_key, whatever its last chunk would come to.
LastUnclipped(r, max_key) == r
LastClipped(r, max_key) ==
  IF r.begin > max_key THEN Interval(max_key, max_key) ELSE Interval(r.begin, max_key)

\* One step of the pass from the last range to the first: a range that
\* reaches into the next one is cut back to it, possibly to nothing.
CutBack(this, next) ==
  LET cut == Interval(this.begin, next.begin)
  IN  IF cut.begin > cut.end THEN Interval(cut.end, cut.end) ELSE cut

\* The pass, which stops at the first range that needs no cut.
Clipped(ranges, max_key) ==
  LET n == Len(ranges)
      pass[i \in 1 .. n] ==
        IF i = n THEN [range |-> LastClipped(ranges[n], max_key), stop |-> FALSE]
        ELSE LET next == pass[i + 1]
             IN  IF ~next.stop /\ ranges[i].end > next.range.begin
                   THEN [range |-> CutBack(ranges[i], next.range), stop |-> FALSE]
                   ELSE [range |-> ranges[i], stop |-> TRUE]
  IN  [i \in 1 .. n |-> pass[i].range]

KeyRanges(chunk_ranges, chunk_size, max_key) ==
  Clipped([i \in DOMAIN chunk_ranges |->
             Interval(Word(chunk_ranges[i].begin * chunk_size),
                   Word(chunk_ranges[i].end * chunk_size))], max_key)

SetMaxKeyAndChunkSize(max_key, chunk_size) ==
  LET chunk_num == ChunkNum(max_key, chunk_size)
      chunk_ranges == ChunkRanges(num_servers_, chunk_num)
  IN
  /\ num_servers_ > 0
  /\ max_key_' = max_key
  /\ chunk_size_' = chunk_size
  /\ chunk_num_' = chunk_num
  /\ server_chunk_ranges_' = chunk_ranges
  /\ server_key_ranges_' = KeyRanges(chunk_ranges, chunk_size, max_key)
  /\ UNCHANGED num_servers_

\* CustomizeRanges: the application hands in consecutive ranges of whole
\* chunks, `bounds' being where they begin; any of them may be empty.
CustomizeRanges(max_key, chunk_size, bounds) ==
  LET chunk_num == ChunkNum(max_key, chunk_size)
      at(i) == IF i > num_servers_ THEN chunk_num ELSE bounds[i]
  IN
  /\ num_servers_ > 0
  /\ max_key_' = max_key
  /\ chunk_size_' = chunk_size
  /\ chunk_num_' = chunk_num
  /\ server_chunk_ranges_' = [i \in 1 .. num_servers_ |-> Interval(at(i), at(i + 1))]
  /\ server_key_ranges_' =
       [i \in 1 .. num_servers_ |->
          Interval(Min({at(i) * chunk_size, max_key}),
                Min({at(i + 1) * chunk_size, max_key}))]
  /\ UNCHANGED num_servers_

------------------------------------------------------------------------------
(* Looking up a key or a chunk.                                            *)

\* GetServerFromKey: the last server whose range does not begin above key.
GetServerFromKey(key) ==
  Max({0} \cup {i \in 1 .. num_servers_ :
                  \A j \in 1 .. i : key >= server_key_ranges_[j].begin})

GetServerFromChunk(chunk_id) == GetServerFromKey(Word(chunk_id * chunk_size_))

GetLastChunkSize ==
  IF max_key_ % chunk_size_ # 0 THEN max_key_ % chunk_size_ ELSE chunk_size_

GetLocation(key) == <<key \div chunk_size_, key % chunk_size_>>

\* GetServerInterval, returned and kept as an int, and the index it gives a
\* key in a vector store: `key - interval' in unsigned arithmetic.
ToInt(n) == LET m == n % 2^IntWidth
            IN  IF m < 2^(IntWidth - 1) THEN m ELSE m - 2^IntWidth
GetServerInterval(s) == ToInt(server_key_ranges_[s].begin)
VectorIndex(s, key) == Word(key - GetServerInterval(s))

------------------------------------------------------------------------------
(* Cutting a request.                                                      *)

\* std::lower_bound in the part of a sorted sequence from position `from' on
\* (positions from 0).
lower_bound(keys, from, bound) ==
  Min({Len(keys)} \cup {i \in from .. Len(keys) - 1 : keys[i + 1] >= bound})

\* Slice_: the keys from pos[i - 1] up to pos[i] go to server i.
Slice_(keys) ==
  LET pos[i \in 0 .. num_servers_] ==
        IF i = 0 THEN lower_bound(keys, 0, server_key_ranges_[1].begin)
        ELSE lower_bound(keys, pos[i - 1], server_key_ranges_[i].end)
  IN  [i \in 1 .. num_servers_ |-> SubSeq(keys, pos[i - 1] + 1, pos[i])]

\* PartitionChunks_: from one chunk to the next, move on to the first range
\* that ends after the chunk begins.  The code asserts that there is one.
NoRange == MaxServers + 1
EndsAtOrAfter(chunk_id, range) == Word(chunk_id * chunk_size_) <= range.end
EndsAfter(chunk_id, range) == Word(chunk_id * chunk_size_) < range.end

PartitionChunks_(chunk_ids) ==
  LET range_id[i \in 0 .. Len(chunk_ids)] ==
        IF i = 0 THEN 1
        ELSE Min({NoRange} \cup
                 {r \in range_id[i - 1] .. num_servers_ :
                    EndsAfter(chunk_ids[i], server_key_ranges_[r])})
  IN  [i \in 1 .. Len(chunk_ids) |-> range_id[i]]

------------------------------------------------------------------------------
\* SetNumServers is called once, by KVStore::Start; -1 stands for not started.
SetNumServers(n) ==
  /\ num_servers_ = -1
  /\ num_servers_' = n
  /\ UNCHANGED <<max_key_, chunk_size_, chunk_num_, server_chunk_ranges_,
                 server_key_ranges_>>

Init ==
  /\ num_servers_ = -1
  /\ max_key_ = 0 /\ chunk_size_ = 0 /\ chunk_num_ = 0
  /\ server_chunk_ranges_ = <<>> /\ server_key_ranges_ = <<>>

\* Clear, called by KVStore::Stop.
Clear ==
  /\ num_servers_ # -1
  /\ num_servers_' = -1
  /\ max_key_' = 0 /\ chunk_size_' = 0 /\ chunk_num_' = 0
  /\ server_chunk_ranges_' = <<>> /\ server_key_ranges_' = <<>>

\* Where consecutive ranges of whole chunks may begin.
Bounds(n, chunk_num) ==
  {b \in [1 .. n -> 0 .. chunk_num] :
     b[1] = 0 /\ \A i \in 1 .. n - 1 : b[i] <= b[i + 1]}

Next ==
  \/ \E n \in 1 .. MaxServers : SetNumServers(n)
  \/ \E max_key \in MaxKeys, chunk_size \in 1 .. MaxChunkSize :
       SetMaxKeyAndChunkSize(max_key, chunk_size)
  \/ \E max_key \in MaxKeys, chunk_size \in 1 .. MaxChunkSize :
       /\ num_servers_ > 0
       /\ \E bounds \in Bounds(num_servers_, ChunkNum(max_key, chunk_size)) :
            CustomizeRanges(max_key, chunk_size, bounds)
  \/ Clear

Spec == Init /\ [][Next]_vars

------------------------------------------------------------------------------
(* Properties.                                                             *)

Ready == server_key_ranges_ # <<>>
Keys == 0 .. max_key_ - 1
ChunkIds == 0 .. chunk_num_ - 1
AllServers == 1 .. num_servers_

Within(n, range) == range.begin <= n /\ n < range.end

\* Every range is a proper interval of keys, however small the store and
\* however few chunks there are for the servers.
TypeOK ==
  /\ num_servers_ \in {-1} \cup 1 .. MaxServers
  /\ max_key_ \in 0 .. 2^Width - 1
  /\ Ready => DOMAIN server_key_ranges_ = AllServers
  /\ \A i \in DOMAIN server_key_ranges_ :
       /\ server_key_ranges_[i].begin \in 0 .. server_key_ranges_[i].end
       /\ server_key_ranges_[i].end <= max_key_

\* Every key below max_key belongs to exactly one server, although the last
\* chunk may end beyond max_key and its end may wrap around
\* (range_manager.cpp:58-81).
KeysPartitioned ==
  Ready => \A key \in Keys :
             \E s \in AllServers :
               \A t \in AllServers : Within(key, server_key_ranges_[t]) <=> t = s

\* A chunk is never split: all its keys, GetLastChunkSize of them for the last
\* chunk and chunk_size for the others, are on the server that has the chunk.
\* update and retrieve rely on it when they address a chunk in their store.
ChunksWhole ==
  Ready => \A c \in ChunkIds, s \in AllServers :
    LET size == IF c = chunk_num_ - 1 THEN GetLastChunkSize ELSE chunk_size_
        keys == c * chunk_size_ .. c * chunk_size_ + size - 1
    IN  Within(c, server_chunk_ranges_[s]) =>
          \A key \in keys : /\ key < max_key_
                            /\ Within(key, server_key_ranges_[s])
                            /\ GetLocation(key)[1] = c

\* The keys or the chunks of a request are in ascending order; TLC looks at
\* requests for up to three.
Ascending(seq) == \A i, j \in DOMAIN seq : i < j => seq[i] < seq[j]
UpToThree(S) == {seq \in BoundedSeq(S, 3) : Ascending(seq)}

\* Slice_ sends every key of a request to the server GetServerFromKey names,
\* and loses none.
Sliced(keys) ==
  LET sliced == Slice_(keys)
  IN  /\ FlattenSeq(sliced) = keys
      /\ \A s \in AllServers : \A i \in DOMAIN sliced[s] :
           GetServerFromKey(sliced[s][i]) = s
SlicesRouted == Ready => \A keys \in UpToThree(Keys) : Sliced(keys)

\* PartitionChunks_ assigns every chunk to the server GetServerFromChunk
\* names; in particular it never runs out of ranges, assert(range_id < n).
Partitioned(chunk_ids) ==
  LET range_id == PartitionChunks_(chunk_ids)
  IN  \A i \in DOMAIN chunk_ids :
        range_id[i] \in AllServers /\ range_id[i] = GetServerFromChunk(chunk_ids[i])
ChunksRouted == Ready => \A chunk_ids \in UpToThree(ChunkIds) : Partitioned(chunk_ids)

\* The ranges divide the keys, and the chunks with them.
RangesPartition == KeysPartitioned /\ ChunksWhole

\* A server that keeps its keys in a vector of GetServerSize elements finds
\* each of them at its own place in the vector, as long as the beginning of
\* its range fits an int.
VectorAddressed ==
  Ready => \A s \in AllServers :
    LET range == server_key_ranges_[s]
    IN  range.begin < 2^(IntWidth - 1) =>
          \A key \in range.begin .. range.end - 1 :
            VectorIndex(s, key) = key - range.begin

\* Every key and every chunk of a request comes to the server that has it, and
\* to its own place in the server's store.
RequestsRouted == SlicesRouted /\ ChunksRouted /\ VectorAddressed

------------------------------------------------------------------------------
(* The inductive invariant behind RangesPartition: both ways of setting a   *)
(* store up come to consecutive ranges of whole chunks, and to these ranges *)
(* times chunk_size, no further than max_key, as the ranges of keys.        *)

Begins(i) == IF i <= num_servers_ THEN server_chunk_ranges_[i].begin ELSE chunk_num_
UpToMaxKey(key) == Min({key, max_key_})

Consecutive ==
  /\ Begins(1) = 0
  /\ \A i \in 1 .. num_servers_ + 1 : Begins(i) \in 0 .. chunk_num_
  /\ \A i, j \in 1 .. num_servers_ + 1 : i <= j => Begins(i) <= Begins(j)

Divided ==
  Ready =>
    /\ num_servers_ \in 1 .. MaxServers
    /\ max_key_ \in MaxKeys /\ chunk_size_ \in 1 .. MaxChunkSize
    /\ chunk_num_ = ChunkNum(max_key_, chunk_size_)
    /\ Consecutive
    /\ server_chunk_ranges_ = [i \in AllServers |-> Interval(Begins(i), Begins(i + 1))]
    /\ server_key_ranges_ = [i \in AllServers |->
                                Interval(UpToMaxKey(Begins(i) * chunk_size_),
                                         UpToMaxKey(Begins(i + 1) * chunk_size_))]

Inv ==
  /\ num_servers_ \in {-1} \cup 1 .. MaxServers
  /\ max_key_ \in 0 .. 2^Width - 1
  /\ Divided
==============================================================================
