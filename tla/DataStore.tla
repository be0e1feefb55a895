----------------------------- MODULE DataStore ------------------------------
(***************************************************************************)
(* The in-memory data store of a process and the ways to walk through it   *)
(* (src/datastore).  The store is a sequence of chunks, one per local      *)
(* thread, a chunk a sequence of data; some chunks may be empty.  A        *)
(* position is [chunk, at], both from 1 as TLA+ sequences are; the code    *)
(* counts from 0, and starts before the first datum.                       *)
(***************************************************************************)
EXTENDS Integers, Sequences, SequencesExt, FiniteSets

\* DataStore::Push: a thread appends to its own chunk.
PushData(store, id, datum) == [store EXCEPT ![id] = Append(@, datum)]

get_data_size(store) == FoldLeft(LAMBDA n, c : n + Len(c), 0, store)

Datum(store, p) == store[p.chunk][p.at]

Before == [chunk |-> 1, at |-> 0]
End == [chunk |-> 0, at |-> 0]

\* The first chunk after c, going round, that is not empty.
NextNonEmpty(store, c) ==
  LET After(k) == ((c - 1 + k) % Len(store)) + 1
      k == CHOOSE k \in 1..Len(store) :
             /\ store[After(k)] # <<>>
             /\ \A j \in 1..(k - 1) : store[After(j)] = <<>>
  IN After(k)

\* DataIterator::has_next: forward by one, on to the next chunk that holds data,
\* and the end after the last datum of the last chunk.
IteratorNext(store, p) ==
  IF p.at + 1 <= Len(store[p.chunk]) THEN [p EXCEPT !.at = @ + 1]
  ELSE LET later == {c \in (p.chunk + 1)..Len(store) : store[c] # <<>>}
       IN IF later = {} THEN End
          ELSE [chunk |-> CHOOSE c \in later : \A d \in later : c <= d, at |-> 1]

\* DataLooper::has_next: the same, and round again instead of an end.
LooperNext(store, p) ==
  IF get_data_size(store) = 0 THEN End
  ELSE IF p.at + 1 <= Len(store[p.chunk]) THEN [p EXCEPT !.at = @ + 1]
  ELSE [chunk |-> NextNonEmpty(store, p.chunk), at |-> 1]

\* DataLoadBalance: thread pos (from 1) of num takes the data pos, pos + num, ...
\* of every chunk, starting over in each chunk.
BalanceStart(store, pos, num) ==
  [chunk |-> IF store[1] = <<>> /\ get_data_size(store) > 0 THEN NextNonEmpty(store, 1) ELSE 1,
   at |-> pos - num]

\* DataLoadBalance::reset goes back to the first chunk, empty or not.
BalanceReset(pos, num) == [chunk |-> 1, at |-> pos - num]

BalanceNext(store, p, pos, num) ==
  IF get_data_size(store) = 0 THEN End
  ELSE IF p.at + num <= Len(store[p.chunk]) THEN [p EXCEPT !.at = @ + num]
  ELSE LET later == {c \in (p.chunk + 1)..Len(store) : Len(store[c]) >= pos}
       IN IF later = {} THEN End
          ELSE [chunk |-> CHOOSE c \in later : \A d \in later : c <= d, at |-> pos]

\* DataSampler::random_start_point: before any datum of a chunk that holds data.
SamplerStarts(store) ==
  UNION {{[chunk |-> c, at |-> i - 1] : i \in 1..Len(store[c])} : c \in 1..Len(store)}

\* DataSampler::next: forward by one, and round to the next chunk with data.
SamplerNext(store, p) ==
  IF p.at + 1 <= Len(store[p.chunk]) THEN [p EXCEPT !.at = @ + 1]
  ELSE [chunk |-> NextNonEmpty(store, p.chunk), at |-> 1]

\* BatchDataSampler::prepare_next_batch: batch_size_ data of the sampler, none of
\* an empty store.
PrepareBatch(store, p, n) ==
  IF get_data_size(store) = 0 THEN <<>>
  ELSE [i \in 1..n |-> LET At[k \in 0..n] ==
                             IF k = 0 THEN p ELSE SamplerNext(store, At[k - 1])
                       IN At[i]]
=============================================================================
