---------------------------- MODULE DataLoading -----------------------------
(***************************************************************************)
(* How training data gets from HDFS to the training threads.  A scenario   *)
(* is one of the three ways the programs of the repository use:            *)
(*   "direct"  every thread reads with an input format of its own, epoch   *)
(*             after epoch (exp/read_local_global.cpp);                    *)
(*   "buffer"  a loading thread per process fills a ring of batches that   *)
(*             the training threads take from (lib/sample_reader.hpp and   *)
(*             lib/sample_reader_parse.hpp);                               *)
(*   "store"   every thread loads into its chunk of the data store, and    *)
(*             the store is walked through afterwards (lib/load_data.hpp,  *)
(*             src/datastore).                                             *)
(* A mutex is modelled by making the section it protects one step, except  *)
(* where a thread goes to sleep: the destructor of a buffer changes        *)
(* batch_num_ without the mutex and may come in between.                   *)
(***************************************************************************)
EXTENDS HDFSAssigner, DataStore

CONSTANTS Threads, HostOf,     \* the training threads 1..n and their hosts
          Lines,               \* Lines[b]: how many lines block b has
          Blank,               \* the lines that are blank
          BatchSize, BatchNum, \* the constructor's batch_size and batch_num
          Scenarios,           \* [path, fmt, local, iters, walk]
          Epochs, Rounds       \* bounds: epochs of "direct", walks of "store"

ASSUME DataAssumption ==
  /\ IsFiniteSet(Threads) /\ Threads = 1..Cardinality(Threads)
  /\ HostOf \in [Threads -> Hosts]
  /\ Lines \in [Blocks -> Nat] /\ BatchSize \in Nat \ {0} /\ BatchNum \in Nat \ {0}

VARIABLES scn,     \* the scenario
          asg,     \* the assigner of the master
          epoch,
          thread,  \* thread[t]: [pc, rest, data, got]
          loader,  \* loader[h]: [pc, rest, tmp, i], the loading thread of a process
          buf,     \* buf[h]: [slots, start, end, count, num, eof], its ring of batches
          store,   \* the data store, a chunk per thread
          seen,    \* seen[t][l]: how often thread t was given line l
          loaded   \* loaded[h]: the lines the loading thread put into the ring

vars == <<scn, asg, epoch, thread, loader, buf, store, seen, loaded>>

AllLines == UNION {{<<b, i>> : i \in 1..Lines[b]} : b \in Blocks}
LinesOf(b) == [i \in 1..Lines[b] |-> <<b, i>>]
Samples == AllLines \ Blank

NewThread == [pc |-> "init", rest |-> <<>>, data |-> <<>>, got |-> 0, at |-> Before]
NewLoader == [pc |-> "none", rest |-> <<>>, tmp |-> <<>>, i |-> 0]
NewBuffer == [slots |-> [k \in 0..(BatchNum - 1) |-> <<>>], start |-> 0, end |-> 0,
              count |-> 0, num |-> BatchNum, eof |-> FALSE]

Init ==
  /\ scn \in Scenarios /\ asg = NoAssigner /\ epoch = 1
  /\ thread = [t \in Threads |-> NewThread]
  /\ loader = [h \in Hosts |-> NewLoader] /\ buf = [h \in Hosts |-> NewBuffer]
  /\ store = [t \in Threads |-> <<>>]
  /\ seen = [t \in Threads |-> [l \in Samples |-> 0]]
  /\ loaded = [h \in Hosts |-> {}]

-----------------------------------------------------------------------------
(* Input formats: the rest of the current piece, then a new piece.         *)

Answers(host) ==
  IF scn.fmt = "binary" THEN FileAnswers(asg, host, scn.local, Cardinality(Threads))
                        ELSE BlockAnswers(asg, host, scn.local, Cardinality(Threads))

\* The lines of a block; the records of a binary file are its lines that are not
\* blank, in an order that nothing here tells apart.
PieceLines(ans) ==
  LET b == CHOOSE b \in ans.piece : TRUE
  IN CASE ans.piece = {} -> <<>>
       [] ans.piece # {} /\ scn.fmt = "binary" -> SetToSeq(ToSet(LinesOf(b)) \ Blank)
       [] ans.piece # {} /\ scn.fmt # "binary" -> LinesOf(b)

\* The samples of a sequence of lines handed to thread t are counted in seen.
Count(t, ls) ==
  [seen EXCEPT ![t] = [l \in Samples |-> @[l] + Cardinality({i \in DOMAIN ls : ls[i] = l})]]

-----------------------------------------------------------------------------
(* "direct": while (infmt.next(record)) ...                                *)

StartDirect(t) ==
  /\ scn.path = "direct" /\ thread[t].pc = "init"
  /\ thread' = [thread EXCEPT ![t].pc = "read"]
  /\ UNCHANGED <<scn, asg, epoch, loader, buf, store, seen, loaded>>

ReadRecord(t) ==
  /\ thread[t].pc = "read" /\ thread[t].rest # <<>>
  /\ thread' = [thread EXCEPT ![t].rest = Tail(@)]
  /\ seen' = Count(t, <<Head(thread[t].rest)>>)
  /\ UNCHANGED <<scn, asg, epoch, loader, buf, store, loaded>>

AskMaster(t) ==
  /\ thread[t].pc = "read" /\ thread[t].rest = <<>>
  /\ \E ans \in Answers(HostOf[t]) :
       /\ asg' = ans.asg
       /\ thread' = [thread EXCEPT ![t].rest = PieceLines(ans),
                                   ![t].pc = IF ans.piece = {} THEN "done" ELSE "read"]
  /\ UNCHANGED <<scn, epoch, loader, buf, store, seen, loaded>>

\* The engine starts the next epoch of the task when every thread has ended this
\* one (EpochBarrier of ClusterManager).
NextEpoch ==
  /\ scn.path = "direct" /\ epoch < Epochs
  /\ \A t \in Threads : thread[t].pc = "done"
  /\ epoch' = epoch + 1
  /\ thread' = [t \in Threads |-> NewThread]
  /\ seen' = [t \in Threads |-> [l \in Samples |-> 0]]
  /\ UNCHANGED <<scn, asg, loader, buf, store, loaded>>

-----------------------------------------------------------------------------
(* "buffer": the loading thread of a process.                              *)

\* AsyncReadBuffer::init, by the first thread that calls it.
InitBuffer(t) ==
  LET h == HostOf[t]
  IN /\ scn.path = "buffer" /\ thread[t].pc = "init"
     /\ thread' = [thread EXCEPT ![t].pc = "check"]
     /\ loader' = [loader EXCEPT ![h].pc =
          IF @ # "none" THEN @ ELSE IF scn.fmt = "binary" THEN "first" ELSE "top"]
     /\ UNCHANGED <<scn, asg, epoch, buf, store, seen, loaded>>

\* while (!eof_) { if (batch_num_ == 0) return; BatchT tmp; ...
NewBatch(h) ==
  /\ loader[h].pc = "top"
  /\ loader' = [loader EXCEPT ![h].pc = IF buf[h].eof THEN "finish"
                                        ELSE IF buf[h].num = 0 THEN "done" ELSE "fill",
                              ![h].tmp = <<>>, ![h].i = 0]
  /\ UNCHANGED <<scn, asg, epoch, thread, buf, store, seen, loaded>>

\* A raw batch keeps a blank line; parse_line returns before it adds one.
Kept(line) == IF scn.fmt # "raw" /\ line \in Blank THEN <<>> ELSE <<line>>

LoadRecord(h) ==
  LET line == Head(loader[h].rest)
      n == loader[h].i + 1
  IN /\ loader[h].pc = "fill" /\ loader[h].rest # <<>>
     /\ loader' = [loader EXCEPT ![h].rest = Tail(@), ![h].tmp = @ \o Kept(line),
                                 ![h].i = n, ![h].pc = IF n = BatchSize THEN "put" ELSE "fill"]
     /\ UNCHANGED <<scn, asg, epoch, thread, buf, store, seen, loaded>>

\* The piece is used up: ask for another; eof_ is set when there is none, before
\* the batch is in the ring.
LoadPiece(h) ==
  /\ loader[h].pc = "fill" /\ loader[h].rest = <<>>
  /\ \E ans \in Answers(h) :
       /\ asg' = ans.asg
       /\ loader' = [loader EXCEPT ![h].rest = PieceLines(ans),
                                   ![h].pc = IF ans.piece = {} THEN "put" ELSE "fill"]
       /\ buf' = [buf EXCEPT ![h].eof = @ \/ ans.piece = {}]
  /\ UNCHANGED <<scn, epoch, thread, store, seen, loaded>>

\* The binary format fetches its first file in a round of its own.
LoadFirst(h) ==
  /\ loader[h].pc = "first"
  /\ \E ans \in Answers(h) :
       /\ asg' = ans.asg
       /\ loader' = [loader EXCEPT ![h].rest = PieceLines(ans), ![h].pc = "put"]
       /\ buf' = [buf EXCEPT ![h].eof = ans.piece = {}]
  /\ UNCHANGED <<scn, epoch, thread, store, seen, loaded>>

NeverFull(b) == b.count = 0 /\ b.num = 0
FullAtMost(b) == b.count <= b.num

Full(b) == b.count = b.num

Wrap(i, n) == IF i >= n THEN i - n ELSE i

PutBatch(b, batch) ==
  [b EXCEPT !.count = @ + 1, !.slots[b.end] = batch, !.end = Wrap(@ + 1, b.num)]

\* Block if the buffer is full, else put the batch unless it is empty.
StoreBatch(h) ==
  LET tmp == loader[h].tmp
  IN /\ loader[h].pc = "put" /\ ~Full(buf[h])
     /\ buf' = [buf EXCEPT ![h] = IF tmp = <<>> THEN @ ELSE PutBatch(@, tmp)]
     /\ loaded' = [loaded EXCEPT ![h] = @ \cup {tmp[i] : i \in DOMAIN tmp}]
     /\ loader' = [loader EXCEPT ![h].pc = "notify"]
     /\ UNCHANGED <<scn, asg, epoch, thread, store, seen>>

\* batch_count_ == batch_num_: return if the buffer is being destroyed, else the
\* thread goes to sleep, still with the mutex.
FindFull(h) ==
  /\ loader[h].pc = "put" /\ Full(buf[h])
  /\ loader' = [loader EXCEPT ![h].pc = IF buf[h].num = 0 THEN "done" ELSE "sleepy"]
  /\ UNCHANGED <<scn, asg, epoch, thread, buf, store, seen, loaded>>

Sleep(h) ==
  /\ loader[h].pc = "sleepy"
  /\ loader' = [loader EXCEPT ![h].pc = "asleep"]
  /\ UNCHANGED <<scn, asg, epoch, thread, buf, store, seen, loaded>>

Waiting(h) == {t \in Threads : HostOf[t] = h /\ thread[t].pc = "waiting"}

Wake(ts) == [t \in Threads |-> IF t \in ts THEN [thread[t] EXCEPT !.pc = "get"] ELSE thread[t]]

\* get_cv_.notify_one wakes one waiting thread, if there is one.
NotifyOne(h) == IF Waiting(h) = {} THEN {{}} ELSE {{t} : t \in Waiting(h)}

NotifyGet(h) ==
  /\ loader[h].pc = "notify"
  /\ \E ts \in NotifyOne(h) : thread' = Wake(ts)
  /\ loader' = [loader EXCEPT ![h].pc = "top"]
  /\ UNCHANGED <<scn, asg, epoch, buf, store, seen, loaded>>

LoadingFinished(h) ==
  /\ loader[h].pc = "finish"
  /\ thread' = Wake(Waiting(h))
  /\ loader' = [loader EXCEPT ![h].pc = "done"]
  /\ UNCHANGED <<scn, asg, epoch, buf, store, seen, loaded>>

-----------------------------------------------------------------------------
(* "buffer": a training thread.                                            *)

NoMoreData(b) == b.eof /\ b.count = 0

\* num_iters of the program, 0 for all the data.
LastIteration(t) == scn.iters # 0 /\ thread[t].got = scn.iters

MutexFree(h) == loader[h].pc # "sleepy"

\* Whether to go on: the iterations of the program, then SampleReader::is_empty.
CheckEmpty(t) ==
  LET h == HostOf[t]
  IN /\ thread[t].pc = "check" /\ MutexFree(h)
     /\ thread' = [thread EXCEPT ![t].pc =
          IF LastIteration(t) \/ NoMoreData(buf[h]) THEN "done" ELSE "get"]
     /\ UNCHANGED <<scn, asg, epoch, loader, buf, store, seen, loaded>>

\* get_batch finds the end: the batch of the reader is cleared.
GetNothing(t) ==
  LET h == HostOf[t]
  IN /\ thread[t].pc = "get" /\ MutexFree(h) /\ NoMoreData(buf[h])
     /\ thread' = [thread EXCEPT ![t].pc = "check", ![t].data = <<>>]
     /\ UNCHANGED <<scn, asg, epoch, loader, buf, store, seen, loaded>>

WaitForData(t) ==
  LET h == HostOf[t]
  IN /\ thread[t].pc = "get" /\ MutexFree(h)
     /\ buf[h].count = 0 /\ ~buf[h].eof
     /\ thread' = [thread EXCEPT ![t].pc = "waiting"]
     /\ UNCHANGED <<scn, asg, epoch, loader, buf, store, seen, loaded>>

\* SampleReader::prepare_next_batch resizes its batch and parses every line of raw
\* into its place; a blank line leaves there what the previous batch had.
\* SimpleSampleReader moves the parsed batch.
Parsed(old, raw) ==
  IF scn.fmt # "raw" THEN raw
  ELSE [i \in 1..Len(raw) |-> IF raw[i] \notin Blank THEN raw[i]
                              ELSE IF i <= Len(old) THEN old[i] ELSE raw[i]]

Taken(b) ==
  [b EXCEPT !.slots[b.start] = <<>>, !.start = Wrap(@ + 1, b.num), !.count = @ - 1]

GetBatch(t) ==
  LET h == HostOf[t]
      data == Parsed(thread[t].data, buf[h].slots[buf[h].start])
  IN /\ thread[t].pc = "get" /\ MutexFree(h) /\ buf[h].count > 0
     /\ thread' = [thread EXCEPT ![t].pc = "tell", ![t].data = data,
                                 ![t].got = IF scn.iters = 0 THEN @ ELSE @ + 1]
     /\ seen' = Count(t, data)
     /\ buf' = [buf EXCEPT ![h] = Taken(@)]
     /\ UNCHANGED <<scn, asg, epoch, loader, store, loaded>>

\* load_cv_.notify_one(): tell main to continue loading data
TellLoader(t) ==
  LET h == HostOf[t]
  IN /\ thread[t].pc = "tell"
     /\ thread' = [thread EXCEPT ![t].pc = "check"]
     /\ loader' = [loader EXCEPT ![h].pc = IF @ = "asleep" THEN "put" ELSE @]
     /\ UNCHANGED <<scn, asg, epoch, buf, store, seen, loaded>>

\* ~AsyncReadBuffer, when the tasks of the program are over: without the mutex.
Destroy(h) ==
  /\ scn.path = "buffer" /\ buf[h].num # 0
  /\ \A t \in Threads : thread[t].pc = "done"
  /\ buf' = [buf EXCEPT ![h].num = 0]
  /\ loader' = [loader EXCEPT ![h].pc = IF @ = "asleep" THEN "put" ELSE @]
  /\ UNCHANGED <<scn, asg, epoch, thread, store, seen, loaded>>

-----------------------------------------------------------------------------
(* "store": load_line_input, then a walk through the store by a later task. *)

StartLoad(t) ==
  /\ scn.path = "store" /\ thread[t].pc = "init"
  /\ thread' = [thread EXCEPT ![t].pc = "load"]
  /\ UNCHANGED <<scn, asg, epoch, loader, buf, store, seen, loaded>>

\* parse pushes the sample of a line that is not blank; lines_per_thread counts
\* every line.
LoadLine(t) ==
  LET line == Head(thread[t].rest)
  IN /\ thread[t].pc = "load" /\ thread[t].rest # <<>> /\ ~LastIteration(t)
     /\ thread' = [thread EXCEPT ![t].rest = Tail(@),
                                 ![t].got = IF scn.iters = 0 THEN @ ELSE @ + 1]
     /\ store' = IF line \in Blank THEN store ELSE PushData(store, t, line)
     /\ UNCHANGED <<scn, asg, epoch, loader, buf, seen, loaded>>

LoadAsk(t) ==
  /\ thread[t].pc = "load" /\ thread[t].rest = <<>> /\ ~LastIteration(t)
  /\ \E ans \in Answers(HostOf[t]) :
       /\ asg' = ans.asg
       /\ thread' = [thread EXCEPT ![t].rest = PieceLines(ans),
                                   ![t].pc = IF ans.piece = {} THEN "loaded" ELSE "load"]
  /\ UNCHANGED <<scn, epoch, loader, buf, store, seen, loaded>>

LoadEnough(t) ==
  /\ thread[t].pc = "load" /\ LastIteration(t)
  /\ thread' = [thread EXCEPT ![t].pc = "loaded"]
  /\ UNCHANGED <<scn, asg, epoch, loader, buf, store, seen, loaded>>

N == Cardinality(Threads)

WalkStarts(t) ==
  CASE scn.walk \in {"iterator", "looper"} -> {Before}
    [] scn.walk = "balance" -> {BalanceStart(store, t, N)}
    [] scn.walk \in {"sampler", "batch"} -> {Before} \cup SamplerStarts(store)

\* The positions a call returns, none at the end.
WalkNext(t) ==
  LET p == thread[t].at
      one == CASE scn.walk = "iterator" -> IteratorNext(store, p)
               [] scn.walk = "looper" -> LooperNext(store, p)
               [] scn.walk = "balance" -> BalanceNext(store, p, t, N)
               [] scn.walk = "sampler" -> IF get_data_size(store) = 0 THEN End
                                          ELSE SamplerNext(store, p)
               [] scn.walk = "batch" -> End
  IN IF scn.walk = "batch" THEN PrepareBatch(store, p, BatchSize)
     ELSE IF one = End THEN <<>> ELSE <<one>>

\* How many calls a thread makes in a walk that has no end of its own.
Calls == IF scn.walk = "batch" THEN get_data_size(store) ELSE Rounds * get_data_size(store)

\* The walks only read the store and do not meet: the threads walk one after another.
StartWalk(t) ==
  /\ thread[t].pc = "loaded" /\ \A u \in Threads : thread[u].pc \notin {"init", "load"}
  /\ \A u \in 1..(t - 1) : thread[u].pc = "done"
  /\ \E p \in WalkStarts(t) :
       thread' = [thread EXCEPT ![t].pc = "walk", ![t].at = p, ![t].got = 0]
  /\ UNCHANGED <<scn, asg, epoch, loader, buf, store, seen, loaded>>

Walk(t) ==
  LET ps == WalkNext(t)
      endless == scn.walk \in {"looper", "sampler", "batch"}
      over == endless /\ thread[t].got = Calls
  IN /\ thread[t].pc = "walk" /\ ~over /\ ps # <<>>
     /\ thread' = [thread EXCEPT ![t].at = Last(ps), ![t].got = IF endless THEN @ + 1 ELSE @]
     /\ seen' = Count(t, [i \in DOMAIN ps |-> Datum(store, ps[i])])
     /\ UNCHANGED <<scn, asg, epoch, loader, buf, store, loaded>>

\* The end of a walk; a balanced one is reset for the next round.
EndWalk(t) ==
  LET over == scn.walk \in {"looper", "sampler", "batch"} /\ thread[t].got = Calls
      again == scn.walk = "balance" /\ thread[t].got + 1 < Rounds
  IN /\ thread[t].pc = "walk" /\ (over \/ WalkNext(t) = <<>>)
     /\ thread' = [thread EXCEPT ![t] =
          IF again THEN [@ EXCEPT !.at = BalanceReset(t, N), !.got = @ + 1]
          ELSE [@ EXCEPT !.pc = "done"]]
     /\ UNCHANGED <<scn, asg, epoch, loader, buf, store, seen, loaded>>

-----------------------------------------------------------------------------
ThreadStep(t) ==
  \/ StartDirect(t) \/ ReadRecord(t) \/ AskMaster(t)
  \/ InitBuffer(t) \/ CheckEmpty(t) \/ GetNothing(t) \/ WaitForData(t) \/ GetBatch(t)
  \/ TellLoader(t)
  \/ StartLoad(t) \/ LoadLine(t) \/ LoadAsk(t) \/ LoadEnough(t)
  \/ StartWalk(t) \/ Walk(t) \/ EndWalk(t)

LoaderStep(h) ==
  \/ NewBatch(h) \/ LoadRecord(h) \/ LoadPiece(h) \/ LoadFirst(h) \/ StoreBatch(h)
  \/ FindFull(h) \/ Sleep(h) \/ NotifyGet(h) \/ LoadingFinished(h)

Next ==
  \/ NextEpoch
  \/ \E t \in Threads : ThreadStep(t)
  \/ \E h \in Hosts : LoaderStep(h) \/ Destroy(h)

Spec == Init /\ [][Next]_vars

\* Every thread of the operating system is scheduled; a notified thread gets the
\* mutex eventually.
FairSpec ==
  /\ Spec
  /\ \A t \in Threads : WF_vars(ThreadStep(t))
  /\ \A h \in Hosts : WF_vars(LoaderStep(h))

-----------------------------------------------------------------------------
AllDone == \A t \in Threads : thread[t].pc = "done"
SeenBy(ts, l) == Cardinality(UNION {{t} \X (1..seen[t][l]) : t \in ts})
OfHost(h) == {t \in Threads : HostOf[t] = h}

\* The slots of the ring that hold a batch nobody has taken.
Live(h) == {Wrap(buf[h].start + k, BatchNum) : k \in 0..(buf[h].count - 1)}
InSlots(h, ks) == UNION {{buf[h].slots[k][i] : i \in DOMAIN buf[h].slots[k]} : k \in ks}

\* No line is trained on twice in an epoch, over all the threads of the cluster,
\* although a block has replicas on several hosts, the threads of a process take
\* batches from one ring, and a later epoch lists the url again.  A raw batch with
\* a blank line is left out: its reader keeps the sample of the previous batch in
\* the place of the line (Parsed).
SeenOnce ==
  (scn.path # "store" /\ (scn.fmt = "raw" => Blank = {})) =>
    \A l \in Samples : SeenBy(Threads, l) <= 1

\* The lines of a first epoch, and of every later one when blocks are loaded
\* globally, are all read when the threads of the epoch have ended: those with a
\* replica on a host that has threads when every host loads its own.
EpochComplete ==
  (scn.path = "direct" /\ AllDone /\ (epoch = 1 \/ (scn.fmt # "binary" /\ ~scn.local))) =>
    \A l \in Samples :
      (scn.local => \E t \in Threads : HostOf[t] \in Replicas[l[1]])
        => SeenBy(Threads, l) = 1

\* Until its buffer is destroyed, what the loading thread put into the ring is
\* either in a slot between start_ and end_ or was given to a thread, never both,
\* never overwritten: a full ring blocks the loading thread.
RingExact ==
  \A h \in Hosts : (scn.path = "buffer" /\ buf[h].num # 0) =>
    /\ buf[h].count <= BatchNum
    /\ buf[h].end = Wrap(buf[h].start + buf[h].count, BatchNum)
    /\ \A k \in Live(h) : buf[h].slots[k] # <<>>
    /\ \A l \in loaded[h] \cap Samples :
         (l \in InSlots(h, Live(h))) # (SeenBy(OfHost(h), l) > 0)

\* A thread that reads all the data leaves only when its loading thread is at the
\* end of its input and at most the last batch has not been read: is_empty may
\* answer too early, between the end of the file and the last batch.
OnlyLastMissed ==
  \A t \in Threads :
    (scn.path = "buffer" /\ scn.iters = 0 /\ thread[t].pc = "done") =>
      LET h == HostOf[t]
      IN /\ buf[h].eof /\ loader[h].rest = <<>>
         /\ buf[h].count <= IF loader[h].pc \in {"put", "sleepy", "asleep"} THEN 0 ELSE 1

\* "no more data": when every thread was told so, every line has been read.
EveryLineRead ==
  (scn.path = "buffer" /\ scn.iters = 0 /\ ~scn.local /\ AllDone) =>
    \A l \in Samples : SeenBy(Threads, l) >= 1

\* A walk gives every thread every datum of the store the same number of times, up
\* to one while it goes on, and a balanced walk gives every datum to exactly one
\* thread in every round, whatever chunks are empty.
WalkCovers ==
  LET data == ToSet(FlattenSeq(store))
      rounds == CASE scn.walk = "iterator" -> 1 [] scn.walk = "batch" -> BatchSize
                  [] OTHER -> Rounds
  IN scn.path = "store" =>
       /\ AllDone => \A d \in data :
            IF scn.walk = "balance" THEN SeenBy(Threads, d) = rounds
            ELSE \A t \in Threads : seen[t][d] = rounds
       /\ scn.walk # "balance" =>
            \A t \in Threads : \A d, e \in data : seen[t][d] <= seen[t][e] + 1

\* Every datum is given to the threads as often as it should be.
DataGivenOut == SeenOnce /\ EpochComplete /\ WalkCovers

\* The buffer between the loading thread and its readers neither loses nor
\* repeats a batch, except for the last one.
BufferSound == RingExact /\ OnlyLastMissed

\* Every thread ends: nobody waits for a batch that will not come, and the loading
\* thread does not stay asleep while threads wait.
ThreadsEnd == \A t \in Threads : <>[](thread[t].pc = "done")
-----------------------------------------------------------------------------
(* The inductive invariant behind BufferSound.  A line that a loading       *)
(* thread was given is at one place on its way: in the rest of its piece,   *)
(* in the batch being filled, in one slot of the ring, or with a thread.    *)

ThreadPCs == {"init", "check", "get", "waiting", "tell", "done"}
LoaderPCs == {"none", "first", "top", "fill", "put", "sleepy", "asleep", "notify",
              "finish", "done"}

Assigners ==
  [known : BOOLEAN, left : [Hosts -> SUBSET Blocks], rejected : Nat, rejectedOn : [Hosts -> Nat]]
ThreadStates ==
  [pc : ThreadPCs, rest : {<<>>}, data : Seq(AllLines), got : Nat, at : {Before}]
LoaderStates == [pc : LoaderPCs, rest : Seq(AllLines), tmp : Seq(AllLines), i : Nat]
BufferStates ==
  [slots : [0..(BatchNum - 1) -> Seq(AllLines)], start : Nat, end : Nat, count : Nat,
   num : {0, BatchNum}, eof : BOOLEAN]
BufferTyped ==
  /\ asg \in Assigners
  /\ thread \in [Threads -> ThreadStates]
  /\ loader \in [Hosts -> LoaderStates]
  /\ buf \in [Hosts -> BufferStates]
  /\ seen \in [Threads -> [Samples -> Nat]]
  /\ loaded \in [Hosts -> SUBSET AllLines]

\* The ring: its slots from start_ on hold the batches, and a buffer is destroyed
\* only when nobody reads it any more.
RingShape ==
  \A h \in Hosts :
    /\ buf[h].num = 0 => AllDone
    /\ buf[h].num # 0 =>
         /\ buf[h].start < BatchNum /\ buf[h].count <= BatchNum
         /\ buf[h].end = Wrap(buf[h].start + buf[h].count, BatchNum)
         /\ \A k \in Live(h) : buf[h].slots[k] # <<>>

\* At the end of the input the loading thread holds no line outside its batch.
AtEnd ==
  \A h \in Hosts :
    /\ buf[h].eof => /\ loader[h].rest = <<>>
                     /\ loader[h].pc \in {"put", "sleepy", "asleep", "notify", "top",
                                          "finish", "done"}
    /\ loader[h].pc # "none" => \E t \in Threads : HostOf[t] = h

\* The lines a loading thread has not put into the ring.
Holding(h) == loader[h].pc \in {"fill", "put", "sleepy", "asleep"}
Batched(h) == IF Holding(h) THEN ToSet(loader[h].tmp) ELSE {}

LinesApart ==
  \A h \in Hosts :
    /\ IsInjective(loader[h].rest)
    /\ ToSet(loader[h].rest) \cap Batched(h) = {}
    /\ ToSet(loader[h].rest) \cap loaded[h] = {}
    /\ Batched(h) \cap loaded[h] = {}
    /\ loader[h].pc \in {"none", "first"} => loader[h].rest = <<>> /\ loader[h].tmp = <<>>

\* The assigner has forgotten the blocks these lines are from, and lists them
\* again only when all loading threads are at the end of their input: it has
\* then turned down one request of each.
GivenTo(h) == ToSet(loader[h].rest) \cup Batched(h) \cup loaded[h]
AtEOF == {h \in Hosts : buf[h].eof}
Forgotten ==
  /\ \A h, other \in Hosts : \A l \in GivenTo(h) : l[1] \notin asg.left[other]
  /\ ~asg.known => \/ asg.rejected = 0 /\ \A h \in Hosts : GivenTo(h) = {} /\ ~buf[h].eof
                   \/ \A t \in Threads : buf[HostOf[t]].eof
  /\ scn.fmt # "binary" /\ ~scn.local => asg.rejected = Cardinality(AtEOF)

\* What was put into the ring is in one of its slots or was given to a thread.
SeenOn(h, l) == \E t \in OfHost(h) : seen[t][l] > 0
SeenLoaded(h) == \A l \in Samples : SeenOn(h, l) => l \in loaded[h]
SlotsLoaded(h) == \A k \in Live(h) : ToSet(buf[h].slots[k]) \subseteq loaded[h]
SlotsApart(h) ==
  \A j, k \in Live(h) : j # k => ToSet(buf[h].slots[j]) \cap ToSet(buf[h].slots[k]) = {}
SlotsOrSeen(h) ==
  \A l \in loaded[h] \cap Samples : l \in InSlots(h, Live(h)) <=> ~SeenOn(h, l)
SlotsExact ==
  \A h \in Hosts :
    SeenLoaded(h) /\ (buf[h].num # 0 => SlotsLoaded(h) /\ SlotsApart(h) /\ SlotsOrSeen(h))
DataSeen ==
  \A t \in Threads : \A l \in ToSet(thread[t].data) \cap Samples : seen[t][l] > 0

BufferInv ==
  scn.path = "buffer" =>
    /\ BufferTyped /\ RingShape /\ AtEnd /\ OnlyLastMissed
    /\ LinesApart /\ Forgotten /\ SlotsExact /\ DataSeen
=============================================================================
