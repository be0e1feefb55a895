-------------------------------- MODULE SVRG --------------------------------
(***************************************************************************)
(* Stochastic variance reduced gradient, exp/svrg: an outer loop of two    *)
(* phases over the tables w (the parameters) and u (the full gradient).    *)
(*                                                                         *)
(*   FGD  every thread reads u and w, and pushes to u its share of the     *)
(*        gradient at w and, to clear the old u, its share of -u;          *)
(*   SGD  every thread reads w once (w0), then updates w from mini-batches.*)
(*                                                                         *)
(* svrg.cpp and auto_svrg.cpp work on BSP tables through a process-level   *)
(* PSBspWorker of their own; chunk_svrg.cpp and auto_chunk_svrg.cpp on SSP *)
(* tables through PSNoneChunkWorker.  The auto_ programs run the SGD phase *)
(* as several instances with other numbers of threads.                     *)
(*                                                                         *)
(* w is the number of updates added to it.  u is a sparse vector over      *)
(* terms <<datum, w>>, the gradient of the datum at that w, in units of    *)
(* 1/Scale so that a share of it is an integer.                            *)
(***************************************************************************)
EXTENDS DataStore, Functions, FiniteSetsExt

CONSTANTS
  Programs,   \* the programs to run, each with its threads and bounds
  Stores,     \* the data store of each process, after the load task
  Scale,      \* a multiple of every number of threads
  staleness

ASSUME ProgramsAssumption ==
  \A g \in Programs : /\ g.chunk \in BOOLEAN /\ g.auto \in BOOLEAN
                      /\ g.fgd \in Nat \ {0} /\ g.sgd \subseteq Nat \ {0} /\ g.sgd # {}
                      /\ g.outer_loop \in Nat \ {0} /\ g.inner_loop \in Nat \ {0}
                      /\ g.parts \in Nat \ {0}   \* bound: instances of an SGD phase
                      /\ Scale % (g.fgd * Len(Stores)) = 0
ASSUME StalenessAssumption == staleness \in Nat

VARIABLES
  program,
  outer, phase,   \* where the program is: "FGD", "SGD" or "end"
  part,           \* instances run in this SGD phase
  n,              \* threads of each process in this instance
  script,         \* what they do
  table,          \* the servers' tables
  model,          \* the shared model of each process for each table
  th,             \* the threads
  start_w,        \* history: w when the instance began
  full_w          \* history: w when the last FGD began

vars == <<program, outer, phase, part, n, script, table, model, th, start_w, full_w>>

Procs == 1 .. Len(Stores)
Tables == {"w", "u"}
Workers == Procs \X (1 .. n)
NumWorkers == Len(Stores) * n
None == -1
MinClock(clocks) == Min(Range(clocks))

------------------------------------------------------------------------------
(* Values.                                                                 *)

NoTerm == [x \in {} |-> 0]
Zero(t) == IF t = "w" THEN 0 ELSE NoTerm

At(f, x) == IF x \in DOMAIN f THEN f[x] ELSE 0
Sum(f, g) == LET s == [x \in DOMAIN f \union DOMAIN g |-> At(f, x) + At(g, x)]
             IN  Restrict(s, {x \in DOMAIN s : s[x] # 0})
Add(t, a, b) == IF t = "w" THEN a + b ELSE Sum(a, b)

------------------------------------------------------------------------------
(* The servers, with the guarantees of BSPServer and SSPServer.  pulls and *)
(* pushes count the requests of every worker in this instance.             *)

NewTable(v, ws) == [val |-> v, pend |-> NoTerm, pulls |-> [x \in ws |-> 0],
                    pushes |-> [x \in ws |-> 0]]

\* BSP: the pushes of an iteration are added when all have come, so that no
\* pull of the iteration sees one of them.
BSPPush(t, x, v) ==
  LET s == [table[t] EXCEPT !.pushes[x] = @ + 1,
              !.pend = IF t = "w" THEN [y \in {0} |-> At(@, 0) + v] ELSE Sum(@, v)]
      total == IF t = "w" THEN At(s.pend, 0) ELSE s.pend IN
  IF \A y \in Workers : s.pushes[y] = s.pushes[x]
  THEN [s EXCEPT !.val = Add(t, @, total), !.pend = NoTerm] ELSE s

\* A pull is answered when every push of the iterations before has come, a
\* push when every pull of its iteration has come.
AnyTime(t, x) == TRUE
PullAnswered(t, x) == \A y \in Workers : table[t].pushes[y] >= table[t].pulls[x] - 1
PushAnswered(t, x) == \A y \in Workers : table[t].pulls[y] >= table[t].pushes[x]

\* SSP: a push is added at once.
SSPPush(t, x, v) == [table[t] EXCEPT !.pushes[x] = @ + 1, !.val = Add(t, @, v)]

------------------------------------------------------------------------------
(* What a thread does in each phase: operations on the tables, and the     *)
(* values pushed.                                                          *)

Op(k, t) == [kind |-> k, table |-> t]

\* FGD_update: read u, read_all_w (with its dummy push), push the new u.
FGD_update == <<Op("pull", "u"), Op("pull", "w"), Op("push", "w"), Op("push", "u")>>

\* SGD_update: read_all_w, then mini-batches past the shared model.
SGD_updateWithoutDummyPush(m) ==
  <<Op("pull", "w")>>
    \o [i \in 1 .. 2 * m |-> Op(IF i % 2 = 1 THEN "raw_pull" ELSE "raw_push", "w")]
SGD_update(m) ==
  <<Op("pull", "w"), Op("push", "w")>>
    \o [i \in 1 .. 2 * m |-> Op(IF i % 2 = 1 THEN "raw_pull" ELSE "raw_push", "w")]

FGD_update_chunk == <<Op("pull_chunks", "u"), Op("pull_chunks", "w"),
                      Op("push_chunks", "u"), Op("push_chunks", "w")>>

SGD_update_chunk(m) ==
  [i \in 1 .. 2 * m + 2 |-> Op(IF i % 2 = 1 THEN "pull_chunks" ELSE "push_chunks", "w")]

Script(ph) ==
  CASE ph = "FGD" /\ ~program.chunk -> FGD_update
    [] ph = "SGD" /\ ~program.chunk -> SGD_update(program.inner_loop)
    [] ph = "FGD" /\ program.chunk -> FGD_update_chunk
    [] ph = "SGD" /\ program.chunk -> SGD_update_chunk(program.inner_loop)

\* "go through all data": the data a thread's DataLoadBalance visits.
Visited(store, pos, num) ==
  LET last == get_data_size(store) + 1
      walk[k \in 0 .. last] ==
        IF k = 0 THEN BalanceStart(store, pos, num)
        ELSE LET p == walk[k - 1] IN IF p = End THEN End ELSE BalanceNext(store, p, pos, num)
  IN  {Datum(store, walk[k]) : k \in {k \in 1 .. last : walk[k] # End}}

MaxThreads == Max(UNION {g.sgd \union {g.fgd} : g \in Programs})
Share == [p \in Procs, pos \in 1 .. MaxThreads, num \in 1 .. MaxThreads * Len(Stores) |->
            Visited(Stores[p], pos, num)]

\* The number of threads the data of a process are divided by: those of the
\* process, and in the chunk version those of all processes.
DataShares == IF program.chunk THEN NumWorkers ELSE n

\* clear_delta: -u divided by the number of threads
ClearPerProcess(u) == [x \in DOMAIN u |-> -(u[x] \div n)]
ClearDelta(u) == [x \in DOMAIN u |-> -(u[x] \div NumWorkers)]

\* delta: the gradient of the visited data, and the clearing of the old u
Gradient(x) ==
  Sum([y \in Share[x[1], x[2], DataShares] \X {th[x].w} |-> Scale],
      ClearDelta(th[x].u))

\* What operation i of the script pushes: the dummy pushes push nothing, a
\* mini-batch (get_gradient_diff) one update.
Pushed(x, i) == CASE script[i].table = "u" -> Gradient(x)
                  [] phase = "SGD" /\ i > 2 -> 1
                  [] OTHER -> 0

------------------------------------------------------------------------------
(* The threads.                                                            *)

\* The fields of PSBspModel, and of the ChunkBasedPSModel and PushBuffer.
NewModel(t) == [params_ |-> Zero(t), push_num_ |-> 0, push_num2_ |-> 0,
                pull_num_ |-> 0, pull_num2_ |-> 0, pulling |-> FALSE,
                pull_vals_ |-> Zero(t), buffer |-> Zero(t), chunk_clocks_ |-> None]

\* A thread: the operation it is at, where in it, and what it has read.
NewThread == [op |-> 1, at |-> "start", u |-> NoTerm, w0 |-> None, w |-> None]

Instance(ph, k) ==
  /\ phase' = ph
  /\ n' = k
  /\ script' = Script(ph)
  /\ table' = [t \in Tables |-> NewTable(table[t].val, Procs \X (1 .. k))]
  /\ model' = [p \in Procs |-> [t \in Tables |-> NewModel(t)]]
  /\ th' = [x \in Procs \X (1 .. k) |-> NewThread]
  /\ start_w' = table["w"].val

Init ==
  /\ program \in Programs
  /\ outer = 0 /\ part = 0 /\ phase = "FGD"
  /\ n = program.fgd
  /\ script = Script("FGD")
  /\ table = [t \in Tables |-> NewTable(Zero(t), Workers)]
  /\ model = [p \in Procs |-> [t \in Tables |-> NewModel(t)]]
  /\ th = [x \in Workers |-> NewThread]
  /\ start_w = 0 /\ full_w = 0

program_vars == <<program, outer, phase, part, n, script, start_w, full_w>>

Running(x, k) == th[x].op <= Len(script) /\ script[th[x].op].kind = k
T(x) == script[th[x].op].table
Move(x, l) == th' = [th EXCEPT ![x].at = l]
Done(x) == th' = [th EXCEPT ![x].op = @ + 1, ![x].at = "start"]

\* What a thread keeps of a pull: u, the first w as w0 and the last as w.
Got(x, t, v) ==
  th' = [th EXCEPT ![x] =
    [IF t = "u" THEN [@ EXCEPT !.u = v]
     ELSE [@ EXCEPT !.w = v, !.w0 = IF @ = None THEN v ELSE @]
     EXCEPT !.op = @ + 1, !.at = "start"]]

\* PSBspModel::Pull: the last thread of the process pulls for all, holding
\* pull_mtx_; the others send an empty request ...
PullJoin(x) ==
  LET t == T(x) IN
  /\ Running(x, "pull") /\ th[x].at = "start" /\ ~model[x[1]][t].pulling
  /\ table' = [table EXCEPT ![t].pulls[x] = @ + 1]
  /\ model' = [model EXCEPT ![x[1]][t].pull_num_ = @ + 1,
                            ![x[1]][t].pulling = model[x[1]][t].pull_num_ + 1 = n]
  /\ Move(x, IF model[x[1]][t].pull_num_ + 1 = n THEN "ask" ELSE "wait")
  /\ UNCHANGED program_vars

PullAll(x) ==
  LET t == T(x) IN
  /\ Running(x, "pull") /\ th[x].at = "ask" /\ PullAnswered(t, x)
  /\ model' = [model EXCEPT ![x[1]][t].pull_vals_ = table[t].val, ![x[1]][t].pulling = FALSE]
  /\ Move(x, "leave")
  /\ UNCHANGED <<program_vars, table>>

\* ... and wait until all have come.  The last to copy the values resets.
Reset(m, a, b) == IF m[b] + 1 = n THEN [m EXCEPT ![a] = 0, ![b] = 0] ELSE [m EXCEPT ![b] = @ + 1]

PullLeave(x) ==
  LET t == T(x) m == model[x[1]][t] IN
  /\ Running(x, "pull") /\ th[x].at \in {"wait", "leave"}
  /\ ~m.pulling /\ m.pull_num_ = n
  /\ model' = [model EXCEPT ![x[1]][t] = Reset(m, "pull_num_", "pull_num2_")]
  /\ Got(x, t, m.pull_vals_)
  /\ UNCHANGED <<program_vars, table>>

\* PSBspModel::Push: the threads add up, wait until all have, and the
\* leader's push carries the sum.
PushJoin(x) ==
  LET t == T(x) IN
  /\ Running(x, "push") /\ th[x].at = "start"
  /\ model' = [model EXCEPT ![x[1]][t].params_ = Add(t, @, Pushed(x, th[x].op)),
                            ![x[1]][t].push_num_ = @ + 1]
  /\ Move(x, "wait")
  /\ UNCHANGED <<program_vars, table>>

PushPass(x) ==
  LET t == T(x) m == model[x[1]][t] IN
  /\ Running(x, "push") /\ th[x].at = "wait" /\ m.push_num_ = n
  /\ model' = [model EXCEPT ![x[1]][t] = Reset(m, "push_num_", "push_num2_")]
  /\ Move(x, "send")
  /\ UNCHANGED <<program_vars, table>>

\* A push that holds nothing, of the other threads or a dummy, is neither
\* answered nor waited for.  (It counts at once: arriving later it would only
\* keep others waiting.)
PushSend(x) ==
  LET t == T(x) v == IF x[2] = 1 THEN model[x[1]][t].params_ ELSE Zero(t) IN
  /\ Running(x, "push") /\ th[x].at = "send"
  /\ table' = [table EXCEPT ![t] = BSPPush(t, x, v)]
  /\ model' = IF x[2] = 1 THEN [model EXCEPT ![x[1]][t].params_ = Zero(t)] ELSE model
  /\ IF v = Zero(t) THEN Done(x) ELSE Move(x, "ack")
  /\ UNCHANGED program_vars

\* A mini-batch of SGD_update: Pull and Push of the thread's own KVWorker
RawPull(x) ==
  LET t == T(x) IN
  /\ Running(x, "raw_pull")
  /\ \/ /\ th[x].at = "start" /\ Move(x, "ask")
        /\ table' = [table EXCEPT ![t].pulls[x] = @ + 1]
     \/ /\ th[x].at = "ask" /\ PullAnswered(t, x) /\ Got(x, t, table[t].val)
        /\ UNCHANGED table
  /\ UNCHANGED <<program_vars, model>>

RawPush(x) ==
  /\ Running(x, "raw_push") /\ th[x].at = "start"
  /\ table' = [table EXCEPT ![T(x)] = BSPPush(T(x), x, Pushed(x, th[x].op))]
  /\ Move(x, "ack")
  /\ UNCHANGED <<program_vars, model>>

\* Wait: the push that holds something has been answered.
Acked(x) ==
  /\ th[x].at = "ack" /\ PushAnswered(T(x), x) /\ Done(x)
  /\ UNCHANGED <<program_vars, table, model>>

\* PSNoneChunkWorker::PushChunks puts the chunks in the process's buffer ...
PushChunks(x) ==
  LET t == T(x) IN
  /\ Running(x, "push_chunks")
  /\ model' = [model EXCEPT ![x[1]][t].buffer = Add(t, @, Pushed(x, th[x].op))]
  /\ Done(x)
  /\ UNCHANGED <<program_vars, table>>

\* ... and PullChunks flushes the buffer before it reads the process's chunks,
\* fetched again when they are older than the required clock.  (PSWorkers has
\* the flush under way; of the chunk programs only the end is claimed here.)
Flush(x) ==
  LET t == T(x) IN
  /\ Running(x, "pull_chunks") /\ th[x].at = "start"
  /\ table' = [table EXCEPT ![t] = [SSPPush(t, x, model[x[1]][t].buffer)
                                      EXCEPT !.pulls[x] = @ + 1]]
  /\ model' = [model EXCEPT ![x[1]][t].buffer = Zero(t)]
  /\ Move(x, "ask")
  /\ UNCHANGED program_vars

PullChunks(x) ==
  LET t == T(x)
      m == model[x[1]][t]
      required_clock == table[t].pulls[x] - staleness IN
  /\ Running(x, "pull_chunks") /\ th[x].at = "ask"
  /\ IF m.chunk_clocks_ # None /\ m.chunk_clocks_ >= required_clock
     THEN UNCHANGED model /\ Got(x, t, m.pull_vals_)
     ELSE /\ MinClock(table[t].pushes) >= required_clock
          /\ model' = [model EXCEPT ![x[1]][t].pull_vals_ = table[t].val,
                         ![x[1]][t].chunk_clocks_ = MinClock(table[t].pushes)]
          /\ Got(x, t, table[t].val)
  /\ UNCHANGED <<program_vars, table>>

------------------------------------------------------------------------------
(* The program.                                                            *)

\* Every thread has destroyed its workers, and with them the models and the
\* buffers of its process.  An empty push that is still on its way then (see
\* SSPEpochs) is left out.
InstanceDone == \A x \in Workers : th[x].op > Len(script)

\* Even epochs of the task are FGD, odd ones SGD; the auto_ programs submit
\* an FGD task and an AutoParallelismTask, which runs instance after instance.
StartSGD ==
  /\ InstanceDone /\ phase = "FGD"
  /\ part' = 1
  /\ full_w' = start_w
  /\ \E k \in program.sgd : Instance("SGD", k)
  /\ UNCHANGED <<program, outer>>

NextPart ==
  /\ InstanceDone /\ phase = "SGD" /\ program.auto /\ part < program.parts
  /\ part' = part + 1
  /\ \E k \in program.sgd : Instance("SGD", k)
  /\ UNCHANGED <<program, outer, full_w>>

StartFGD ==
  /\ InstanceDone /\ phase = "SGD" /\ outer + 1 < program.outer_loop
  /\ outer' = outer + 1
  /\ part' = 0
  /\ Instance("FGD", program.fgd)
  /\ UNCHANGED <<program, full_w>>

End_ ==
  /\ InstanceDone /\ phase = "SGD" /\ outer + 1 = program.outer_loop
  /\ phase' = "end"
  /\ UNCHANGED <<program, outer, part, n, script, table, model, th, start_w, full_w>>

Finished == phase = "end" /\ UNCHANGED vars

Step(x) ==
  \/ PullJoin(x) \/ PullAll(x) \/ PullLeave(x) \/ PushJoin(x) \/ PushPass(x)
  \/ PushSend(x) \/ RawPull(x) \/ RawPush(x) \/ Acked(x)
  \/ PushChunks(x) \/ Flush(x) \/ PullChunks(x)

Next == (\E x \in Workers : Step(x)) \/ StartSGD \/ NextPart \/ StartFGD \/ End_ \/ Finished

Spec == Init /\ [][Next]_vars
\* Threads run until they block, servers answer, and the cluster manager
\* starts the next instance.
FairSpec == Spec /\ WF_vars(Next)

------------------------------------------------------------------------------
(* Properties.                                                             *)

AllData == UNION {UNION {Range(Stores[p][c]) : c \in 1 .. Len(Stores[p])} : p \in Procs}

\* While SGD runs, u is the gradient of every datum of every process, each
\* once, at the w where the FGD phase began: nothing of an older u is left.
FullGradientAlways ==
  phase = "SGD" => table["u"].val = [y \in AllData \X {full_w} |-> Scale]

\* ... for the programs on BSP tables, whatever the order of their threads.
FullGradient == program.chunk \/ FullGradientAlways

\* On BSP tables every thread of an SGD instance takes the same w0, and in
\* mini-batch m works on the w with every update of the mini-batches before,
\* each once.
SnapshotShared ==
  phase = "SGD" /\ ~program.chunk =>
    \A x \in Workers : th[x].w0 # None =>
      /\ th[x].w0 = start_w
      /\ th[x].op >= 3 => th[x].w = start_w + NumWorkers * (IF th[x].op <= 3 THEN 0
                                                            ELSE (th[x].op - 4) \div 2)

\* Every program comes to its end: no barrier of the threads of a process,
\* and no held request, keeps it waiting for ever.
ProgramEnds == <>(phase = "end")
=============================================================================
