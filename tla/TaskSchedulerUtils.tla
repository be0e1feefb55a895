-------------------------- MODULE TaskSchedulerUtils --------------------------
(***************************************************************************)
(* How the task schedulers choose threads for an instance: AvailableWorkers *)
(* and select_threads_from_subset with get_preferred_proc and              *)
(* global_guarantee_threads (cluster_manager/task_scheduler/).             *)
(*                                                                         *)
(* The threads that are free are a set, `available'; workers_ and          *)
(* pid_tids_ are two indices of it.  Both are hash tables, so which of the *)
(* free threads of a process are taken is left open: a selection operator  *)
(* yields the set of all thread sets the code may return, and {{}} when    *)
(* the code returns the empty vector.                                      *)
(***************************************************************************)
EXTENDS Integers, Sequences, FiniteSets, FiniteSetsExt

CONSTANTS
  NumProcs,        \* num_processes_
  ThreadsPerProc,  \* worker threads of one process
  Tasks            \* the tasks of the program, by task id

Procs == 0 .. NumProcs - 1
Threads == Procs \X (1 .. ThreadsPerProc)   \* the global thread ids
get_process_id(t) == t[1]

\* worker_num and worker_num_type of a ConfigurableWorkersTask, entry by entry;
\* `on' is the process of "threads_on_worker:<on>".
WorkerNum == [num : Nat, on : Procs,
              type : {"threads_per_worker", "threads_per_cluster", "local_threads",
                      "threads_traverse_cluster", "threads_on_worker"}]

TaskIds == DOMAIN Tasks

ASSUME SchedulerAssumption ==
  /\ NumProcs \in Nat \ {0}
  /\ ThreadsPerProc \in Nat \ {0}
  /\ IsFiniteSet(TaskIds)
  /\ \A id \in TaskIds :
       /\ Tasks[id].type \in {"Basic", "ConfigurableWorkers", "AutoParallelism"}
       /\ Tasks[id].local \in BOOLEAN /\ Tasks[id].dmt \in BOOLEAN
       /\ Tasks[id].dmt => Tasks[id].local /\ Tasks[id].type = "Basic"
       /\ Tasks[id].iters_ \in Seq(Nat) /\ Tasks[id].batchsizes_ \in Seq(Nat)
       /\ Tasks[id].type = "AutoParallelism" =>
            Len(Tasks[id].iters_) = Tasks[id].total_epoch
       /\ Tasks[id].num_workers \in Nat
       /\ Tasks[id].total_epoch \in Nat \ {0}
       /\ Tasks[id].worker_num \in Seq(WorkerNum)
       /\ Tasks[id].type = "ConfigurableWorkers" => Tasks[id].worker_num # <<>>

------------------------------------------------------------------------------
(* AvailableWorkers.                                                       *)

Local(available, p) == {t \in available : get_process_id(t) = p}
NumLocal(available, p) == Cardinality(Local(available, p))

\* The ways to take need[p] free threads of each process p.
Take(available, need) ==
  {S \in SUBSET available : \A p \in Procs : NumLocal(S, p) = need[p]}

None == {{}}   \* the requirement cannot be satisfied

get_workers_per_process(available, n) ==
  IF \A p \in Procs : NumLocal(available, p) >= n
    THEN Take(available, [p \in Procs |-> n]) ELSE None

\* Drawn at random from all free threads.
get_workers(available, n) ==
  IF Cardinality(available) >= n THEN kSubset(n, available) ELSE None

get_workers_exact_process(available, n, proc) ==
  IF NumLocal(available, proc) >= n
    THEN Take(available, [p \in Procs |-> IF p = proc THEN n ELSE 0]) ELSE None

\* All threads from one process, whichever comes first in the hash table.
get_local_workers(available, n) ==
  LET enough == {p \in Procs : NumLocal(available, p) >= n}
  IN  IF enough = {} THEN None
      ELSE UNION {get_workers_exact_process(available, n, p) : p \in enough}

\* get_preferred_proc: the processes the task has visited least often.
get_preferred_proc(history) ==
  {p \in Procs : \A q \in Procs : history[p] <= history[q]}

\* The first of some processes that has enough free threads.
FirstOf(available, n, procs) ==
  LET enough == {p \in procs : NumLocal(available, p) >= n}
  IN  IF enough = {} THEN None
      ELSE get_workers_exact_process(available, n, Min(enough))

get_traverse_workers(available, n, history) ==
  FirstOf(available, n, get_preferred_proc(history))

------------------------------------------------------------------------------
(* select_threads_from_subset.                                             *)

\* The last case, threads of several processes: first the same number from
\* every candidate, then one more from each in turn until there are enough.
\* Together that takes the candidates' threads in rounds, in the order of the
\* processes: thread k of process p before thread j of process q when k < j,
\* or k = j and p < q.
Spread(available, n, candidate_proc) ==
  LET before(k, p) ==
        {jq \in (1 .. ThreadsPerProc) \X candidate_proc :
           /\ jq[1] <= NumLocal(available, jq[2])
           /\ jq[1] < k \/ (jq[1] = k /\ jq[2] < p)}
      need(p) ==
        IF p \notin candidate_proc THEN 0
        ELSE Cardinality({k \in 1 .. NumLocal(available, p) :
                            Cardinality(before(k, p)) < n})
  IN  IF Cardinality({t \in available : get_process_id(t) \in candidate_proc}) >= n
        THEN Take(available, [p \in Procs |-> need(p)]) ELSE None

\* instance_basic_setup: a basic task without a number of workers gets one.
NumWorkers(task) ==
  IF task.type = "Basic" /\ task.num_workers = 0 THEN 1 ELSE task.num_workers

\* The entry of a ConfigurableWorkersTask for an epoch.
WorkerNumOf(task, epoch) ==
  task.worker_num[(epoch % Len(task.worker_num)) + 1]

select_threads_from_subset(task, epoch, available, history, candidate_proc) ==
  IF task.type = "ConfigurableWorkers"
    THEN LET w == WorkerNumOf(task, epoch) IN
         CASE w.type = "threads_per_worker"  -> get_workers_per_process(available, w.num)
           [] w.type = "threads_per_cluster" -> get_workers(available, w.num)
           [] w.type = "local_threads"       -> get_local_workers(available, w.num)
           [] w.type = "threads_traverse_cluster" ->
                get_traverse_workers(available, w.num, history)
           [] w.type = "threads_on_worker" ->
                get_workers_exact_process(available, w.num, w.on)
  ELSE IF task.type = "Basic" /\ task.local
    THEN FirstOf(available, NumWorkers(task), candidate_proc)
    ELSE Spread(available, NumWorkers(task), candidate_proc)

\* The number of threads an instance runs on.
InstanceSize(task, epoch) ==
  IF task.type # "ConfigurableWorkers" THEN NumWorkers(task)
  ELSE LET w == WorkerNumOf(task, epoch)
       IN  IF w.type = "threads_per_worker" THEN w.num * NumProcs ELSE w.num

\* global_guarantee_threads, for one task: the cluster is large enough for it.
global_guarantee_threads(task) ==
  LET total == NumProcs * ThreadsPerProc IN
  IF task.type = "ConfigurableWorkers"
    THEN \A i \in DOMAIN task.worker_num :
           LET w == task.worker_num[i] IN
           CASE w.type = "threads_per_worker"  -> total >= w.num * NumProcs
             [] w.type = "threads_per_cluster" -> total >= w.num
             [] OTHER                          -> ThreadsPerProc >= w.num
    ELSE total >= task.num_workers

\* update_history: one more visit of every process the instance runs on.
update_history(history, threads) ==
  [p \in Procs |-> IF Local(threads, p) # {} THEN history[p] + 1 ELSE history[p]]
==============================================================================
