---------------------------- MODULE ClusterManager ----------------------------
(***************************************************************************)
(* The cluster manager with its task scheduler and scheduler trigger       *)
(* (cluster_manager/), and the worker processes with their main loops,     *)
(* instance runners and threads (worker/).                                 *)
(*                                                                         *)
(* Every process calls Engine::Submit once per round; process 0 sends the  *)
(* tasks of the round to the manager.  The manager assigns threads to the  *)
(* next epoch of each task (an instance) and sends the instance to all     *)
(* processes, which start its local threads.  A thread that is done tells  *)
(* the main loop of its process, which tells the manager.  When all tasks  *)
(* are done the manager tells the processes to leave their main loops.     *)
(*                                                                         *)
(* The sockets are FIFO between a sender and a receiver.  The manager looks *)
(* at the tasks one by one (extract_instances), a step each, so that other *)
(* processes may run in between.                                           *)
(***************************************************************************)
EXTENDS TaskSchedulerUtils, AutoParallelism, SequencesExt

CONSTANTS
  Hints,           \* the values of task_scheduler_type
  CountThreshold,  \* for each hint, count_threshold_ of the SchedulerTrigger
  AngryThreshold,  \* angry_threshold_ of the TaskManager, 5
  Rounds           \* for each hint, the task ids of each Submit

ASSUME ClusterAssumption ==
  /\ Hints \subseteq {"greedy", "sequential", "priority", "autoparallelism"}
  /\ TaskIds \subseteq Nat
  /\ \A hint \in Hints : CountThreshold[hint] \in Nat \ {0}
  /\ AngryThreshold \in Nat \ {0}
  /\ \A hint \in Hints :
       /\ Rounds[hint] \in Seq(Seq(TaskIds))
       /\ IsInjective(FlattenSeq(Rounds[hint]))

VARIABLES
  \* The cluster manager.
  task_scheduler_,    \* the kind of scheduler setup_task_scheduler has created
  cm_pc,              \* "recv", "extract", "angry", "order", "assign", "exited"
                      \* or "thrown"
  tasks_,             \* tasks_ (greedy), tasks_queue_ (sequential)
  task_status_,       \* greedy, priority: 0 ready to run, 1 running, 2 done, 3 angry
  current_epoch_,     \* current_epoch_ of each task
  task_id_pid_tids_,  \* the threads each task runs on
  available_workers_,
  history_,           \* HistoryManager: visits per task and process
  task_priority_,     \* TaskManager: failures to schedule each task
  angry_list_,        \* and the tasks that have failed too often
  process_lock,       \* the processes kept for angry tasks
  policy_,            \* AutoParallelismTaskScheduler: its policy
  last_instance_,     \* HistoryManager: a thread of the last instance of a task
  counter_,           \* SchedulerTrigger: threads finished since scheduling
  todo,               \* the tasks extract_instances has yet to look at
  extracted,          \* the instances it has found
  \* The processes.
  round,              \* the Submit calls made so far
  loop,               \* main_loop: where it is
  instances_,         \* InstanceRunner: the instances on each process
  instance_keeper_,   \* and those of their local threads that are not done
  units_,             \* the threads
  toManager,          \* messages under way from each process to the manager
  toWorker,           \* and back
  model_store_,       \* ModelTransferStore: the epochs whose model is there
  transfers,          \* the orders a ModelTransferManager has not carried out
  loaded,             \* the model each task has been sent: the epoch it is from
  ended               \* history: threads that have run each task and epoch (for
                      \* an AutoParallelismTask the iterations they have run)

scheduler == <<task_scheduler_, tasks_, task_status_, current_epoch_,
               task_id_pid_tids_, available_workers_, task_priority_, angry_list_,
               process_lock, policy_>>
records == <<history_, last_instance_, counter_>>
manager == <<cm_pc, scheduler, records, todo, extracted>>
models == <<model_store_, transfers, loaded>>
workers == <<round, loop, instances_, instance_keeper_, units_, models, ended>>
vars == <<manager, workers, toManager, toWorker>>

Free == [task |-> -1, epoch |-> 0, runs |-> 0, done |-> TRUE]   \* a thread not joinable

InitMessage(r) == [type |-> "Init", round |-> r]
ThreadFinished(id, t) == [type |-> "ThreadFinished", task |-> id, thread |-> t]
ExitMessage == [type |-> "Exit"]
Finished == [type |-> "Finished"]
Instance(id, epoch, threads, iters) ==
  [type |-> "Task", task |-> id, epoch |-> epoch, cluster |-> threads, iters |-> iters]
DirectTransferModel(dst, id) == [type |-> "DirectTransferModel", dst |-> dst, task |-> id]

Leader(threads) == CHOOSE t \in threads : TRUE   \* cluster id 0
NoThread == <<-1, -1>>
IsAuto(id) == Tasks[id].type = "AutoParallelism"

------------------------------------------------------------------------------
(* The task schedulers.                                                    *)

Sequential == task_scheduler_ \in {"sequential", "autoparallelism"}  \* one by one
Priority == task_scheduler_ = "priority"

\* The greedy scheduler starts over, the others queue new tasks.
add_tasks(ids) == tasks_ \o ids
NewTasks(ids) == IF task_scheduler_ = "greedy" THEN ids ELSE add_tasks(ids)

\* AutoParallelismTaskScheduler::start_stage, for a task and an epoch.
StartStage(policy, id, epoch) ==
  LET sizes == Tasks[id].batchsizes_ IN
  start_stage(policy, Tasks[id].iters_[epoch + 1],
              IF sizes = <<>> THEN 0 ELSE sizes[epoch + 1])
StartTask(policy, tasks) ==
  IF tasks # <<>> /\ IsAuto(Head(tasks)) THEN StartStage(policy, Head(tasks), 0) ELSE policy

\* init_tasks.  A task too large for the cluster is an exception, which the
\* priority and the auto-parallelism scheduler do not look for.
init_tasks(ids) ==
  IF \/ task_scheduler_ \in {"priority", "autoparallelism"}
     \/ \A i \in DOMAIN ids : global_guarantee_threads(Tasks[ids[i]])
    THEN /\ tasks_' = NewTasks(ids)
         /\ task_status_' = [id \in TaskIds |-> IF Contains(ids, id) THEN 0 ELSE 2]
         /\ policy_' = IF task_scheduler_ = "autoparallelism"
                       THEN StartTask(policy_, NewTasks(ids)) ELSE policy_
         /\ cm_pc' = "extract"
    ELSE /\ cm_pc' = "thrown"
         /\ UNCHANGED <<tasks_, task_status_, policy_>>

\* The instance is done when the last of its threads is.
LastOfProcess(left, t) == Local(left, get_process_id(t)) = {}
InstanceDone(left, t) == left = {}

\* The sequential scheduler takes the task at the front of its queue to be the
\* one whose instance is done, and pops it after its last epoch.
TaskOf(id) == IF Sequential THEN Head(tasks_) ELSE id
TasksAfter(last) == IF last /\ Sequential THEN Tail(tasks_) ELSE tasks_

\* The instance of task `this' is done: its epoch is, unless it is a piece of
\* a stage that goes on.
EpochDone(this) == ~IsAuto(this) \/ StageDone(finish_subepoch(policy_))
NextPolicy(this, epoch) ==
  LET reset == reset_stage(policy_)
      last == epoch = Tasks[this].total_epoch IN
  CASE ~EpochDone(this) -> finish_subepoch(policy_)
    [] EpochDone(this) /\ last ->
         StartTask(IF IsAuto(this) THEN reset ELSE policy_, TasksAfter(TRUE))
    [] EpochDone(this) /\ ~last /\ IsAuto(this) -> StartStage(reset, this, epoch)
    [] OTHER -> policy_

\* The status of a task after an epoch: finished, or ready for the next one.
StatusAfter(last) == IF last THEN 2 ELSE 0

\* finish_thread, with the worker put back among the available ones.
AddWorker(t) == available_workers_' = available_workers_ \cup {t}
finish_thread(id, t) ==
  LET left == task_id_pid_tids_[id] \ {t}
      this == TaskOf(id)
      epoch == current_epoch_[this] + 1
      last == epoch = Tasks[this].total_epoch
  IN
  /\ task_id_pid_tids_' = [task_id_pid_tids_ EXCEPT ![id] = left]
  /\ AddWorker(t)
  /\ policy_' = IF task_scheduler_ = "autoparallelism" /\ InstanceDone(left, t)
                THEN NextPolicy(this, epoch) ELSE policy_
  /\ IF InstanceDone(left, t) /\ EpochDone(this)
       THEN /\ current_epoch_' = [current_epoch_ EXCEPT ![this] = epoch]
            /\ task_status_' = [task_status_ EXCEPT ![this] = StatusAfter(last)]
            /\ tasks_' = TasksAfter(last)
       ELSE UNCHANGED <<current_epoch_, task_status_, tasks_>>

\* extract_instances: the tasks to look at.  The sequential scheduler only
\* looks at the first one, and only when nothing runs.
MayExtractNext == tasks_ # <<>> /\ \A id \in TaskIds : task_id_pid_tids_[id] = {}
ToExtract ==
  CASE ~Sequential -> tasks_
    [] Sequential /\ MayExtractNext -> <<Head(tasks_)>>
    [] OTHER -> <<>>

\* The greedy scheduler disregards the history of parameter-server tasks; the
\* priority scheduler does so when they are angry.
RunsAnywhere(id) ==
  /\ task_scheduler_ = "greedy" \/ cm_pc = "angry"
  /\ Tasks[id].type = "Basic" /\ ~Tasks[id].local
PreferredProc(id) == get_preferred_proc(history_[id])
proc_ids(id) == IF RunsAnywhere(id) THEN Procs ELSE PreferredProc(id)
candidate_proc(id) == proc_ids(id) \ process_lock

Selections(id) ==
  IF IsAuto(id)
  THEN get_workers_per_process(available_workers_, policy_'.current_worker_per_process)
  ELSE select_threads_from_subset(Tasks[id], current_epoch_[id], available_workers_,
                                  history_[id], candidate_proc(id))

\* TaskManager::suc_sched and fail_sched (task_rejected_times_, which nothing
\* reads, moves with the priority).
erase_angry_task(id) ==
  LET kept[i \in 0 .. Len(angry_list_)] ==
        IF i = 0 THEN <<>>
        ELSE IF angry_list_[i] = id THEN kept[i - 1] ELSE Append(kept[i - 1], angry_list_[i])
  IN  kept[Len(angry_list_)]
suc_sched(id) ==
  /\ task_priority_' = [task_priority_ EXCEPT ![id] = 0]
  /\ angry_list_' = erase_angry_task(id)

Angry(id) ==
  task_priority_[id] + 1 >= AngryThreshold /\ ~Contains(angry_list_, id)
fail_sched(id) ==
  /\ task_priority_' = [task_priority_ EXCEPT ![id] = @ + 1]
  /\ angry_list_' = IF Angry(id) THEN Append(angry_list_, id) ELSE angry_list_
  /\ task_status_' = IF Angry(id) THEN [task_status_ EXCEPT ![id] = 3] ELSE task_status_

\* order_by_priority: the ready tasks; std::sort leaves the order of equals
\* open.
Orders ==
  {o \in SetToSeqs({id \in ToSet(tasks_) : task_status_[id] = 0}) :
     \A i, j \in DOMAIN o : i < j => task_priority_[o[i]] >= task_priority_[o[j]]}

\* The threads taken are erased from workers_ and pid_tids_.
ErasedNone(threads) == available_workers_
Erased(threads) == available_workers_ \ threads

\* The threads are tracked, the history updated and the instance added.
record_and_track(id, threads) ==
  /\ task_id_pid_tids_' = [task_id_pid_tids_ EXCEPT ![id] = @ \cup threads]
  /\ history_' = [history_ EXCEPT ![id] = update_history(@, threads)]
AddInstance(id, threads) ==
  /\ extracted' = Append(extracted, Instance(id, current_epoch_[id], threads,
                                            IF IsAuto(id) THEN policy_'.try_iters ELSE 1))
  /\ available_workers_' = Erased(threads)
  /\ record_and_track(id, threads)
  /\ task_status_' = [task_status_ EXCEPT ![id] = 1]

AllFinished == \A i \in DOMAIN tasks_ : task_status_[tasks_[i]] = 2
is_finished == IF Sequential THEN tasks_ = <<>> ELSE AllFinished

------------------------------------------------------------------------------
(* ClusterManager::serve.                                                  *)

\* The message the manager takes from process p.
Received(p, type) ==
  /\ cm_pc = "recv"
  /\ toManager[p] # <<>>
  /\ Head(toManager[p]).type = type
  /\ toManager' = [toManager EXCEPT ![p] = Tail(@)]

\* kClusterManagerInit: take over the tasks and extract instances.
ReceiveTasks(p) ==
  /\ Received(p, "Init")
  /\ init_tasks(Rounds[task_scheduler_][Head(toManager[p]).round])
  /\ UNCHANGED <<task_scheduler_, current_epoch_, task_id_pid_tids_, available_workers_,
                 task_priority_, angry_list_, process_lock, records, todo, extracted,
                 workers, toWorker>>

\* has_enough_new_threads.  (The timer that would send
\* kClusterManagerTimeOutSchedule is never started.)
HasMoreThan(n) == n > CountThreshold[task_scheduler_]
HasEnough(n) == n = CountThreshold[task_scheduler_]

\* kClusterManagerThreadFinished: release the thread, and extract instances
\* when enough threads have been released.
ReceiveThreadFinished(p) ==
  /\ Received(p, "ThreadFinished")
  /\ LET m == Head(toManager[p]) IN finish_thread(m.task, m.thread)
  /\ IF HasEnough(counter_ + 1)
       THEN counter_' = 0 /\ cm_pc' = "extract"
       ELSE counter_' = counter_ + 1 /\ UNCHANGED cm_pc
  /\ UNCHANGED <<task_scheduler_, task_priority_, angry_list_, process_lock, history_,
                 last_instance_, todo, extracted, workers, toWorker>>

ReceiveExit(p) ==
  /\ Received(p, "Exit")
  /\ cm_pc' = "exited"
  /\ UNCHANGED <<scheduler, records, todo, extracted, workers, toWorker>>

\* extract_instances begins; the priority scheduler with the angry tasks.
BeginExtract ==
  /\ cm_pc = "extract"
  /\ todo' = IF Priority THEN angry_list_ ELSE ToExtract
  /\ cm_pc' = IF Priority THEN "angry" ELSE "assign"
  /\ UNCHANGED <<scheduler, records, extracted, workers, toManager, toWorker>>

\* It goes on with the tasks that are not angry.
OrderByPriority ==
  /\ cm_pc = "angry" /\ todo = <<>>
  /\ cm_pc' = "assign"
  /\ todo' \in Orders
  /\ UNCHANGED <<scheduler, records, extracted, workers, toManager, toWorker>>

\* What becomes of a task that gets threads, and of one that gets none: the
\* sequential scheduler throws, the auto-parallelism scheduler asserts, the
\* priority scheduler keeps the processes an angry task prefers.
Succeeds(id, threads) ==
  /\ AddInstance(id, threads)
  /\ IF Priority THEN suc_sched(id) ELSE UNCHANGED <<task_priority_, angry_list_>>
  /\ UNCHANGED <<cm_pc, process_lock>>
Fails(id) ==
  /\ cm_pc' = IF Sequential THEN "thrown" ELSE cm_pc
  /\ process_lock' = IF cm_pc = "angry" THEN process_lock \union proc_ids(id) ELSE process_lock
  /\ IF Priority /\ cm_pc = "assign" THEN fail_sched(id)
     ELSE UNCHANGED <<task_priority_, angry_list_, task_status_>>
  /\ UNCHANGED <<extracted, available_workers_, history_, task_id_pid_tids_>>

\* Only tasks that are ready, or angry, are given threads.
Skips(id) == ~Sequential /\ task_status_[id] \notin {0, 3}

\* One round of the loop in extract_instances.
Assign ==
  /\ cm_pc \in {"angry", "assign"}
  /\ todo # <<>>
  /\ todo' = Tail(todo)
  /\ LET id == Head(todo) IN
     /\ policy_' \in IF IsAuto(id) THEN generate_plan(policy_) ELSE {policy_}
     /\ IF Skips(id)
       THEN UNCHANGED <<cm_pc, extracted, available_workers_, task_id_pid_tids_,
                        history_, task_status_, task_priority_, angry_list_, process_lock>>
       ELSE \E threads \in Selections(id) :
              IF threads # {} THEN Succeeds(id, threads) ELSE Fails(id)
  /\ UNCHANGED <<task_scheduler_, tasks_, current_epoch_, last_instance_, counter_,
                 workers, toManager, toWorker>>

\* send_last_instance: after the first epoch of a task with direct model
\* transfer, the process that ran the last one is told to send the model.
TransferToNew(m, p) ==
  Tasks[m.task].dmt /\ m.epoch > 0 /\ p = get_process_id(Leader(m.cluster))
TransferTo(m, p) ==
  /\ Tasks[m.task].dmt /\ m.epoch > 0
  /\ p = get_process_id(last_instance_[m.task])
ToOneProcess(m, p) ==
  <<m>> \o (IF TransferTo(m, p) THEN <<DirectTransferModel(Leader(m.cluster), m.task)>>
            ELSE <<>>)

\* extract_instaces, its end: send the instances to all processes, and the
\* exit signal when all tasks are done.
Send ==
  /\ cm_pc = "assign"
  /\ todo = <<>>
  /\ toWorker' = [p \in Procs |->
       toWorker[p] \o FlattenSeq([i \in DOMAIN extracted |-> ToOneProcess(extracted[i], p)])
                   \o (IF is_finished THEN <<Finished>> ELSE <<>>)]
  /\ last_instance_' = [id \in TaskIds |->
       IF \E m \in ToSet(extracted) : m.task = id
       THEN Leader((CHOOSE m \in ToSet(extracted) : m.task = id).cluster)
       ELSE last_instance_[id]]
  /\ process_lock' = {}
  /\ extracted' = <<>>
  /\ cm_pc' = "recv"
  /\ UNCHANGED <<task_scheduler_, tasks_, task_status_, current_epoch_, task_id_pid_tids_,
                 available_workers_, task_priority_, angry_list_, policy_, history_,
                 counter_, todo, workers, toManager>>

------------------------------------------------------------------------------
(* Worker and InstanceRunner.                                              *)

\* Engine::Submit; only process 0 sends the tasks.
Submit(p) ==
  /\ loop[p].pc = "out"
  /\ round[p] < Len(Rounds[task_scheduler_])
  /\ round' = [round EXCEPT ![p] = @ + 1]
  /\ loop' = [loop EXCEPT ![p] = [pc |-> "recv"]]
  /\ toManager' = IF p = 0 THEN [toManager EXCEPT ![p] =
                                   Append(@, InitMessage(round[p] + 1))]
                           ELSE toManager
  /\ UNCHANGED <<manager, instances_, instance_keeper_, units_, models, toWorker, ended>>

\* Engine::Exit, after the last Submit.
Exit(p) ==
  /\ loop[p].pc = "out"
  /\ round[p] = Len(Rounds[task_scheduler_])
  /\ loop' = [loop EXCEPT ![p] = [pc |-> "exited"]]
  /\ toManager' = IF p = 0 THEN [toManager EXCEPT ![p] = Append(@, ExitMessage)]
                           ELSE toManager
  /\ UNCHANGED <<manager, round, instances_, instance_keeper_, units_, models, toWorker, ended>>

\* A message from the manager that main_loop may take.
Arrived(p, type) ==
  /\ loop[p].pc = "recv"
  /\ toWorker[p] # <<>>
  /\ Head(toWorker[p]).type = type

\* kTaskType, run_instance: start the local threads, if there are any.
run_instance(p) ==
  /\ Arrived(p, "Task")
  /\ toWorker' = [toWorker EXCEPT ![p] = Tail(@)]
  /\ LET m == Head(toWorker[p])
         local_threads == Local(m.cluster, p)
     IN  /\ units_' = [t \in Threads |->
              IF t \in local_threads
                THEN [task |-> m.task, epoch |-> m.epoch, done |-> FALSE,
                      runs |-> IF IsAuto(m.task) /\ t # Leader(m.cluster) THEN 0 ELSE m.iters]
                ELSE units_[t]]
         /\ IF local_threads = {}
              THEN UNCHANGED <<instances_, instance_keeper_>>
              ELSE /\ instances_' = [instances_ EXCEPT ![p] = @ \cup {m.task}]
                   /\ instance_keeper_' =
                        [instance_keeper_ EXCEPT ![p][m.task] = local_threads]
  /\ UNCHANGED <<manager, round, loop, models, ended, toManager>>

\* assign_worker: the thread has run the task and sends kThreadFinished.  With
\* direct model transfer the task needs the model of the epoch before, and
\* leaves its own in the store of the process (see SPMTWorker).  A function
\* told to run less than no iterations runs none.
Ran(u) == IF u.runs > 0 THEN u.runs ELSE 0
HasModel(u) == Tasks[u.task].dmt /\ u.epoch > 0 => loaded[u.task] = u.epoch - 1
ThreadEnds(t) ==
  LET u == units_[t] IN
  /\ ~u.done
  /\ HasModel(u)
  /\ units_' = [units_ EXCEPT ![t].done = TRUE]
  /\ ended' = [ended EXCEPT ![u.task][u.epoch] = @ + Ran(u)]
  /\ model_store_' = IF Tasks[u.task].dmt
                     THEN [model_store_ EXCEPT ![get_process_id(t)][u.task] = u.epoch]
                     ELSE model_store_
  /\ UNCHANGED <<manager, round, loop, instances_, instance_keeper_, transfers, loaded,
                 toManager, toWorker>>

\* kClusterManagerDirectTransferModel: the worker passes the order on to the
\* thread of the ModelTransferManager of its process.
SendTask(p) ==
  /\ Arrived(p, "DirectTransferModel")
  /\ toWorker' = [toWorker EXCEPT ![p] = Tail(@)]
  /\ transfers' = [transfers EXCEPT ![p] = Append(@, Head(toWorker[p]))]
  /\ UNCHANGED <<manager, round, loop, instances_, instance_keeper_, units_,
                 model_store_, loaded, ended, toManager>>

\* It takes the model out of the store and sends it to the new leader of the
\* task.
TransferModel(p) ==
  LET m == Head(transfers[p]) IN
  /\ transfers[p] # <<>>
  /\ transfers' = [transfers EXCEPT ![p] = Tail(@)]
  /\ loaded' = [loaded EXCEPT ![m.task] = model_store_[p][m.task]]
  /\ model_store_' = [model_store_ EXCEPT ![p][m.task] = -1]
  /\ UNCHANGED <<manager, round, loop, instances_, instance_keeper_, units_, ended,
                 toManager, toWorker>>

\* kThreadFinished: join the thread and tell the manager.
WorkerFinishThread(t) ==
  LET p == get_process_id(t)
      id == units_[t].task
  IN
  /\ loop[p].pc = "recv"
  /\ units_[t].done /\ units_[t] # Free
  /\ instance_keeper_' = [instance_keeper_ EXCEPT ![p][id] = @ \ {t}]
  /\ units_' = [units_ EXCEPT ![t] = Free]
  /\ toManager' = [toManager EXCEPT ![p] = Append(@, ThreadFinished(id, t))]
  /\ loop' = [loop EXCEPT ![p] = [pc |-> "told", task |-> id]]
  /\ UNCHANGED <<manager, round, instances_, models, ended, toWorker>>

is_instance_done(p, id) == instance_keeper_[p][id] = {}

\* kThreadFinished, its end: remove the instance when all threads are done.
RemoveInstance(p) ==
  /\ loop[p].pc = "told"
  /\ instances_' = IF is_instance_done(p, loop[p].task)
                     THEN [instances_ EXCEPT ![p] = @ \ {loop[p].task}]
                     ELSE instances_
  /\ loop' = [loop EXCEPT ![p] = [pc |-> "recv"]]
  /\ UNCHANGED <<manager, round, instance_keeper_, units_, models, ended, toManager, toWorker>>

\* kClusterManagerFinished: Submit returns.
LeaveLoop(p) ==
  /\ Arrived(p, "Finished")
  /\ toWorker' = [toWorker EXCEPT ![p] = Tail(@)]
  /\ loop' = [loop EXCEPT ![p] = [pc |-> "out"]]
  /\ UNCHANGED <<manager, round, instances_, instance_keeper_, units_, models, ended, toManager>>

------------------------------------------------------------------------------
Init ==
  /\ task_scheduler_ \in Hints
  /\ cm_pc = "recv"
  /\ tasks_ = <<>>
  /\ task_status_ = [id \in TaskIds |-> 2]
  /\ current_epoch_ = [id \in TaskIds |-> 0]
  /\ task_id_pid_tids_ = [id \in TaskIds |-> {}]
  /\ available_workers_ = Threads
  /\ history_ = [id \in TaskIds |-> [p \in Procs |-> 0]]
  /\ task_priority_ = [id \in TaskIds |-> 0]
  /\ angry_list_ = <<>>
  /\ process_lock = {}
  /\ policy_ = NewPolicy
  /\ last_instance_ = [id \in TaskIds |-> NoThread]
  /\ counter_ = 0
  /\ todo = <<>>
  /\ extracted = <<>>
  /\ round = [p \in Procs |-> 0]
  /\ loop = [p \in Procs |-> [pc |-> "out"]]
  /\ instances_ = [p \in Procs |-> {}]
  /\ instance_keeper_ = [p \in Procs |-> [id \in TaskIds |-> {}]]
  /\ units_ = [t \in Threads |-> Free]
  /\ toManager = [p \in Procs |-> <<>>]
  /\ toWorker = [p \in Procs |-> <<>>]
  /\ model_store_ = [p \in Procs |-> [id \in TaskIds |-> -1]]
  /\ transfers = [p \in Procs |-> <<>>]
  /\ loaded = [id \in TaskIds |-> -1]
  /\ ended = [id \in TaskIds |-> [e \in 0 .. Tasks[id].total_epoch - 1 |-> 0]]

Manager ==
  \/ \E p \in Procs : ReceiveTasks(p) \/ ReceiveThreadFinished(p) \/ ReceiveExit(p)
  \/ BeginExtract
  \/ OrderByPriority
  \/ Assign
  \/ Send

MainLoop(p) ==
  \/ Submit(p)
  \/ Exit(p)
  \/ run_instance(p)
  \/ \E t \in Threads : get_process_id(t) = p /\ WorkerFinishThread(t)
  \/ RemoveInstance(p)
  \/ SendTask(p)
  \/ LeaveLoop(p)

Next ==
  \/ Manager
  \/ \E p \in Procs : MainLoop(p) \/ TransferModel(p)
  \/ \E t \in Threads : ThreadEnds(t)

Spec == Init /\ [][Next]_vars

\* The loops go on as long as there are messages (the sockets are fair to
\* their senders), and the function each task runs returns.
Fairness ==
  /\ WF_vars(Manager)
  /\ \A p \in Procs : WF_vars(MainLoop(p)) /\ WF_vars(TransferModel(p))
  /\ \A t \in Threads : WF_vars(ThreadEnds(t))

FairSpec == Spec /\ Fairness

------------------------------------------------------------------------------
(* Properties.                                                             *)

\* Messages that concern a thread or an instance.
InTransit(p) == {toWorker[p][i] : i \in DOMAIN toWorker[p]}
Reported(p) == {toManager[p][i] : i \in DOMAIN toManager[p]}

\* The types of the state; the counter of the trigger stays below its
\* threshold, which has_enough_new_threads tests for equality.
TypeOK ==
  /\ cm_pc \in {"recv", "extract", "angry", "assign", "exited", "thrown"}
  /\ \A i \in DOMAIN tasks_ : tasks_[i] \in TaskIds
  /\ task_status_ \in [TaskIds -> 0 .. 3]
  /\ \A id \in TaskIds : current_epoch_[id] \in 0 .. Tasks[id].total_epoch
  /\ task_id_pid_tids_ \in [TaskIds -> SUBSET Threads]
  /\ available_workers_ \subseteq Threads
  /\ history_ \in [TaskIds -> [Procs -> Nat]]
  /\ counter_ \in 0 .. CountThreshold[task_scheduler_] - 1
  /\ \A i \in DOMAIN todo : todo[i] \in TaskIds
  /\ round \in [Procs -> 0 .. Len(Rounds[task_scheduler_])]
  /\ \A p \in Procs : loop[p].pc \in {"out", "recv", "told", "exited"}
  /\ instances_ \in [Procs -> SUBSET TaskIds]
  /\ instance_keeper_ \in [Procs -> [TaskIds -> SUBSET Threads]]

\* The assertions of run_instance, whenever an instance may be taken from the
\* socket: the process does not run an instance of the same task, although
\* the manager is told that its threads are done before it is removed, and
\* the units of its threads are not joinable.
RunInstanceAsserts ==
  \A p \in Procs : Arrived(p, "Task") =>
    LET m == Head(toWorker[p])
    IN  /\ m.task \notin instances_[p]
        /\ \A t \in Local(m.cluster, p) : units_[t] = Free

\* The manager's books agree with the processes across the messages under
\* way: a thread is either available or assigned to exactly one task; one
\* that is available is idle and no message speaks of it; one that is
\* assigned is busy, or exactly one message about it is on its way.
ThreadsAccounted ==
  \A t \in Threads :
    LET p == get_process_id(t)
        assigned == {id \in TaskIds : t \in task_id_pid_tids_[id]}
        coming == {m \in InTransit(p) \cup ToSet(extracted) :
                     m.type = "Task" /\ t \in m.cluster}
        going == {m \in Reported(p) : m.type = "ThreadFinished" /\ m.thread = t}
        busy == IF units_[t] = Free THEN 0 ELSE 1
        known == Cardinality(coming) + busy + Cardinality(going)
    IN  IF t \in available_workers_
          THEN assigned = {} /\ known = 0
          ELSE Cardinality(assigned) = 1 /\ known = 1

\* What the threads of an epoch add up to.  A stage that is no multiple of a
\* piece may have run more.
Due(id, e) == IF IsAuto(id) THEN Tasks[id].iters_[e + 1] ELSE InstanceSize(Tasks[id], e)
InPieces(id, e) == IsAuto(id) => Due(id, e) % TryIters = 0
Ended(id, e) ==
  /\ ended[id][e] >= Due(id, e)
  /\ InPieces(id, e) => ended[id][e] = Due(id, e)

\* Epochs of a task never overlap: while a thread runs the task in one epoch,
\* all threads of the epochs before have returned.  The SSP and BSP servers
\* reset their state between epochs and rely on it.
EpochBarrier ==
  \A t \in Threads : ~units_[t].done =>
    \A e \in 0 .. units_[t].epoch - 1 : Ended(units_[t].task, e)

\* "return when all the buffered tasks are finished" (engine.hpp): when Submit
\* returns in any process, every task submitted so far has run all its
\* epochs, each on as many threads as it asks for and none twice, and the
\* process has nothing left to do.
SubmitReturnsDone ==
  \A p \in Procs : loop[p].pc = "out" =>
    /\ \A r \in 1 .. round[p] : \A id \in ToSet(Rounds[task_scheduler_][r]) :
         \A e \in DOMAIN ended[id] : Ended(id, e)
    /\ instances_[p] = {}
    /\ \A t \in Threads : get_process_id(t) = p => units_[t] = Free

\* The scheduler never throws: a task list that global_guarantee_threads
\* accepts is always assigned.  "Assign no instance if 1. task_queue is empty
\* or 2. current instance is still running" (sequential_task_scheduler.cpp).
AlwaysAssigned == cm_pc # "thrown"

\* The order to transfer a model finds the model of the epoch before in the
\* store: the manager sends it to the process that ran that epoch, after all
\* its threads are done (ModelTransferStore::Pop asserts it).
TransferFindsModel ==
  \A p \in Procs : transfers[p] # <<>> =>
    LET id == Head(transfers[p]).task IN model_store_[p][id] = current_epoch_[id] - 1

\* Angry tasks and ready tasks are different tasks, and the parallelism found
\* for larger batches is never less (asserted in sub_generate_plan).
SchedulerBooks ==
  /\ ToSet(angry_list_) = {id \in TaskIds : task_status_[id] = 3}
  /\ IsInjective(angry_list_)
  /\ \A a, b \in DOMAIN policy_.best : a < b => policy_.best[a] <= policy_.best[b]

\* None of these assertions fails, and the scheduler does not throw.
AssertionsHold == RunInstanceAsserts /\ AlwaysAssigned /\ SchedulerBooks

\* An epoch begins, and Submit returns, only when what comes before has ended.
EpochsInOrder == EpochBarrier /\ SubmitReturnsDone

\* Submit is "a blocking method, return when all the buffered tasks are
\* finished" (engine.hpp): it returns.
SubmitReturns ==
  \A p \in Procs : (loop[p].pc = "recv") ~> (loop[p].pc = "out")

------------------------------------------------------------------------------
(* The inductive invariant behind ThreadsAccounted.  A thread is at one     *)
(* place on its way from the manager to its process and back: among the     *)
(* available ones, in an instance that is not yet sent, in one that is on   *)
(* its way, running, or reported.                                           *)

Speaks(m, t) ==
  \/ m.type = "Task" /\ t \in m.cluster
  \/ m.type = "ThreadFinished" /\ m.thread = t

Silent(seq, t) == \A m \in ToSet(seq) : ~Speaks(m, t)
Once(seq, t) ==
  \E n \in DOMAIN seq :
    Speaks(seq[n], t) /\ \A k \in DOMAIN seq : Speaks(seq[k], t) => k = n

AtOnePlace(t, free, unsent, coming, busy, going) ==
  \/ free /\ ~busy /\ Silent(unsent, t) /\ Silent(coming, t) /\ Silent(going, t)
  \/ ~free /\ ~busy /\ Once(unsent, t) /\ Silent(coming, t) /\ Silent(going, t)
  \/ ~free /\ ~busy /\ Silent(unsent, t) /\ Once(coming, t) /\ Silent(going, t)
  \/ ~free /\ busy /\ Silent(unsent, t) /\ Silent(coming, t) /\ Silent(going, t)
  \/ ~free /\ ~busy /\ Silent(unsent, t) /\ Silent(coming, t) /\ Once(going, t)

OnePlace ==
  \A t \in Threads :
    AtOnePlace(t, t \in available_workers_, extracted, toWorker[get_process_id(t)],
               units_[t] # Free, toManager[get_process_id(t)])

\* Wherever it is, it goes under the task whose books it is in.
NamedIn(seq, t) == \A m \in ToSet(seq) : Speaks(m, t) => t \in task_id_pid_tids_[m.task]
Booked ==
  \A t \in Threads :
    /\ \A id \in TaskIds : t \in task_id_pid_tids_[id] => t \notin available_workers_
    /\ \A id, other \in TaskIds :
         t \in task_id_pid_tids_[id] /\ t \in task_id_pid_tids_[other] => id = other
    /\ NamedIn(extracted, t)
    /\ NamedIn(toWorker[get_process_id(t)], t)
    /\ NamedIn(toManager[get_process_id(t)], t)
    /\ units_[t] # Free => t \in task_id_pid_tids_[units_[t].task]

\* The task whose threads run is the first of the sequential scheduler's queue.
FirstRuns ==
  /\ cm_pc \in {"recv", "extract"} => todo = <<>>
  /\ cm_pc = "angry" => Priority
  /\ Sequential =>
       /\ \A id \in TaskIds : task_id_pid_tids_[id] # {} => tasks_ # <<>> /\ id = Head(tasks_)
       /\ todo # <<>> => tasks_ # <<>> /\ todo = <<Head(tasks_)>>

BooksTyped ==
  /\ task_scheduler_ \in Hints
  /\ tasks_ \in Seq(TaskIds) /\ todo \in Seq(TaskIds) /\ angry_list_ \in Seq(TaskIds)
  /\ current_epoch_ \in [TaskIds -> Nat]
  /\ task_id_pid_tids_ \in [TaskIds -> SUBSET Threads]
  /\ available_workers_ \subseteq Threads
  /\ round \in [Procs -> Nat]

MessagesFormed ==
  /\ extracted \in Seq(ToSet(extracted))
  /\ \A m \in ToSet(extracted) : m.type = "Task" /\ m.task \in TaskIds
  /\ DOMAIN toWorker = Procs /\ DOMAIN toManager = Procs
  /\ \A p \in Procs :
       /\ toWorker[p] \in Seq(ToSet(toWorker[p]))
       /\ \A m \in ToSet(toWorker[p]) :
            /\ m.type \in {"Task", "DirectTransferModel", "Finished"}
            /\ m.type = "Task" => m.task \in TaskIds
       /\ toManager[p] \in Seq(ToSet(toManager[p]))
       /\ \A m \in ToSet(toManager[p]) :
            /\ m.type \in {"Init", "ThreadFinished", "Exit"}
            /\ m.type = "Init" => m.round \in DOMAIN Rounds[task_scheduler_]
            /\ m.type = "ThreadFinished" =>
                 m.task \in TaskIds /\ m.thread \in Threads /\ get_process_id(m.thread) = p

UnitsFormed ==
  /\ DOMAIN units_ = Threads
  /\ \A t \in Threads : /\ DOMAIN units_[t] = DOMAIN Free
                        /\ units_[t] # Free => units_[t].task \in TaskIds

Inv == BooksTyped /\ MessagesFormed /\ UnitsFormed /\ FirstRuns /\ OnePlace /\ Booked
------------------------------------------------------------------------------
(* The inductive invariant behind RunInstanceAsserts.  Only a task without  *)
(* threads is given an instance, so that no process has two instances of a  *)
(* task at once.                                                            *)

AtRest == \A id \in TaskIds : task_id_pid_tids_[id] = {}

\* One round of Submit at a time: process 0 is outside its main loop, or its
\* tasks are on their way to the manager, or the manager is at work on them, or
\* the answer is on its way back.  Outside of work nothing runs.
Outside == loop[0].pc \in {"out", "exited"}
Asked == \E m \in ToSet(toManager[0]) : m.type = "Init"
Answered == \E m \in ToSet(toWorker[0]) : m.type = "Finished"
AtMostOne(seq, type) ==
  \A i, k \in DOMAIN seq : seq[i].type = type /\ seq[k].type = type => i = k

Turns ==
  /\ ~(Outside /\ Asked) /\ ~(Outside /\ Answered) /\ ~(Asked /\ Answered)
  /\ AtMostOne(toManager[0], "Init") /\ AtMostOne(toWorker[0], "Finished")
  /\ \A p \in Procs : \A m \in ToSet(toManager[p]) : m.type = "Init" => p = 0
  /\ Outside \/ Asked \/ Answered => AtRest /\ cm_pc \notin {"extract", "angry", "assign"}

\* A task that has threads is one of the scheduler's tasks and marked as running.
Marked ==
  /\ ~Sequential =>
       /\ \A id \in TaskIds :
            task_id_pid_tids_[id] # {} => task_status_[id] = 1 /\ id \in ToSet(tasks_)
       /\ ToSet(todo) \subseteq ToSet(tasks_)
       /\ Priority => ToSet(angry_list_) \subseteq ToSet(tasks_)
  /\ Sequential /\ todo # <<>> => AtRest

\* The instances not yet sent: one of a task at most, with all its threads.
Unsent ==
  /\ \A m \in ToSet(extracted) : /\ m.cluster # {}
                                 /\ m.cluster = task_id_pid_tids_[m.task]
                                 /\ m.epoch = current_epoch_[m.task]
  /\ \A m, n \in ToSet(extracted) : m.task = n.task => m = n
  /\ extracted # <<>> => cm_pc \in {"angry", "assign", "thrown"}

\* The instances on their way to a process: it runs no thread of the task, and
\* only the last one may have threads for it.
SameTask(m, n) == m.type = "Task" /\ n.type = "Task" /\ m.task = n.task
LastOnly(seq, p) ==
  \A i, k \in DOMAIN seq : i < k /\ SameTask(seq[i], seq[k]) => Local(seq[i].cluster, p) = {}
BusyWith(p, id) ==
  {t \in Threads : get_process_id(t) = p /\ units_[t] # Free /\ units_[t].task = id}
OneInstance ==
  \A p \in Procs :
    /\ LastOnly(toWorker[p], p)
    /\ \A m \in ToSet(toWorker[p]) : m.type = "Task" => BusyWith(p, m.task) = {}

\* An instance is kept while one of its threads runs, and until the main loop
\* has looked at the last one.
InstancesKept ==
  \A p \in Procs :
    /\ \A id \in TaskIds : instance_keeper_[p][id] = BusyWith(p, id)
    /\ \A id \in instances_[p] :
         BusyWith(p, id) # {} \/ (loop[p].pc = "told" /\ loop[p].task = id)

RunsTyped ==
  /\ task_status_ \in [TaskIds -> 0 .. 3]
  /\ instances_ \in [Procs -> SUBSET TaskIds]
  /\ instance_keeper_ \in [Procs -> [TaskIds -> SUBSET Threads]]
  /\ DOMAIN loop = Procs
  /\ \A p \in Procs :
       /\ loop[p].pc = "told" => loop[p].task \in TaskIds
       /\ \A m \in ToSet(toWorker[p]) : m.type = "Task" => m.cluster \subseteq Threads

RunsInv == RunsTyped /\ Turns /\ Marked /\ Unsent /\ OneInstance /\ InstancesKept

------------------------------------------------------------------------------
(* The inductive invariant behind TransferFindsModel.  The model of a       *)
(* finished epoch stays where its leader left it until the order to send it *)
(* is carried out.                                                          *)

\* Threads are in the current epoch of their task.
EpochsKept ==
  \A t \in Threads :
    /\ units_[t] # Free => units_[t].epoch = current_epoch_[units_[t].task]
    /\ \A m \in ToSet(toWorker[get_process_id(t)]) :
         Speaks(m, t) => m.epoch = current_epoch_[m.task]

\* Direct model transfer.  A thread is Pending until it has left its model.
Sent(id) == task_id_pid_tids_[id] # {} /\ \A m \in ToSet(extracted) : m.task # id
Pending(t, id) ==
  \/ \E m \in ToSet(toWorker[get_process_id(t)]) : Speaks(m, t) /\ m.task = id
  \/ units_[t] # Free /\ units_[t].task = id /\ ~units_[t].done
ModelAt(id, epoch) ==
  /\ last_instance_[id] \in Threads
  /\ model_store_[get_process_id(last_instance_[id])][id] = epoch
ModelKept(id) ==
  /\ Sent(id) => /\ last_instance_[id] \in Threads
                 /\ Pending(last_instance_[id], id) \/ ModelAt(id, current_epoch_[id])
                 /\ loaded[id] <= current_epoch_[id] - 1
  /\ ~Sent(id) /\ current_epoch_[id] > 0 =>
       ModelAt(id, current_epoch_[id] - 1) /\ loaded[id] < current_epoch_[id] - 1
  /\ ~Sent(id) /\ current_epoch_[id] = 0 => loaded[id] = -1
ModelsLeft == \A id \in TaskIds : Tasks[id].dmt => ModelKept(id)

\* An order to transfer a model: there is one at most, it finds the model, and
\* the leader of the new instance is waiting for it.
SameOrder(m, n) ==
  m.type = "DirectTransferModel" /\ n.type = "DirectTransferModel" /\ m.task = n.task
OnceEach(seq) == \A i, k \in DOMAIN seq : SameOrder(seq[i], seq[k]) => i = k
Ordered(id, p) ==
  \E m \in ToSet(toWorker[p]) \cup ToSet(transfers[p]) :
    m.type = "DirectTransferModel" /\ m.task = id
Served(id, p) ==
  /\ Tasks[id].dmt /\ current_epoch_[id] > 0 /\ Sent(id)
  /\ \A q \in Procs : Ordered(id, q) => q = p
  /\ model_store_[p][id] = current_epoch_[id] - 1
  /\ loaded[id] # current_epoch_[id] - 1
  /\ Pending(last_instance_[id], id)
OrdersOnce ==
  \A p \in Procs :
    /\ OnceEach(toWorker[p]) /\ OnceEach(transfers[p])
    /\ \A m \in ToSet(toWorker[p]), n \in ToSet(transfers[p]) : ~SameOrder(m, n)
OrdersServed == \A id \in TaskIds, p \in Procs : Ordered(id, p) => Served(id, p)

ModelsTyped ==
  /\ loaded \in [TaskIds -> Int] /\ model_store_ \in [Procs -> [TaskIds -> Int]]
  /\ DOMAIN transfers = Procs
  /\ \A p \in Procs :
       /\ transfers[p] \in Seq(ToSet(transfers[p]))
       /\ \A m \in ToSet(transfers[p]) : m.type = "DirectTransferModel" /\ m.task \in TaskIds
       /\ \A m \in ToSet(toWorker[p]) : m.type = "DirectTransferModel" => m.task \in TaskIds

ModelsInv == ModelsTyped /\ EpochsKept /\ ModelsLeft /\ OrdersOnce /\ OrdersServed
=============================================================================
