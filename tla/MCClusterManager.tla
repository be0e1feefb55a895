--------------------------- MODULE MCClusterManager ---------------------------
(* Programs for the cluster manager: tasks and rounds of Submit.           *)
EXTENDS ClusterManager, TLC

Task == [type |-> "Basic", local |-> FALSE, dmt |-> FALSE, num_workers |-> 0,
         total_epoch |-> 1, worker_num |-> <<>>, iters_ |-> <<>>, batchsizes_ |-> <<>>]

Basic(local, num_workers, total_epoch) ==
  [Task EXCEPT !.local = local, !.num_workers = num_workers, !.total_epoch = total_epoch]

Transferring(num_workers, total_epoch) ==
  [Basic(TRUE, num_workers, total_epoch) EXCEPT !.dmt = TRUE]

Configurable(total_epoch, worker_num) ==
  [Task EXCEPT !.type = "ConfigurableWorkers", !.total_epoch = total_epoch,
               !.worker_num = worker_num]

AutoTask(iters, batchsizes) ==
  [Task EXCEPT !.type = "AutoParallelism", !.total_epoch = Len(iters),
               !.iters_ = iters, !.batchsizes_ = batchsizes]

Num(n, type, p) == [num |-> n, type |-> type, on |-> p]

\* Tasks for two processes of two threads: a local one of two threads that
\* visits both processes and takes its model along, one that needs three of
\* the four threads, one of one thread, one that goes through all five ways to
\* choose threads, one that looks for its parallelism, in stages that are and
\* are not multiples of a piece, and one of two threads.
MixedTasks ==
  <<Transferring(2, 2), Basic(FALSE, 3, 2), Basic(FALSE, 0, 1),
    Configurable(5, <<Num(1, "threads_per_worker", 0),
                      Num(3, "threads_per_cluster", 0),
                      Num(2, "local_threads", 0),
                      Num(2, "threads_traverse_cluster", 0),
                      Num(1, "threads_on_worker", 1)>>),
    AutoTask(<<6, 5, 3>>, <<1, 3, 2>>), Basic(FALSE, 2, 1)>>
MixedRounds ==
  [hint \in Hints |->
     CASE hint = "autoparallelism" -> <<<<5, 6>>>>
       [] hint = "sequential" -> <<<<4, 1>>, <<2, 3>>>>
       [] hint \in {"greedy", "priority"} -> <<<<1, 2>>, <<3>>>>]

\* Every instance of the auto-parallelism tasks has an even number of threads.
MixedThresholds == [hint \in Hints |-> IF hint = "autoparallelism" THEN 2 ELSE 1]
OneThread == [hint \in Hints |-> 1]
TwoThreads == [hint \in Hints |-> 2]

\* A parameter-server task of two threads on three processes of one thread.
TravellingTasks == <<Basic(FALSE, 2, 2)>>
TravellingRounds == [hint \in Hints |-> <<<<1>>>>]

\* One task of three threads.
OddTasks == <<Basic(FALSE, 3, 1)>>
OddRounds == [hint \in Hints |-> <<<<1>>>>]
==============================================================================
