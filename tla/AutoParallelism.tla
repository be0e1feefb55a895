--------------------------- MODULE AutoParallelism ---------------------------
(***************************************************************************)
(* AutoParallelismPolicy and IncreaseBestPolicy                            *)
(* (auto_parallelism_task_scheduler.hpp): how many threads per process the *)
(* next piece of an epoch (a stage) runs on.  A stage starts with few       *)
(* threads and takes more until a piece is slower than the one before; the *)
(* rest then runs on the best number, which is remembered for the batch    *)
(* size of the stage.  The policy is a record; the clock is not modelled,  *)
(* so a piece may always have been slower than the one before.             *)
(*                                                                         *)
(* A stage ends when its pieces add up to its length exactly.  One whose   *)
(* length is no multiple of a piece runs past it unless a piece is slower  *)
(* in time, and then goes on until one is: the rest, which is negative by  *)
(* then, makes up for the surplus.                                         *)
(***************************************************************************)
EXTENDS Integers, Sequences, FiniteSets, FiniteSetsExt, Functions

CONSTANTS
  TryIters,   \* try_iters of sub_reset, 10: the iterations of a piece
  MaxWorkers, \* max_worker_per_process of sub_reset, 10
  MaxFaster   \* bound: after so many pieces one is slower than the one before

ASSUME AutoParallelismAssumption ==
  TryIters \in Nat \ {0} /\ MaxWorkers \in Nat \ {0} /\ MaxFaster \in Nat \ {0}

\* sub_reset.
sub_reset(policy) ==
  [policy EXCEPT !.current_worker_per_process = 0, !.max_worker_per_process = MaxWorkers,
                 !.min_worker_per_process = 1, !.try_iters = TryIters]

\* reset_stage, when an epoch ends.
reset_stage(policy) ==
  sub_reset([policy EXCEPT !.current_iters = 0, !.sub_epoch = 0, !.fixed = FALSE,
                           !.worker_per_process_history = <<>>])

NewPolicy ==
  reset_stage([current_worker_per_process |-> 0, max_worker_per_process |-> 0,
               min_worker_per_process |-> 0, worker_per_process_history |-> <<>>,
               try_iters |-> 0, current_iters |-> 0, num_total_iters |-> 0,
               sub_epoch |-> 0, fixed |-> FALSE, current_batchsize |-> 0,
               best |-> <<>>])   \* batchsize_to_best_parallelism_history

\* std::map::insert: what is there stays.
Remember(best, batchsize, n) ==
  [b \in DOMAIN best \union {batchsize} |-> IF b \in DOMAIN best THEN best[b] ELSE n]

fix_parallelism(policy, n) ==
  [policy EXCEPT
     !.best = IF policy.current_batchsize > 0 THEN Remember(@, policy.current_batchsize, n)
              ELSE @,
     !.current_worker_per_process = n,
     !.try_iters = policy.num_total_iters - policy.current_iters,
     !.fixed = TRUE]

\* start_stage; batchsize is 0 when none is given.
start_stage(policy, total_iters, batchsize) ==
  LET p == [policy EXCEPT !.num_total_iters = total_iters, !.current_batchsize = batchsize]
  IN  IF batchsize > 0 /\ batchsize \in DOMAIN p.best
      THEN fix_parallelism(p, p.best[batchsize]) ELSE p

\* finish_subepoch: a piece is done; StageDone is what it returns.
finish_subepoch(policy) ==
  [policy EXCEPT !.worker_per_process_history = Append(@, policy.current_worker_per_process),
                 !.sub_epoch = @ + 1, !.current_iters = @ + policy.try_iters]

StageDone(policy) == policy.current_iters = policy.num_total_iters

\* The batch sizes already seen bound the search: more threads for larger
\* batches.
Smaller(policy) == {b \in DOMAIN policy.best : b < policy.current_batchsize}
Larger(policy) == {b \in DOMAIN policy.best : b > policy.current_batchsize}
NotPruned(policy) == policy
Pruned(policy) ==
  [policy EXCEPT
     !.min_worker_per_process = IF Smaller(policy) = {} THEN @ ELSE policy.best[Max(Smaller(policy))],
     !.max_worker_per_process = IF Larger(policy) = {} THEN @ ELSE policy.best[Min(Larger(policy))]]

Increased(policy) ==
  [policy EXCEPT !.current_worker_per_process = Min({@ + 1, policy.max_worker_per_process})]

\* One more thread, or the last number but one when that was faster.
Try(policy) ==
  (IF policy.sub_epoch <= MaxFaster THEN {Increased(policy)} ELSE {}) \union
  (IF policy.sub_epoch > 1
   THEN {fix_parallelism(policy, policy.worker_per_process_history[policy.sub_epoch - 1])}
   ELSE {})

\* sub_generate_plan
sub_generate_plan(policy) ==
  IF policy.current_worker_per_process # 0 \/ DOMAIN policy.best = {} THEN Try(policy)
  ELSE IF policy.current_batchsize \in DOMAIN policy.best
  THEN {fix_parallelism(policy, policy.best[policy.current_batchsize])}
  ELSE LET p == Pruned(policy) IN
       IF p.min_worker_per_process = p.max_worker_per_process
       THEN {fix_parallelism(p, p.min_worker_per_process)}
       ELSE Try([p EXCEPT !.current_worker_per_process = p.min_worker_per_process - 1])

generate_plan(policy) == IF policy.fixed THEN {policy} ELSE sub_generate_plan(policy)
==============================================================================
