------------------------ MODULE ConsistencyController ------------------------
(***************************************************************************)
(* The controllers that pace the threads of one process around a shared    *)
(* model, ml/consistency/*.hpp.  A controller is a record of its fields    *)
(* and of asleep, the threads waiting on cv_.  BeforePush, AfterPush,      *)
(* BeforePull and AfterPull hold mtx_ throughout, so each is one step,     *)
(* except that a thread whose condition does not hold goes to sleep and    *)
(* tests it again only after a notify_all.                                 *)
(***************************************************************************)
EXTENDS Integers, FiniteSets

CONSTANTS
  Threads,    \* the local threads, numbered from 0, the leader
  MaxIter     \* bound: iterations of one thread in one epoch

ASSUME ThreadsAssumption ==
  /\ 0 \in Threads /\ Threads \subseteq Nat /\ IsFiniteSet(Threads)
  /\ MaxIter \in Nat \ {0}

Protocols == {"BSP", "SSP", "ASP", "none"}   \* none: no controller (Hogwild)

staleness_ == 1

BSPFields == [push_count_ |-> 0, pull_count_ |-> 0, reply_phase_ |-> TRUE]

SSPFields == [worker_progress_ |-> [t \in Threads |-> 0],
              clock_count_ |-> [i \in 0 .. MaxIter |-> 0],
              min_clock_ |-> 0]

NewController(workers) ==
  [num_local_workers_ |-> Cardinality(workers), bsp |-> BSPFields,
   ssp |-> SSPFields, asleep |-> {}]

BSPMayPush(ctl) == ~ctl.bsp.reply_phase_

BSPMayPull(ctl) == ctl.bsp.reply_phase_

\* SSP waits in the same way before a push and before a pull.
SSPMayGoOneLater(ctl, t) == ctl.ssp.worker_progress_[t] - staleness_ - 1 <= ctl.ssp.min_clock_
SSPMayGo(ctl, t) == ctl.ssp.worker_progress_[t] - staleness_ <= ctl.ssp.min_clock_

MayPush(p, ctl, t) == /\ p = "BSP" => BSPMayPush(ctl)
                      /\ p = "SSP" => SSPMayGo(ctl, t)

MayPull(p, ctl, t) == /\ p = "BSP" => BSPMayPull(ctl)
                      /\ p = "SSP" => SSPMayGo(ctl, t)

\* cv_.wait and cv_.notify_all
Sleep(ctl, t) == [ctl EXCEPT !.asleep = @ \union {t}]

BSPAfterPush(ctl) ==
  IF ctl.bsp.push_count_ + 1 = ctl.num_local_workers_
  THEN [ctl EXCEPT !.bsp.push_count_ = 0, !.bsp.reply_phase_ = TRUE, !.asleep = {}]
  ELSE [ctl EXCEPT !.bsp.push_count_ = @ + 1]

BSPAfterPullSilent(ctl) ==
  IF ctl.bsp.pull_count_ + 1 = ctl.num_local_workers_
  THEN [ctl EXCEPT !.bsp.pull_count_ = 0, !.bsp.reply_phase_ = FALSE]
  ELSE [ctl EXCEPT !.bsp.pull_count_ = @ + 1]
BSPAfterPull(ctl) ==
  IF ctl.bsp.pull_count_ + 1 = ctl.num_local_workers_
  THEN [ctl EXCEPT !.bsp.pull_count_ = 0, !.bsp.reply_phase_ = FALSE, !.asleep = {}]
  ELSE [ctl EXCEPT !.bsp.pull_count_ = @ + 1]

SSPAfterPush(ctl, t) ==
  LET progress == ctl.ssp.worker_progress_[t]
      full == /\ progress = ctl.ssp.min_clock_
              /\ ctl.ssp.clock_count_[progress] + 1 = ctl.num_local_workers_
  IN [ctl EXCEPT !.ssp.clock_count_[progress] = @ + 1,
                 !.ssp.worker_progress_[t] = @ + 1,
                 !.ssp.min_clock_ = IF full THEN @ + 1 ELSE @,
                 !.asleep = IF full THEN {} ELSE @]

AfterPush(p, ctl, t) == CASE p = "BSP" -> BSPAfterPush(ctl)
                          [] p = "SSP" -> SSPAfterPush(ctl, t)
                          [] OTHER -> ctl

AfterPull(p, ctl) == IF p = "BSP" THEN BSPAfterPull(ctl) ELSE ctl
=============================================================================
