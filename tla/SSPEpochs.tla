------------------------------ MODULE SSPEpochs ------------------------------
(***************************************************************************)
(* PSWorker threads (ml/mlworker/ps.hpp) and one SSP server partition,     *)
(* joined by one mailbox per thread: messages of one thread arrive in      *)
(* order, messages of different threads in any order.                      *)
(*                                                                         *)
(* PSWorker waits for the answer to everything it sends, but a partition   *)
(* that its keys do not touch gets an empty message and never answers it.  *)
(* So a thread can return, and the cluster manager can start the next      *)
(* instance, with empty messages still in the mailbox.                     *)
(***************************************************************************)
EXTENDS SSPServer, Sequences

CONSTANTS
  MaxCalls,  \* bound: Pull and Push calls of one thread in one epoch
  Bodies     \* {TRUE} when every request touches the partition, else BOOLEAN

\* MaxEpoch * MaxCalls is at most 2 * MaxClock: late pushes stay in Clock.

VARIABLES
  mailbox,   \* messages sent by each thread and not processed yet
  calls      \* Pull and Push calls of each thread in its PSWorker (-1: none)

sysVars == <<vars, mailbox, calls>>

\* PSWorker asserts that Pull and Push alternate: push_count_ and pull_count_.
push_count_(w) == calls[w] \div 2
NextIsPull(w) == calls[w] % 2 = 0

\* customer_->send() of a request; keys that lie elsewhere leave it empty.
Send(w, type, data) ==
  mailbox' = [mailbox EXCEPT ![w] = Append(@,
    [type |-> type, num_workers |-> Cardinality(members),
     req |-> [src |-> w, id |-> <<epoch, w, push_count_(w)>>, data |-> data]])]

\* kvworker_->Wait(): the last request that is answered has been answered.
Answered(w) ==
  /\ \A i \in DOMAIN mailbox[w] : ~mailbox[w][i].req.data
  /\ \A k \in Clock : \A r \in blocked_pushes_[k] \cup blocked_pulls_[k] :
       ~(r.src = w /\ r.data)

\* PSWorker(): InitForConsistencyControl, which every server answers.
StartWorker(w) ==
  /\ w \in members
  /\ calls[w] = -1
  /\ calls' = [calls EXCEPT ![w] = 0]
  /\ mailbox' = [mailbox EXCEPT ![w] = Append(@,
       [type |-> "init", num_workers |-> Cardinality(members),
        req |-> [src |-> w, id |-> <<epoch, w, 0>>, data |-> TRUE]])]
  /\ UNCHANGED vars

\* PSWorker::Pull and PSWorker::Push, each called when the last has returned.
PSPull(w, data) ==
  /\ calls[w] \in 0 .. MaxCalls - 1
  /\ NextIsPull(w)
  /\ Answered(w)
  /\ calls' = [calls EXCEPT ![w] = @ + 1]
  /\ Send(w, "pull", data)
  /\ UNCHANGED vars

PSPush(w, data) ==
  /\ calls[w] \in 0 .. MaxCalls - 1
  /\ ~NextIsPull(w)
  /\ Answered(w)
  /\ calls' = [calls EXCEPT ![w] = @ + 1]
  /\ Send(w, "push", data)
  /\ sent' = IF data THEN sent \cup {<<epoch, w, push_count_(w)>>} ELSE sent
  /\ UNCHANGED <<env, control, store_, pulled>>

\* ServerCustomer::Receiving hands the oldest message of a thread to Process.
Deliver(w) ==
  /\ mailbox[w] # <<>>
  /\ mailbox' = [mailbox EXCEPT ![w] = Tail(@)]
  /\ LET m == Head(mailbox[w]) IN
       \/ /\ m.type = "init"
          /\ ProcessInit(m.num_workers)
          /\ inited' = inited \cup {w}
       \/ /\ m.type = "push"
          /\ ProcessPush(m.req)
          /\ UNCHANGED inited
       \/ /\ m.type = "pull"
          /\ ProcessPull(m.req)
          /\ UNCHANGED inited
  /\ UNCHANGED <<members, epoch, sent, calls>>

\* Every thread has returned from its last call.
AllReturned == \A w \in members : calls[w] >= 0 /\ Answered(w)

\* The cluster manager's part: kClusterManagerThreadFinished has arrived from
\* every thread of the instance, and the next instance is sent out.
NextInstance ==
  /\ epoch < MaxEpoch
  /\ AllReturned
  /\ epoch' = epoch + 1
  /\ members' \in (SUBSET Workers) \ {{}}
  /\ inited' = {}
  /\ calls' = [w \in Workers |-> -1]
  /\ pulled' = [w \in Workers |-> NoReply]
  /\ UNCHANGED <<control, store_, sent, mailbox>>

SysInit ==
  /\ Init
  /\ mailbox = [w \in Workers |-> <<>>]
  /\ calls = [w \in Workers |-> -1]

SysNext ==
  \/ NextInstance
  \/ \E w \in Workers :
       \/ StartWorker(w)
       \/ Deliver(w)
       \/ \E data \in Bodies : PSPull(w, data) \/ PSPush(w, data)

SysSpec == SysInit /\ [][SysNext]_sysVars
------------------------------------------------------------------------------
(* Properties.                                                             *)

\* The server's clocks describe the running instance only: a thread never
\* counts as further than the pushes it has made in this epoch.  "in the
\* beginning of each epoch, the state in the server side needs to be reset"
\* (kvworker.hpp): the reset must also hold against what is still under way.
EpochsIsolated ==
  inited # {} => \A w \in Workers :
    worker_progress_[w] <= IF calls[w] = -1 THEN 0 ELSE push_count_(w)
=============================================================================
