----------------------------- MODULE StaleStore -----------------------------
(***************************************************************************)
(* What a server partition promises the workers of an instance, whatever   *)
(* its consistency model: it takes in every push exactly once, and answers *)
(* a pull with neither too old nor too new values.  There are no messages, *)
(* counters, phases or buckets here.  SSPServer implements this with       *)
(* Staleness = staleness_ and Lead = staleness_ + 1, BSPServer with both   *)
(* 0: the classical definitions of the two models.                         *)
(***************************************************************************)
EXTENDS Integers

CONSTANTS
  Workers,    \* the worker threads of the cluster
  Pushes,     \* a push: its epoch, its source, the source's clock
  Staleness,  \* a read at clock c has all pushes of clocks below c - Staleness
  Lead        \* and no push of a clock of c + Lead or above

VARIABLES
  epoch,    \* number of the running instance
  members,  \* its worker threads
  clock,    \* per worker: the pushes it has made in this epoch
  sent,     \* the pushes with data made so far
  stored,   \* how often each push is in the store
  answer    \* per worker: the last answer to a pull in this epoch

storeVars == <<epoch, members, clock, sent, stored, answer>>

NoAnswer == [clock |-> 0, view |-> {}, label |-> 0]
Zero == [w \in Workers |-> 0]

StoreInit ==
  /\ epoch = 1
  /\ members \in (SUBSET Workers) \ {{}}
  /\ clock = Zero
  /\ sent = {}
  /\ stored = [q \in Pushes |-> 0]
  /\ answer = [w \in Workers |-> NoAnswer]

\* At any step the store may take in pushes that have been made, once each.
Absorb ==
  \A q \in Pushes :
    stored[q] <= stored'[q] /\ stored'[q] <= IF q \in sent' THEN 1 ELSE 0

\* The view that a worker at clock c may be given in this step.  Everything
\* below its label is in it, now and later: clients cache views by their label.
Permitted(w, c, view, label) ==
  /\ {q \in Pushes : stored[q] = 1} \subseteq view
  /\ view \subseteq {q \in Pushes : stored'[q] = 1}
  /\ \A v \in members : clock'[v] >= c - Staleness /\ clock'[v] >= label
  /\ \A q \in sent' :
       \/ q[1] < epoch
       \/ q[1] = epoch /\ (q[3] < c - Staleness \/ q[3] < label)
       \/ q[1] = epoch /\ q[3] < c /\ q[2] = w
       => q \in view
  /\ \A q \in view : q[1] = epoch => q[3] < c + Lead

\* At any step the store may answer pulls.
Answers ==
  \A w \in Workers : answer'[w] # answer[w] =>
    /\ w \in members
    /\ answer'[w].clock = clock'[w]
    /\ Permitted(w, answer'[w].clock, answer'[w].view, answer'[w].label)

\* A push of w, possibly to other partitions only.
TakePush(w) ==
  /\ w \in members
  /\ clock' = [clock EXCEPT ![w] = @ + 1]
  /\ sent' \in {sent, sent \cup {<<epoch, w, clock[w]>>}}
  /\ Absorb /\ Answers
  /\ UNCHANGED <<epoch, members>>

\* Anything else: a pull comes in, or the store catches up.
CatchUp ==
  /\ Absorb /\ Answers
  /\ UNCHANGED <<epoch, members, clock, sent>>

\* The next instance finds every push of the last one in the store.
NewInstance ==
  /\ \A q \in sent : stored[q] = 1
  /\ epoch' = epoch + 1
  /\ members' \in (SUBSET Workers) \ {{}}
  /\ clock' = Zero
  /\ answer' = [w \in Workers |-> NoAnswer]
  /\ UNCHANGED <<sent, stored>>

StoreNext == NewInstance \/ CatchUp \/ \E w \in Workers : TakePush(w)

StoreSpec == StoreInit /\ [][StoreNext]_storeVars
=============================================================================
