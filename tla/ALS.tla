-------------------------------- MODULE ALS --------------------------------
(***************************************************************************)
(* Matrix factorisation by alternating least squares on the key-value      *)
(* store: src/examples/mf_als/als.cpp, and als_shared.cpp, whose threads   *)
(* share what the leader of their process has loaded and pulled.  One task *)
(* on all threads loads the ratings, exchanges them so that all ratings of *)
(* a node meet in one place, and then updates the factors of users and of  *)
(* items in turn.                                                          *)
(*                                                                         *)
(* Users and items are nodes, a node's factor is a chunk of the table.  The *)
(* factor computed in iteration i is the number Base^i: the digits of what *)
(* a pull returns tell which iterations have gone into it.                 *)
(***************************************************************************)
EXTENDS KVStore, SequencesExt

CONSTANT Base   \* larger than the number of pushes to a node in an iteration

ASSUME ALSAssumption == Base \in Nat \ {0, 1}

VARIABLES
    next_line,  \* lines of the input read so far
    sent,       \* <<thread, from, to>>: the edges sent to each thread
    als,        \* per thread: where it is, and in which iteration
    factors,    \* per thread that pulls: other_factors
    rmse        \* per iteration: edges reported to the first thread

als_vars == <<next_line, sent, als, factors, rmse>>
all_vars == <<vars, als_vars>>

\* The task; every program has at most one.
Jobs == {k \in DOMAIN program : program[k].op = "submit" /\ program[k].what = "als"}
job == program[CHOOSE k \in Jobs : TRUE]

---------------------------------------------------------------------------
(* 1. The servers are divided between users and items.                     *)

MAGIC == job.users + job.start_from_one

\* chunk_num chunks from offset on, over n servers; the last one takes what
\* is left.
PartitionFrom(offset, chunk_num, n) ==
    LET base == chunk_num \div n
        remain == chunk_num % n
        end == remain * (base + 1)
    IN  [i \in 1 .. n |->
           CASE i <= remain -> offset + (i - 1) * (base + 1) .. offset + i * (base + 1) - 1
             [] i > remain /\ i < n ->
                  offset + end + (i - remain - 1) * base .. offset + end + (i - remain) * base - 1
             [] OTHER -> offset + end + (n - remain - 1) * base .. offset + chunk_num - 1]

server_chunk_ranges ==
    LET half == num_ps_servers \div 2 IN
    PartitionFrom(0, MAGIC, half)
      \o PartitionFrom(MAGIC, job.items + job.start_from_one, num_ps_servers - half)

GetServerFromChunk(node) ==
    CHOOSE s \in ServerIds : node \in server_chunk_ranges[s + 1]

---------------------------------------------------------------------------
(* 2. Loading.                                                             *)

tids(p) == {i \in Threads : ProcessOf(i) = p}
FirstTid(p) == p * ThreadsPerProcess
Leader(i) == i = FirstTid(ProcessOf(i))

\* First locate the process of the node's server, then a thread of it.
Destination(node) ==
    FirstTid(GetServerFromChunk(node) % NumProcesses)
      + IF job.shared THEN 0 ELSE node % ThreadsPerProcess

ALSRuns(i) == Jobs # {} /\ Runs(i) /\ Step(ProcessOf(i)) = job
AtPc(i, l) == ALSRuns(i) /\ als[i].pc = l
Goto(i, l) == als' = [als EXCEPT ![i].pc = l]

\* A line: the rating goes to the place of the user and to that of the item.
ReadLine(i) ==
    /\ AtPc(i, "load") /\ next_line < Len(job.ratings)
    /\ next_line' = next_line + 1
    /\ LET user == job.ratings[next_line + 1][1]
           item == job.ratings[next_line + 1][2] + job.users
       IN  sent' = sent \cup {<<Destination(user), user, item>>,
                              <<Destination(item), item, user>>}
    /\ UNCHANGED <<vars, als, factors, rmse>>

\* No line left: flush the send_buffer and send_complete.
Flush(i) ==
    /\ AtPc(i, "load") /\ next_line = Len(job.ratings)
    /\ Goto(i, "receive")
    /\ UNCHANGED <<vars, next_line, sent, factors, rmse>>

\* poll ends when all threads have completed.  In als_shared only the leader
\* receives; the others get its nodes from the shared state.
Receive(i) ==
    /\ AtPc(i, "receive")
    /\ IF ~job.shared \/ Leader(i) THEN \A t \in Threads : als[t].pc # "load"
       ELSE als[FirstTid(ProcessOf(i))].pc \notin {"load", "receive"}
    /\ Goto(i, "iter")
    /\ UNCHANGED <<vars, next_line, sent, factors, rmse>>

\* Who holds local_nodes and other_factors for thread i.
Holder(i) == IF job.shared THEN FirstTid(ProcessOf(i)) ELSE i

local_nodes(i) == {e[2] : e \in {x \in sent : x[1] = Holder(i)}}
nbs(i, node) == {e[3] : e \in {x \in sent : x[1] = Holder(i) /\ x[2] = node}}

\* The nodes an iteration updates, users first.
Updates(iter, node) == (iter % 2 = 0) <=> (node < MAGIC)

\* Mutated form: nodes of other threads are skipped without being counted.
ShareUncounted(i, iter) ==
    LET nodes == {n \in local_nodes(i) : Updates(iter, n)} IN
    IF ~job.shared THEN nodes
    ELSE {n \in nodes : Leader(i) /\ \A m \in nodes : n <= m}

\* The nodes thread i updates: with shared nodes, every so many in order.
Share(i, iter) ==
    LET nodes == {n \in local_nodes(i) : Updates(iter, n)}
        node_counter(n) == Cardinality({m \in nodes : m < n})
    IN  {n \in nodes : job.shared =>
            node_counter(n) % ThreadsPerProcess = i - FirstTid(ProcessOf(i))}

\* The chunks pulled: the neighbours, and the nodes themselves for the test.
keys(i, iter) ==
    local_nodes(i) \cup UNION {nbs(i, n) : n \in {m \in local_nodes(i) : Updates(iter, m)}}

Sliced(nodes, v) ==
    [s \in {GetServerFromChunk(n) : n \in nodes} |->
        [n \in {m \in nodes : GetServerFromChunk(m) = s} |-> v]]

---------------------------------------------------------------------------
(* 3. The iterations.                                                      *)

\* 5. Pull; the first iteration starts from random factors, and in als_shared
\* only the leader pulls.
Pull(i) ==
    /\ AtPc(i, "iter") /\ als[i].iter < job.iters
    /\ ~job.shared \/ Leader(i)
    /\ IF als[i].iter > 0
         THEN /\ Send_(i, FALSE, job.table, Sliced(keys(i, als[i].iter), 0))
              /\ Goto(i, "pulling")
              /\ UNCHANGED factors
         ELSE /\ factors' = [factors EXCEPT ![i] = [n \in keys(i, 0) |-> 0]]
              /\ Goto(i, "pulled")
              /\ UNCHANGED <<mail, awaited, retrieved, pushes>>
    /\ UNCHANGED <<program, pos, is_started_, kv_id, kv_store_, process_map, running,
                   submitted, pushed, finished, next_line, sent, rmse>>

WaitPull(i) ==
    /\ AtPc(i, "pulling") /\ awaited[i] = 0
    /\ factors' = [factors EXCEPT ![i] = retrieved[i] @@ @]
    /\ Goto(i, "pulled")
    /\ UNCHANGED <<vars, next_line, sent, rmse>>

\* SharedState::Barrier: the threads of the process meet.
Follow(i) ==
    /\ AtPc(i, "iter") /\ als[i].iter < job.iters
    /\ job.shared /\ ~Leader(i)
    /\ Goto(i, "pulled")
    /\ UNCHANGED <<vars, next_line, sent, factors, rmse>>

\* Mutated form: the barrier is not waited for.
NoBarrier(i) == TRUE
Barrier(i) ==
    job.shared => \A t \in tids(ProcessOf(i)) :
        \/ als[t].iter > als[i].iter
        \/ als[t].iter = als[i].iter /\ als[t].pc \notin {"receive", "iter", "pulling"}

\* 6 and 7. Compute the factors of the thread's nodes and push them.
Push_(i) ==
    /\ AtPc(i, "pulled") /\ Barrier(i)
    /\ Send_(i, TRUE, job.table, Sliced(Share(i, als[i].iter), Base ^ als[i].iter))
    /\ Goto(i, "pushing")
    /\ UNCHANGED <<program, pos, is_started_, kv_id, kv_store_, process_map, running,
                   submitted, pushed, finished, next_line, sent, factors, rmse>>

\* 8. Once the push is acknowledged: the number of edges to the first thread,
\* and send_complete.
Complete(i) ==
    /\ AtPc(i, "pushing") /\ awaited[i] = 0
    /\ rmse' = [rmse EXCEPT ![als[i].iter] =
            @ + Cardinality(UNION {{n} \X nbs(i, n) : n \in Share(i, als[i].iter)})]
    /\ Goto(i, "barrier")
    /\ UNCHANGED <<vars, next_line, sent, factors>>

\* Thread t has sent its completion of iteration iter.
HasCompleted(t, iter) ==
    als[t].iter > iter \/ als[t] = [pc |-> "barrier", iter |-> iter]

\* poll of this progress id ends when all threads have completed it.
Completed(i) == \A t \in Threads : HasCompleted(t, als[i].iter)

Leave(i) ==
    LET last == als[i].iter + 1 = job.iters IN
    /\ AtPc(i, "barrier") /\ Completed(i)
    /\ als' = [als EXCEPT ![i] = [pc |-> "iter", iter |-> @.iter + 1]]
    /\ pushed' = IF last THEN [pushed EXCEPT ![i] = pos[ProcessOf(i)]] ELSE pushed
    /\ UNCHANGED <<program, pos, is_started_, kv_id, kv_store_, process_map, mail, running,
                   submitted, awaited, retrieved, finished, pushes,
                   next_line, sent, factors, rmse>>

ALSInit ==
    /\ Init
    /\ next_line = 0 /\ sent = {}
    /\ als = [i \in Threads |-> [pc |-> "load", iter |-> 0]]
    /\ factors = [i \in Threads |-> <<>>]
    /\ rmse = [k \in 0 .. (IF Jobs = {} THEN 0 ELSE job.iters) |-> 0]

Task(i) ==
    \/ ReadLine(i) \/ Flush(i) \/ Receive(i)
    \/ Pull(i) \/ WaitPull(i) \/ Follow(i) \/ Push_(i) \/ Complete(i) \/ Leave(i)

ALSNext ==
    \/ Next /\ UNCHANGED als_vars
    \/ \E i \in Threads : Task(i)

ALSSpec == ALSInit /\ [][ALSNext]_all_vars

\* Every thread of the program keeps running.
ALSFairSpec == ALSSpec /\ WF_all_vars(ALSNext)

---------------------------------------------------------------------------
(* Properties.                                                             *)

\* What has been added to a node's factor before iteration iter.
Before(iter, node) ==
    MapThenSumSet(LAMBDA k : IF Updates(k, node) THEN Base ^ k ELSE 0, 0 .. iter - 1)

\* The factors a thread computes with hold all updates of the iterations
\* before, each exactly once, and none of this iteration or of a later one,
\* although other threads push while it pulls: for every neighbour of every
\* node it updates, on every interleaving of two processes and their servers.
FreshFactors ==
    \A i \in Threads : AtPc(i, "pulled") /\ Barrier(i) /\ als[i].iter > 0 =>
        \A n \in Share(i, als[i].iter) : \A m \in nbs(i, n) :
            /\ m \in DOMAIN factors[Holder(i)]
            /\ factors[Holder(i)][m] = Before(als[i].iter, m)

\* Each iteration reports every rating exactly once to the first thread before
\* that goes on: the exchange of edges and the division of the shared nodes
\* leave no edge out and count none twice.
RMSEComplete ==
    Jobs # {} => \A k \in 0 .. als[0].iter - 1 : rmse[k] = Len(job.ratings)

\* What alternating least squares needs: the factors a thread computes with
\* are those the last iteration has computed.
LastFactors ==
    \A i \in Threads : AtPc(i, "pulled") /\ Barrier(i) /\ als[i].iter > 0 =>
        \A n \in Share(i, als[i].iter) : \A m \in nbs(i, n) :
            factors[Holder(i)][m] = Base ^ (als[i].iter - 1)

=============================================================================
