------------------------------ MODULE KVStore ------------------------------
(***************************************************************************)
(* The life of the key-value store: Start lays out mailboxes, server       *)
(* threads and worker customers over the processes, CreateKVStore builds   *)
(* one server object per server thread, tasks push to the tables, and Stop *)
(* ends every receiving thread.  Every process executes the same main      *)
(* program at its own speed; process 0 alone hands the tasks of a Submit   *)
(* to the cluster manager (src/worker/worker.cpp), and a process acts on   *)
(* what the cluster manager says only while it is inside its own Submit.   *)
(* The tables that tasks use here have the default server; the protocols   *)
(* of the other two servers are the subject of BSPServer and SSPServer.    *)
(***************************************************************************)
EXTENDS Integers, Sequences, FiniteSets, Functions, FiniteSetsExt, TLC

CONSTANTS
    NumProcesses,       \* worker_info.get_num_processes()
    ThreadsPerProcess,  \* threads with the same process id
    NumServersPerProcess,
    Programs            \* the main programs considered: sequences of steps

ASSUME KVStoreAssumption ==
    /\ NumProcesses \in Nat \ {0}
    /\ ThreadsPerProcess \in Nat \ {0}
    /\ NumServersPerProcess \in Nat \ {0}

Processes == 0 .. NumProcesses - 1
num_workers == NumProcesses * ThreadsPerProcess
Threads == 0 .. num_workers - 1
ProcessOf(i) == i \div ThreadsPerProcess
Servers == 0 .. NumServersPerProcess - 1
num_ps_servers == NumProcesses * NumServersPerProcess
ServerIds == 0 .. num_ps_servers - 1

VARIABLES
    program,      \* the main program all processes execute
    pos,          \* per process: the step it is at
    is_started_,  \* per process
    kv_id,        \* per process: the next table id
    kv_store_,    \* per process and local server: table id -> server object
    process_map,  \* per process: the tables its KVWorkers can decode answers of
    mail,         \* mailbox (global thread id) -> messages not yet received
    running,      \* the mailboxes whose receiving thread runs
    submitted,    \* the last Submit whose tasks process 0 has sent
    pushed,       \* per thread: the Submit whose push it has issued
    awaited,      \* per thread: answers its last request still waits for
    retrieved,    \* per thread: the chunks its last pull has been answered with
    finished,     \* per thread: the last Submit it has finished
    pushes        \* per creating step and server: the chunks pushed (history)

vars == <<program, pos, is_started_, kv_id, kv_store_, process_map, mail,
          running, submitted, pushed, awaited, retrieved, finished, pushes>>

---------------------------------------------------------------------------
(* The layout computed by Start.                                           *)

WorkerMailbox(i) == num_workers + i

ServerMailbox(p, j) == 2 * num_workers + j * NumProcesses + p

\* The id of the j-th server thread of process p.
server_ids(p, j) == j * NumProcesses + p

server2global ==
    [s \in ServerIds |->
        LET p == s % NumProcesses
            j == s \div NumProcesses
        IN  2 * num_workers + j * NumProcesses + p]

WorkerMailboxes(p) == {WorkerMailbox(i) : i \in {t \in Threads : ProcessOf(t) = p}}
ServerMailboxes(p) == {ServerMailbox(p, j) : j \in Servers}
Mailboxes == UNION {WorkerMailboxes(p) \cup ServerMailboxes(p) : p \in Processes}

---------------------------------------------------------------------------
(* The servers ServerFactory builds.                                       *)

Hint(kind, op, storage) == [kind |-> kind, op |-> op, storage |-> storage]

\* Every branch of ServerFactory; "default_add_map" is given is_assign = true.
ServerFactory(hint, server_id) ==
    [hint |-> hint, server_id |-> server_id,
     is_assign |-> /\ hint.kind = "default"
                   /\ hint.op = "assign" \/ hint.storage = "map",
     store_ |-> <<>>]

\* Chunks that are not stored have the value 0.
Value(chunks, c) == IF c \in DOMAIN chunks THEN chunks[c] ELSE 0
Plus(chunks, more) ==
    [c \in DOMAIN chunks \cup DOMAIN more |-> Value(chunks, c) + Value(more, c)]

\* update and retrieve.  A chunk of parameters is one number here.
update(server, chunks) ==
    [server EXCEPT !.store_ = IF server.is_assign THEN chunks @@ @ ELSE Plus(@, chunks)]
retrieve(server, chunks) == [c \in chunks |-> Value(server.store_, c)]

---------------------------------------------------------------------------
Step(p) == program[pos[p]]
At(p, op) == pos[p] <= Len(program) /\ Step(p).op = op
Advance(p) == pos' = [pos EXCEPT ![p] = @ + 1]

\* The step at which p has last created the table (for the history).
Creation(p, t) ==
    CHOOSE k \in 1 .. pos[p] :
        /\ program[k].op \in {"create", "setup"} /\ program[k].table = t
        /\ \A n \in k + 1 .. pos[p] : program[n].op # "start"

NoServers == [j \in Servers |-> <<>>]

Init ==
    /\ program \in Programs
    /\ pos = [p \in Processes |-> 1]
    /\ is_started_ = [p \in Processes |-> FALSE]
    /\ kv_id = [p \in Processes |-> 0]
    /\ kv_store_ = [p \in Processes |-> NoServers]
    /\ process_map = [p \in Processes |-> {}]
    /\ mail = [t \in Mailboxes |-> <<>>]
    /\ running = {}
    /\ submitted = 0
    /\ pushed = [i \in Threads |-> 0]
    /\ awaited = [i \in Threads |-> 0]
    /\ retrieved = [i \in Threads |-> <<>>]
    /\ finished = [i \in Threads |-> 0]
    /\ pushes = [k \in 1 .. Len(program) |-> [s \in ServerIds |-> <<>>]]

\* KVStore::Start: the mailboxes, the managers and the workers of p come up.
Start(p) ==
    /\ At(p, "start")
    /\ is_started_' = [is_started_ EXCEPT ![p] = TRUE]
    /\ kv_store_' = [kv_store_ EXCEPT ![p] = NoServers]
    /\ running' = running \cup WorkerMailboxes(p) \cup ServerMailboxes(p)
    /\ Advance(p)
    /\ UNCHANGED <<program, kv_id, process_map, mail, submitted, pushed,
                   awaited, retrieved, finished, pushes>>

\* KVManager::CreateKVManager: insert leaves a table that is there alone.
CreateKVManager(tables, id, server) ==
    [t \in DOMAIN tables \cup {id} |-> IF t \in DOMAIN tables THEN tables[t] ELSE server]

\* Mutated form: the loop over the managers stops one short.
SetUpOneShort(p, id, hint) ==
    /\ id \notin process_map[p]
    /\ kv_store_' = [kv_store_ EXCEPT ![p] =
            [j \in Servers |->
                IF j = NumServersPerProcess - 1 THEN @[j]
                ELSE CreateKVManager(@[j], id, ServerFactory(hint, server_ids(p, j)))]]
    /\ process_map' = [process_map EXCEPT ![p] = @ \cup {id}]

\* One server object per server thread, one decoder in every KVWorker.
SetUp(p, id, hint) ==
    /\ id \notin process_map[p]
    /\ hint.storage = "vector" => Step(p).bounded
    /\ kv_store_' = [kv_store_ EXCEPT ![p] =
            [j \in Servers |->
                CreateKVManager(@[j], id, ServerFactory(hint, server_ids(p, j)))]]
    /\ process_map' = [process_map EXCEPT ![p] = @ \cup {id}]

CreateKVStore(p) ==
    /\ At(p, "create") /\ is_started_[p]
    /\ SetUp(p, kv_id[p], Step(p).hint)
    /\ kv_id' = [kv_id EXCEPT ![p] = @ + 1]
    /\ Advance(p)
    /\ UNCHANGED <<program, is_started_, mail, running, submitted, pushed,
                   awaited, retrieved, finished, pushes>>

CreateKVStoreWithoutSetup(p) ==
    /\ At(p, "reserve") /\ is_started_[p]
    /\ kv_id' = [kv_id EXCEPT ![p] = @ + 1]
    /\ Advance(p)
    /\ UNCHANGED <<program, is_started_, kv_store_, process_map, mail, running,
                   submitted, pushed, awaited, retrieved, finished, pushes>>

SetupKVStore(p) ==
    /\ At(p, "setup")
    /\ SetUp(p, Step(p).table, Step(p).hint)
    /\ Advance(p)
    /\ UNCHANGED <<program, is_started_, kv_id, mail, running, submitted,
                   pushed, awaited, retrieved, finished, pushes>>

---------------------------------------------------------------------------
(* Submit: tasks, threads and the requests they send.                      *)

\* Worker::send_tasks_to_cluster_manager: only process 0 sends them.
SendTasks ==
    /\ At(0, "submit") /\ submitted < pos[0]
    /\ submitted' = pos[0]
    /\ UNCHANGED <<program, pos, is_started_, kv_id, kv_store_, process_map,
                   mail, running, pushed, awaited, retrieved, finished, pushes>>

\* main_loop of i's process has been given the instance and started i.
Runs(i) ==
    LET p == ProcessOf(i) IN
    /\ At(p, "submit") /\ submitted >= pos[p]
    /\ i \in Step(p).threads
    /\ finished[i] < pos[p]

\* Send_: one message to every server in DOMAIN sliced.
Send_(i, push, table, sliced) ==
    LET to == [t \in {server2global[s] : s \in DOMAIN sliced} |->
                 CHOOSE s \in DOMAIN sliced : server2global[s] = t] IN
    /\ mail' = [t \in Mailboxes |->
            IF t \notin DOMAIN to THEN mail[t]
            ELSE Append(mail[t], [kind |-> "request", push |-> push, table |-> table,
                                  server |-> to[t], src |-> i, chunks |-> sliced[to[t]]])]
    /\ awaited' = [awaited EXCEPT ![i] = Cardinality(DOMAIN sliced)]
    /\ retrieved' = [retrieved EXCEPT ![i] = <<>>]
    /\ pushes' = IF ~push THEN pushes
                 ELSE [pushes EXCEPT ![Creation(ProcessOf(i), table)] =
                         [s \in ServerIds |-> IF s \in DOMAIN sliced THEN Plus(@[s], sliced[s])
                                              ELSE @[s]]]

\* The thread pushes 1 to a chunk of every server of the table.
Push(i) ==
    LET p == ProcessOf(i) IN
    /\ Runs(i) /\ Step(p).what = "push" /\ pushed[i] < pos[p]
    /\ Send_(i, TRUE, Step(p).table, [s \in ServerIds |-> s :> 1])
    /\ pushed' = [pushed EXCEPT ![i] = pos[p]]
    /\ UNCHANGED <<program, pos, is_started_, kv_id, kv_store_, process_map,
                   running, submitted, finished>>

\* DefaultUpdateServer::Process: update or retrieve, then answer.
HandleAndReply(p, j, t, m) ==
    LET server == kv_store_[p][j][m.table] IN
    /\ server.hint.kind = "default"
    /\ kv_store_' = IF m.push THEN [kv_store_ EXCEPT ![p][j][m.table] = update(@, m.chunks)]
                    ELSE kv_store_
    /\ mail' = [mail EXCEPT ![t] = Tail(@),
                            ![WorkerMailbox(m.src)] = Append(@,
                 [kind |-> "answer", table |-> m.table,
                  chunks |-> IF m.push THEN <<>> ELSE retrieve(server, DOMAIN m.chunks)])]

\* ServerCustomer::Receiving and KVManager::Process, which asserts that the
\* table is there (see SetUpBeforeUse).
Process(p, j) ==
    LET t == ServerMailbox(p, j)
        m == Head(mail[t])
    IN
    /\ t \in running /\ mail[t] # <<>> /\ m.kind = "request"
    /\ m.table \in DOMAIN kv_store_[p][j]
    /\ HandleAndReply(p, j, t, m)
    /\ UNCHANGED <<program, pos, is_started_, kv_id, process_map, running,
                   submitted, pushed, awaited, retrieved, finished, pushes>>

\* WorkerCustomer::Receiving: the answer is decoded and counted.
Answer(i) ==
    LET t == WorkerMailbox(i)
        m == Head(mail[t])
    IN
    /\ t \in running /\ mail[t] # <<>> /\ m.kind = "answer"
    /\ m.table \in process_map[ProcessOf(i)]
    /\ mail' = [mail EXCEPT ![t] = Tail(@)]
    /\ awaited' = [awaited EXCEPT ![i] = @ - 1]
    /\ retrieved' = [retrieved EXCEPT ![i] = m.chunks @@ @]
    /\ UNCHANGED <<program, pos, is_started_, kv_id, kv_store_, process_map,
                   running, submitted, pushed, finished, pushes>>

\* The thread has waited for its push and leaves the task.
Finish(i) ==
    LET p == ProcessOf(i) IN
    /\ Runs(i)
    /\ Step(p).what # "none" => pushed[i] = pos[p] /\ awaited[i] = 0
    /\ finished' = [finished EXCEPT ![i] = pos[p]]
    /\ UNCHANGED <<program, pos, is_started_, kv_id, kv_store_, process_map,
                   mail, running, submitted, pushed, awaited, retrieved, pushes>>

\* kClusterManagerFinished: main_loop, and with it Submit, returns.
SubmitReturns(p) ==
    /\ At(p, "submit") /\ submitted >= pos[p]
    /\ \A i \in Step(p).threads : finished[i] >= pos[p]
    /\ Advance(p)
    /\ UNCHANGED <<program, is_started_, kv_id, kv_store_, process_map, mail,
                   running, submitted, pushed, awaited, retrieved, finished, pushes>>

---------------------------------------------------------------------------
(* Stop: customers are stopped one after the other, workers first.         *)

Empty == [kind |-> "empty"]
ToldToStop(t) == Empty \in Range(mail[t])

\* Mutated form: Stop joins the thread without waking it.
JoinOnly(t) == UNCHANGED mail

\* The empty BinStream a customer sends to its own mailbox.
EmptyBinStream(t) == mail' = [mail EXCEPT ![t] = Append(@, Empty)]

\* The customer Stop is at: the least one whose thread has not been joined.
Customer(p) ==
    LET left == (WorkerMailboxes(p) \cup ServerMailboxes(p)) \cap running
    IN  CHOOSE t \in left : \A u \in left : t <= u

StopCustomer(p) ==
    /\ At(p, "stop")
    /\ (WorkerMailboxes(p) \cup ServerMailboxes(p)) \cap running # {}
    /\ ~ToldToStop(Customer(p))
    /\ EmptyBinStream(Customer(p))
    /\ UNCHANGED <<program, pos, is_started_, kv_id, kv_store_, process_map,
                   running, submitted, pushed, awaited, retrieved, finished, pushes>>

\* Receiving breaks out of its loop; the thread can be joined.
ReceivingEnds(t) ==
    /\ t \in running /\ mail[t] # <<>> /\ Head(mail[t]) = Empty
    /\ running' = running \ {t}
    /\ mail' = [mail EXCEPT ![t] = Tail(@)]
    /\ UNCHANGED <<program, pos, is_started_, kv_id, kv_store_, process_map,
                   submitted, pushed, awaited, retrieved, finished, pushes>>

\* All are joined: the mailboxes go, and the members are reset.
Stopped(p) ==
    /\ At(p, "stop")
    /\ (WorkerMailboxes(p) \cup ServerMailboxes(p)) \cap running = {}
    /\ is_started_' = [is_started_ EXCEPT ![p] = FALSE]
    /\ kv_id' = [kv_id EXCEPT ![p] = 0]
    /\ kv_store_' = [kv_store_ EXCEPT ![p] = NoServers]
    /\ process_map' = [process_map EXCEPT ![p] = {}]
    /\ mail' = [t \in Mailboxes |->
            IF t \in WorkerMailboxes(p) \cup ServerMailboxes(p) THEN <<>> ELSE mail[t]]
    /\ Advance(p)
    /\ UNCHANGED <<program, running, submitted, pushed, awaited, retrieved, finished, pushes>>

Next ==
    \/ \E p \in Processes : \/ Start(p) \/ CreateKVStore(p)
                            \/ CreateKVStoreWithoutSetup(p) \/ SetupKVStore(p)
                            \/ SubmitReturns(p)
                            \/ StopCustomer(p) \/ Stopped(p)
    \/ SendTasks
    \/ \E i \in Threads : Push(i) \/ Answer(i) \/ Finish(i)
    \/ \E p \in Processes, j \in Servers : Process(p, j)
    \/ \E t \in Mailboxes : ReceivingEnds(t)

Spec == Init /\ [][Next]_vars

\* Every thread of the program keeps running.
FairSpec == Spec /\ WF_vars(Next)

---------------------------------------------------------------------------
(* Properties.                                                             *)

Requests(p, j) ==
    {m \in Range(mail[ServerMailbox(p, j)]) : m.kind = "request"}

Pending(p, j, t, c) ==
    LET q == mail[ServerMailbox(p, j)] IN
    MapThenSumSet(LAMBDA n : IF q[n].kind = "request" /\ q[n].push /\ q[n].table = t
                             THEN Value(q[n].chunks, c) ELSE 0, DOMAIN q)

\* The request a KVWorker addresses to server s (server_id_to_global_id) is
\* received by the server object that was built with id s, and so with the
\* storage of s's key range: three computations of Start agree.
RequestsReachOwner ==
    \A p \in Processes, j \in Servers : \A m \in Requests(p, j) :
        m.table \in DOMAIN kv_store_[p][j] =>
            kv_store_[p][j][m.table].server_id = m.server

\* No request arrives at a manager without the table: the assertion in
\* KVManager::Process.  It holds for the programs in which a task that ran on
\* every process lies between the creation and the first use of a table.
SetUpBeforeUse ==
    \A p \in Processes, j \in Servers : \A m \in Requests(p, j) :
        m.table \in DOMAIN kv_store_[p][j]

\* A table created to add holds, together with the requests under way, every
\* value pushed to it exactly once, on every server and at any time until Stop.
AddsUp ==
    \A p \in Processes, j \in Servers : \A t \in DOMAIN kv_store_[p][j] :
        LET server == kv_store_[p][j][t]
            all == pushes[Creation(p, t)][server.server_id]
        IN  server.hint.kind = "default" /\ server.hint.op = "add" =>
              \A c \in DOMAIN all :
                Value(server.store_, c) + Pending(p, j, t, c) = all[c]

\* Every request is served exactly once, by the server object that owns its
\* chunks.
RequestsServed == SetUpBeforeUse /\ RequestsReachOwner /\ AddsUp

\* Every main program ends: all threads are answered, every receiving thread
\* is woken by the empty message of its own Stop, and joined.
StoreStops == <>(\A p \in Processes : pos[p] = Len(program) + 1)

=============================================================================
