----------------------------- MODULE MCKVStore -----------------------------
(* Instances of KVStore and of ALS on it: two processes.                   *)
EXTENDS ALS

AddVector == Hint("default", "add", "vector")
AddMap == Hint("default", "add", "map")
AssignMap == Hint("default", "assign", "map")

\* The first thread of each process.
OnePerProcess == {FirstTid(p) : p \in Processes}

start == [op |-> "start"]
stop == [op |-> "stop"]
reserve == [op |-> "reserve"]
create(t, h) == [op |-> "create", table |-> t, hint |-> h, bounded |-> h.storage = "vector"]
setup(t, h) == [op |-> "setup", table |-> t, hint |-> h, bounded |-> TRUE]
task(t, ts) == [op |-> "submit", what |-> "push", table |-> t, threads |-> ts]
load == [op |-> "submit", what |-> "none", table |-> -1, threads |-> OnePerProcess]

\* A loading task on every process separates creation from use; one program
\* reserves an id and sets the table up later, as users of customised ranges
\* do; one starts the store a second time.
MCPrograms ==
    { <<start, create(0, AddVector), create(1, AssignMap), load,
        task(0, OnePerProcess), task(1, {num_workers - 1}), stop>>,
      <<start, reserve, create(1, Hint("ssp", "add", "map")), setup(0, AddVector),
        load, task(0, OnePerProcess), stop>>,
      <<start, create(0, AssignMap), load, task(0, OnePerProcess), stop,
        start, create(0, AddVector), load, task(0, OnePerProcess), stop>> }

\* Alternating least squares: the table is used by the task that loads.
AlsTask(shared, users, items, start_from_one, iters, ratings) ==
    [op |-> "submit", what |-> "als", table |-> 0, threads |-> Threads,
     shared |-> shared, users |-> users, items |-> items,
     start_from_one |-> start_from_one, iters |-> iters, ratings |-> ratings]
Als(t) == <<start, reserve, setup(0, AddVector), t, stop>>

MCAlsPrograms ==
    { Als(AlsTask(FALSE, 2, 2, 1, 3, <<<<1, 1>>, <<2, 1>>, <<2, 2>>>>)),
      Als(AlsTask(TRUE, 3, 1, 0, 3, <<<<0, 0>>, <<1, 0>>, <<2, 0>>>>)) }

MCAllPrograms == MCPrograms \cup MCAlsPrograms

\* Programs outside what KVStore and ALS support: the table is used by the first
\* task; the add table that ServerFactory builds with is_assign = true; iterations
\* enough for a factor to be computed twice and then used.
MCUnsupported ==
    { <<start, create(0, AddVector), task(0, OnePerProcess), stop>>,
      <<start, create(0, AddMap), load, task(0, OnePerProcess), stop>>,
      Als(AlsTask(FALSE, 1, 1, 0, 4, <<<<0, 0>>>>)) }

=============================================================================
