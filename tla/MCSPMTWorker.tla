---------------------------- MODULE MCSPMTWorker ----------------------------
(***************************************************************************)
(* Tables for SPMTWorker.  The bounds differ from table to table so that   *)
(* each meets its hard cases: two chunks in a request where locks are      *)
(* taken one by one, more chunks than the threshold where there is a       *)
(* cache, two epochs where the model is handed over.                       *)
(***************************************************************************)
EXTENDS SPMTWorker

Shared(p) ==
  [mode_type |-> "SPMT", consistency |-> p, chunk |-> TRUE, transfer |-> FALSE,
   api |-> "keys", cache_strategy |-> "None", cache_threshold_ |-> 0, num_dumps |-> 0,
   epochs |-> 1, iters |-> 2, chunks |-> {0, 1}, request |-> 2]

Cached(p, s) ==
  [Shared(p) EXCEPT !.cache_strategy = s, !.cache_threshold_ = 2, !.num_dumps = 1,
                    !.chunks = {0, 1, 2}, !.request = 1]

Mode(m, chunk, direct) ==
  [Shared("ASP") EXCEPT !.mode_type = m, !.chunk = chunk, !.transfer = direct,
                        !.epochs = 2, !.iters = 1]

SharedTables ==
  {Shared(p) : p \in {"BSP", "SSP"}} \union {[Shared("SSP") EXCEPT !.iters = 3, !.request = 1]}
  \union {Cached("BSP", "LRU"), Cached("ASP", "LFU")}
  \* two chunks replaced at once, for requests of two
  \union {[Cached("ASP", "LRU") EXCEPT !.cache_threshold_ = 3, !.num_dumps = 2,
             !.chunks = {0, 1, 2, 3}, !.request = 2, !.iters = 1]}
  \* requests larger than what is replaced at once
  \union {[Cached("ASP", "Random") EXCEPT !.chunks = {0, 1, 2, 3}, !.request = 2, !.iters = 1]}
  \* chunks that are in the file when the model is dumped, and wanted again
  \union {[Cached("ASP", "LRU") EXCEPT !.epochs = 2, !.iters = 1, !.cache_threshold_ = 1]}
  \* a caching model called by chunks, with more of them than the threshold
  \union {[Cached("ASP", "LRU") EXCEPT !.api = "chunks", !.chunks = {0, 1}, !.request = 2,
             !.epochs = 2, !.iters = 1, !.cache_threshold_ = 1]}
  \union {Mode("SPMT", FALSE, b) : b \in BOOLEAN}
  \union {Mode("Single", FALSE, b) : b \in BOOLEAN} \union {Mode("Single", TRUE, FALSE)}
  \union {Mode("Hogwild", FALSE, FALSE), [Mode("Hogwild", TRUE, FALSE) EXCEPT !.epochs = 1]}

\* A cache whose chunks are dumped at the end of the epoch.
CachedTables == {Cached("ASP", "LRU")}
=============================================================================
