---------------------------- MODULE MCPSWorkers ----------------------------
(* Tables for PSWorkers.                                                   *)
EXTENDS PSWorkers

Any == (SUBSET Chunks) \ {{}}
Table(t, api, s_, n, request) ==
  [worker_type |-> t, api |-> api, staleness_ |-> s_, iters |-> n, request |-> request]
Sound ==
  {Table(t, "keys", 1, 3, {Chunks, {0}}) :
     t \in {"PSWorker", "PSMapNone", "PSChunkNone", "PSMapChunk"}} \union
  {Table(t, "v2", 1, 4, {{0}}) : t \in {"PSChunkNone", "PSMapChunk", "PSChunkChunk"}} \union
  {Table("PSNoneChunk", "keys", 1, 3, {Chunks}),
   Table("PSNoneChunk", "chunks", 0, 3, {Chunks}),
   Table("PSNoneChunk", "chunks", 1, 4, {{0}}),
   Table("PSChunkChunk", "chunks", 1, 3, {Chunks, {0}}),
   Table("PSNoneChunk", "v2", 1, 3, {Chunks}),
   Table("PSMapChunk", "v2", 1, 3, {Chunks}),
   Table("PSMapNone", "v2", 1, 3, {Chunks}),
   Table("PSMapNone", "keys", 1, 3, {{c} : c \in Chunks}),
   Table("PSMapNone", "keys", 0, 3, {Chunks}),
   Table("PSBsp", "keys", 0, 3, {Chunks, {0}})}
\* Tables whose cache goes wrong: with the second interface, with requests for
\* different keys in turn, and with the push buffer.
Unsound ==
  {Table("PSMapChunk", "v2", 2, 2, {{0}}),
   Table("PSMapChunk", "keys", 2, 4, {{c} : c \in Chunks}),
   Table("PSNoneChunk", "chunks", 1, 3, {{0}})}
=============================================================================
