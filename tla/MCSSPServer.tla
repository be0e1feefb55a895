----------------------------- MODULE MCSSPServer -----------------------------
(* SSPServer with its worker threads taken as interchangeable.             *)
EXTENDS SSPServer, TLC

Symmetry == Permutations(Workers)

\* Pushes and pulls are blocked in the first epoch; the second starts from what
\* that one has left in the clocks and in the buckets.
MCMaxPushes == <<3, 1>>
=============================================================================
