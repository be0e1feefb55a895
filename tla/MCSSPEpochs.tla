----------------------------- MODULE MCSSPEpochs -----------------------------
(* SSPEpochs with its worker threads taken as interchangeable.             *)
EXTENDS SSPEpochs, TLC

Symmetry == Permutations(Workers)

MCMaxPushes == [e \in Epoch |-> MaxClock]
=============================================================================
