------------------------------- MODULE MCSVRG -------------------------------
(* Two processes, with one and two data, the second with an empty chunk.   *)
EXTENDS SVRG

SmallStores == << << <<1>>, <<>> >>, << <<>>, <<2, 3>> >> >>

Program(chunk, auto, fgd, sgd, outer_loop, inner_loop) ==
  [chunk |-> chunk, auto |-> auto, fgd |-> fgd, sgd |-> sgd,
   outer_loop |-> outer_loop, inner_loop |-> inner_loop, parts |-> 2]

\* More threads for FGD than for SGD and the other way round; two rounds of
\* the outer loop, so that there is an old u to clear.
AllPrograms == {Program(FALSE, FALSE, 2, {1}, 2, 2), Program(FALSE, TRUE, 1, {1, 2}, 1, 1),
                Program(TRUE, FALSE, 2, {1}, 2, 1), Program(TRUE, TRUE, 1, {1, 2}, 1, 1)}

ChunkPrograms == {Program(TRUE, FALSE, 1, {1}, 1, 1)}
=============================================================================
