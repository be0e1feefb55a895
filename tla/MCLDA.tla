-------------------------------- MODULE MCLDA --------------------------------
(* Two threads, three words at most, two topics.                           *)
EXTENDS LDA

Program(lines, num_iterations, num_batches, max_vocs_each_pull, compute_llh) ==
  [lines |-> lines, num_iterations |-> num_iterations, num_batches |-> num_batches,
   max_vocs_each_pull |-> max_vocs_each_pull, compute_llh |-> compute_llh]

\* Three documents that may go two to one thread; two that may both go to
\* thread 0; a document with two words, pulled one by one.
AllPrograms == {Program(<< <<0>>, <<1>>, <<1>> >>, 2, 1, 2, TRUE),
                Program(<< <<0>>, <<1>>, <<0>> >>, 1, 2, 2, FALSE),
                Program(<< <<0>>, <<1>> >>, 3, 1, 2, FALSE),
                Program(<< <<0, 1>>, <<1>> >>, 1, 1, 1, FALSE)}

OneWordPulls == {Program(<< <<0, 1>>, <<1>> >>, 1, 1, 1, FALSE)}
=============================================================================
