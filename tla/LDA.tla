-------------------------------- MODULE LDA ---------------------------------
(***************************************************************************)
(* Latent Dirichlet allocation, examples/lda.  The load task reads the     *)
(* lines of the input, one document each, and deals them out over the      *)
(* mailbox; the training task keeps on an SSP table how many tokens of     *)
(* each word, and of all words (the row max_voc_id), have each topic.      *)
(* A thread pulls the rows of some words of a batch of its documents,      *)
(* draws a new topic for every token of the batch, and pushes the changes. *)
(* With compute_llh the threads send their log-likelihoods to thread 0     *)
(* after every iteration.                                                  *)
(*                                                                         *)
(* The draw depends on the counts pulled only in its probabilities, and    *)
(* any topic may come out, so the counts are not kept by the threads.      *)
(* The load and the training task have the same threads.                   *)
(***************************************************************************)
EXTENDS Integers, FiniteSetsExt, SequencesExt, Functions

CONSTANTS
  NumWorkers,
  max_voc_id,    \* words are 0 .. max_voc_id - 1
  num_topics,
  staleness,
  Programs       \* inputs (lines) and parameters

ASSUME WorkersAssumption == NumWorkers \in Nat \ {0} /\ staleness \in Nat
ASSUME ProgramsAssumption ==
  \A g \in Programs : /\ \A l \in Range(g.lines) : Range(l) \subseteq 0 .. max_voc_id - 1
                      /\ g.num_iterations \in Nat \ {0} /\ g.num_batches \in Nat \ {0}
                      /\ g.max_vocs_each_pull \in Nat \ {0} /\ g.compute_llh \in BOOLEAN

VARIABLES
  program,
  next_line,     \* the first line no loader has read
  send_buffer,   \* per loader: the lines for each thread
  doc_count,     \* per loader: the lines read
  mail,          \* per thread: the buffers sent to it
  corpus,        \* per thread: its documents, as numbers of lines
  token_topics,  \* the topics of the tokens of every document
  table,         \* lda_table on the server
  clock,         \* per thread: its pushes the server has
  flight,        \* per thread: the push on its way, or none
  loc,           \* per thread: where it is
  llh_mail,      \* per progress id: what thread 0 has not received
  completed,     \* per progress id: the threads that called send_complete
  written        \* history: what thread 0 wrote for each iteration

vars == <<program, next_line, send_buffer, doc_count, mail, corpus, token_topics,
          table, clock, flight, loc, llh_mail, completed, written>>
load_vars == <<program, next_line, send_buffer, doc_count, mail, corpus>>
llh_vars == <<llh_mail, completed, written>>

Workers == 0 .. NumWorkers - 1
Topics == 0 .. num_topics - 1
Rows == 0 .. max_voc_id
Docs == 1 .. Len(program.lines)
Doc(d) == program.lines[d]
None == <<>>
Zero == [r \in Rows |-> [k \in Topics |-> 0]]
Plus(t, u) == [r \in Rows |-> [k \in Topics |-> t[r][k] + u[r][k]]]

\* batch: 0 before the first; vocs: the words of the batch not pulled yet;
\* keys: the words of the last pull
At(pc, i, j, vocs, keys) == [pc |-> pc, iteration |-> i, batch |-> j, vocs |-> vocs, keys |-> keys]

Init ==
  /\ program \in Programs
  /\ next_line = 1
  /\ send_buffer = [w \in Workers |-> [v \in Workers |-> <<>>]]
  /\ doc_count = [w \in Workers |-> 0]
  /\ mail = [w \in Workers |-> {}]
  /\ corpus = [w \in Workers |-> <<>>]
  /\ token_topics = [d \in Docs |-> None]
  /\ table = Zero
  /\ clock = [w \in Workers |-> 0]
  /\ flight = [w \in Workers |-> None]
  /\ loc = [w \in Workers |-> At("load", 0, 0, {}, {})]
  /\ llh_mail = [i \in 1 .. program.num_iterations |-> {}]
  /\ completed = [i \in 1 .. program.num_iterations |-> {}]
  /\ written = <<>>

------------------------------------------------------------------------------
(* load_data.                                                              *)

\* parse_func: "evenly assign docs to all threads"
Destination(w) == doc_count[w] % NumWorkers

ReadLine(w) ==
  /\ loc[w].pc = "load" /\ next_line <= Len(program.lines)
  /\ next_line' = next_line + 1
  /\ send_buffer' = [send_buffer EXCEPT ![w][Destination(w)] = Append(@, next_line)]
  /\ doc_count' = [doc_count EXCEPT ![w] = @ + 1]
  /\ UNCHANGED <<program, mail, corpus, token_topics, table, clock, flight, loc, llh_vars>>

\* No line is left: send the buffers that are not empty, and send_complete.
SendBuffers(w) ==
  /\ loc[w].pc = "load" /\ next_line > Len(program.lines)
  /\ mail' = [v \in Workers |-> IF send_buffer[w][v] = <<>> THEN mail[v]
                                ELSE mail[v] \union {send_buffer[w][v]}]
  /\ loc' = [loc EXCEPT ![w].pc = "recv"]
  /\ UNCHANGED <<program, next_line, send_buffer, doc_count, corpus, token_topics,
                 table, clock, flight, llh_vars>>

\* LDADoc::random_init_topics: any topic for every token
TopicsOf(docs, topics) ==
  {f \in [docs -> UNION {[1 .. Len(Doc(d)) -> topics] : d \in docs}] :
     \A d \in docs : Len(f[d]) = Len(Doc(d))}
random_init_topics(docs) == TopicsOf(docs, Topics)

\* poll ends when every loader has completed; buffers come in any order.
ReceiveDocs(w) ==
  /\ loc[w].pc = "recv" /\ \A v \in Workers : loc[v].pc # "load"
  /\ \E bins \in SetToSeqs(mail[w]) :
       /\ corpus' = [corpus EXCEPT ![w] = FlattenSeq(bins)]
       /\ \E z \in random_init_topics(Range(FlattenSeq(bins))) : token_topics' = z @@ token_topics
  /\ mail' = [mail EXCEPT ![w] = {}]
  /\ loc' = [loc EXCEPT ![w].pc = "loaded"]
  /\ UNCHANGED <<program, next_line, send_buffer, doc_count, table, clock, flight, llh_vars>>

------------------------------------------------------------------------------
(* The SSP table, with the guarantees of SSPServer.                        *)

MinClock == Min(Range(clock))
PullAcceptedOneEarlier(w) == clock[w] - staleness < MinClock
PullAccepted(w) == clock[w] - staleness <= MinClock

\* A push comes to the server some time after the thread has sent it; the
\* thread waits for the answer.
Deliver(w) ==
  /\ flight[w] # None
  /\ table' = Plus(table, flight[w])
  /\ clock' = [clock EXCEPT ![w] = @ + 1]
  /\ flight' = [flight EXCEPT ![w] = None]
  /\ UNCHANGED <<load_vars, token_topics, loc, llh_vars>>

------------------------------------------------------------------------------
(* Counting.                                                               *)

Tokens(docs) == UNION {{d} \X (1 .. Len(Doc(d))) : d \in docs}
Word(t) == Doc(t[1])[t[2]]
Count(docs, z, row, k) ==
  Cardinality({t \in Tokens(docs) : row \in {Word(t), max_voc_id} /\ z[t[1]][t[2]] = k})
Counts(docs, z) == [r \in Rows |-> [k \in Topics |-> Count(docs, z, r, k)]]

------------------------------------------------------------------------------
(* batch_training_by_chunk.                                                *)

\* The batches of a thread's documents, the last with the rest
Batch(w, j) ==
  LET num_docs_per_batch == Len(corpus[w]) \div program.num_batches
      begin == (j - 1) * num_docs_per_batch
      end == IF j = program.num_batches THEN Len(corpus[w]) ELSE begin + num_docs_per_batch
  IN  {corpus[w][k] : k \in begin + 1 .. end}
batch_voc_set(w, j) == UNION {Range(Doc(d)) : d \in Batch(w, j)}

\* "while (iter != batch_voc_set.end())": the place after batch j, skipping
\* batches without words
NextPull(w, i, j, vocs) ==
  LET later == {b \in j + 1 .. program.num_batches : batch_voc_set(w, b) # {}} IN
  IF vocs # {} THEN At("pull", i, j, vocs, {})
  ELSE IF later # {} THEN At("pull", i, Min(later), batch_voc_set(w, Min(later)), {})
  ELSE At("llh", i, 0, {}, {})
NextIteration(w, i) ==
  IF i < program.num_iterations THEN NextPull(w, i + 1, 0, {}) ELSE At("done", i, 0, {}, {})

\* init_tables: an (accepted) pull and a push of the counts of the corpus.
\* The training task starts when the load task has ended.
init_tables(w) ==
  /\ loc[w].pc = "loaded" /\ \A v \in Workers : loc[v].pc \notin {"load", "recv"}
  /\ PullAccepted(w)
  /\ flight' = [flight EXCEPT ![w] = Counts(Range(corpus[w]), token_topics)]
  /\ loc' = [loc EXCEPT ![w] = NextPull(w, 1, 0, {})]
  /\ UNCHANGED <<load_vars, token_topics, table, clock, llh_vars>>

\* The words of this pull: the next max_vocs_each_pull of the batch, and for
\* the likelihood those of the thread's range of the vocabulary.
SmallestVocs(vocs) ==
  {v \in vocs : Cardinality({u \in vocs : u < v}) < program.max_vocs_each_pull}
LLHVocs(w) ==
  LET num_vocs_per_thread == max_voc_id \div NumWorkers IN
  IF ~program.compute_llh THEN {}
  ELSE w * num_vocs_per_thread ..
         (IF w + 1 = NumWorkers THEN max_voc_id ELSE (w + 1) * num_vocs_per_thread) - 1

PullRows(w) ==
  /\ loc[w].pc = "pull" /\ flight[w] = None /\ PullAccepted(w)
  /\ loc' = [loc EXCEPT ![w].pc = "sample",
                        ![w].vocs = @ \ SmallestVocs(@),
                        ![w].keys = SmallestVocs(loc[w].vocs) \union LLHVocs(w)]
  /\ UNCHANGED <<load_vars, token_topics, table, clock, flight, llh_vars>>

\* find_start_idx[word]: for a word that was not pulled operator[] makes an
\* entry with index 0, the row of the first word pulled.
RowOf(keys, word) == IF word \in keys THEN word ELSE Min(keys)

\* sample_one_doc on every document of the batch: word_topic_updates
SummaryNotUpdated(keys, docs, old, new) ==
  [r \in Rows |-> [k \in Topics |->
     Cardinality({t \in Tokens(docs) : r = RowOf(keys, Word(t)) /\ new[t[1]][t[2]] = k})
   - Cardinality({t \in Tokens(docs) : r = RowOf(keys, Word(t)) /\ old[t[1]][t[2]] = k})]]
word_topic_updates(keys, docs, old, new) ==
  [r \in Rows |-> [k \in Topics |->
     Cardinality({t \in Tokens(docs) : r \in {RowOf(keys, Word(t)), max_voc_id} /\ new[t[1]][t[2]] = k})
   - Cardinality({t \in Tokens(docs) : r \in {RowOf(keys, Word(t)), max_voc_id} /\ old[t[1]][t[2]] = k})]]

\* A draw from the q, r and s buckets: the s bucket has mass for every topic,
\* so no topic is excluded whatever the counts are.
sample == Topics

SamplePush(w) ==
  LET docs == Batch(w, loc[w].batch) IN
  /\ loc[w].pc = "sample"
  /\ \E new \in TopicsOf(docs, sample) :
       /\ flight' = [flight EXCEPT ![w] =
                       word_topic_updates(loc[w].keys, docs, token_topics, new)]
       /\ token_topics' = new @@ token_topics
  /\ loc' = [loc EXCEPT ![w] = NextPull(w, @.iteration, @.batch, @.vocs)]
  /\ UNCHANGED <<load_vars, table, clock, llh_vars>>

\* The thread's part of the likelihood goes to thread 0 under the progress id
\* of the iteration (the training task has one epoch).  A thread without
\* documents has pulled no rows and would read one: it goes no further here.
NoProgress(i) == 1
progress_id(i) == i

SendLLH(w) ==
  LET i == loc[w].iteration IN
  /\ loc[w].pc = "llh" /\ flight[w] = None /\ program.compute_llh /\ corpus[w] # <<>>
  /\ llh_mail' = [llh_mail EXCEPT ![progress_id(i)] = @ \union {<<w, i>>}]
  /\ completed' = [completed EXCEPT ![progress_id(i)] = @ \union {w}]
  /\ loc' = [loc EXCEPT ![w] = IF w = 0 THEN [@ EXCEPT !.pc = "collect"] ELSE NextIteration(w, i)]
  /\ UNCHANGED <<load_vars, token_topics, table, clock, flight, written>>

\* Thread 0 receives until every thread has completed, and writes the
\* statistics, which it puts in and takes out of lda_stat_table by itself.
CollectLLH ==
  LET i == loc[0].iteration IN
  /\ loc[0].pc = "collect" /\ completed[progress_id(i)] = Workers
  /\ written' = Append(written, llh_mail[progress_id(i)])
  /\ llh_mail' = [llh_mail EXCEPT ![progress_id(i)] = {}]
  /\ loc' = [loc EXCEPT ![0] = NextIteration(0, i)]
  /\ UNCHANGED <<load_vars, token_topics, table, clock, flight, completed>>

SkipLLH(w) ==
  /\ loc[w].pc = "llh" /\ flight[w] = None /\ ~program.compute_llh
  /\ loc' = [loc EXCEPT ![w] = NextIteration(w, @.iteration)]
  /\ UNCHANGED <<load_vars, token_topics, table, clock, flight, llh_vars>>

AllDone == \A w \in Workers : loc[w].pc = "done"
Finished == AllDone /\ UNCHANGED vars

Step(w) == \/ ReadLine(w) \/ SendBuffers(w) \/ ReceiveDocs(w) \/ init_tables(w)
           \/ Deliver(w) \/ PullRows(w) \/ SamplePush(w) \/ SendLLH(w) \/ SkipLLH(w)

Next == (\E w \in Workers : Step(w)) \/ CollectLLH \/ Finished

Spec == Init /\ [][Next]_vars
\* Threads run until they block, and messages arrive.
FairSpec == Spec /\ WF_vars(Next)

------------------------------------------------------------------------------
(* Properties.                                                             *)

Loaded == \A w \in Workers : loc[w].pc \notin {"load", "recv"}

\* Whoever reads which line, every document comes to exactly one thread, and
\* the threads' shares differ by at most one document for every loader.
CorpusEven ==
  Loaded =>
    /\ \A d \in Docs : Quantify({<<w, k>> \in Workers \X Docs :
                                   k <= Len(corpus[w]) /\ corpus[w][k] = d}, LAMBDA x : TRUE) = 1
    /\ \A v, w \in Workers : Len(corpus[v]) - Len(corpus[w]) <= NumWorkers

\* At every moment the table, with the pushes on their way, counts the tokens
\* of each word and topic over the documents of the threads that have started.
Started == {w \in Workers : loc[w].pc \notin {"load", "recv", "loaded"}}
CountsMatchAlways ==
  \A r \in Rows, k \in Topics :
    table[r][k] + SumFunction([w \in Workers |-> IF flight[w] = None THEN 0 ELSE flight[w][r][k]])
      = Count(UNION {Range(corpus[w]) : w \in Started}, token_topics, r, k)

\* ... if a pull takes all the words of a batch.
CountsMatch == program.max_vocs_each_pull < max_voc_id \/ CountsMatchAlways

\* The threads share out the corpus, and the table is the model of it.
ModelOfCorpus == CorpusEven /\ CountsMatch

\* The likelihood thread 0 writes for an iteration is that of this iteration,
\* of every thread once, however far the others have gone.
LLHOfIteration ==
  \A i \in 1 .. Len(written) : written[i] = {<<w, i>> : w \in Workers}

\* The pulls of a thread for a batch, and its pushes in the training task
Pulls(w, j) == (Cardinality(batch_voc_set(w, j)) + program.max_vocs_each_pull - 1)
                 \div program.max_vocs_each_pull
Pushes(w) ==
  1 + SumFunction([p \in (1 .. program.num_iterations) \X (1 .. program.num_batches) |->
                     Pulls(w, p[2])])

\* The program ends if no thread has more rounds than another by more than
\* the staleness and one; with more the thread ahead waits for ever for
\* threads that have ended.
Spread == Max({Pushes(w) : w \in Workers}) - Min({Pushes(w) : w \in Workers})
LDAEnds == (Loaded /\ Spread <= staleness + 1) ~> AllDone
=============================================================================
