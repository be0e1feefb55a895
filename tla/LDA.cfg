CONSTANTS
  NumWorkers = 2
  max_voc_id = 2
  num_topics = 2
  staleness = 1
  Programs <- AllPrograms
SPECIFICATION FairSpec
INVARIANTS
  ModelOfCorpus
  LLHOfIteration
PROPERTY
  LDAEnds
CHECK_DEADLOCK FALSE
