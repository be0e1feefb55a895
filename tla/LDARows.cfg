CONSTANTS
  NumWorkers = 2
  max_voc_id = 2
  num_topics = 2
  staleness = 1
  Programs <- OneWordPulls
SPECIFICATION Spec
INVARIANT CountsMatchAlways
CHECK_DEADLOCK FALSE
