SPECIFICATION FairSpec
CONSTANTS
  NumRequests = 3
  num_prompt_tokens <- LongPrompts
  max_tokens = 3
  max_model_len = 8
  max_num_running_reqs = 2
  max_num_scheduled_tokens = 4
  num_spec_tokens = 0
  enable_decode_aware_prefill = TRUE
  decode_prefill_token_budget = 1
  idle_prefill_token_budget = 2
  long_prefill_token_threshold = 2
  max_long_prefills_per_step = 1
  num_gpu_blocks = 3
  block_size = 2
  watermark_blocks = 1
  scheduler_reserve_full_isl = TRUE
  enable_prefix_caching = FALSE
  MaxInFlight = 2
  MaxResets = 1
  PauseStates = {}
INVARIANT StepWithinBudget
PROPERTY EveryRequestFinishes
CHECK_DEADLOCK FALSE
