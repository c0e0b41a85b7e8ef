SPECIFICATION Spec
CONSTANTS
  NumRequests = 2
  num_prompt_tokens <- EdgePrompts
  max_tokens = 2
  max_model_len = 5
  max_num_running_reqs = 3
  max_num_scheduled_tokens = 8
  num_spec_tokens = 2
  enable_decode_aware_prefill = FALSE
  decode_prefill_token_budget = 1
  idle_prefill_token_budget = 1
  long_prefill_token_threshold = 0
  max_long_prefills_per_step = 1
  num_gpu_blocks = 12
  block_size = 1
  watermark_blocks = 0
  scheduler_reserve_full_isl = FALSE
  enable_prefix_caching = TRUE
  MaxInFlight = 2
  MaxResets = 0
  PauseStates = {}
INVARIANT ScheduledPositive
CHECK_DEADLOCK FALSE
