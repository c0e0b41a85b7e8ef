SPECIFICATION Spec
CONSTANTS
  NumRequests = 3
  num_prompt_tokens <- PadPrompts
  max_tokens = 4
  max_model_len = 8
  max_num_running_reqs = 3
  max_num_scheduled_tokens = 8
  num_spec_tokens = 2
  enable_decode_aware_prefill = TRUE
  decode_prefill_token_budget = 3
  idle_prefill_token_budget = 4
  long_prefill_token_threshold = 2
  max_long_prefills_per_step = 1
  num_gpu_blocks = 12
  block_size = 2
  watermark_blocks = 0
  scheduler_reserve_full_isl = FALSE
  enable_prefix_caching = TRUE
  MaxInFlight = 2
  MaxResets = 0
  PauseStates = {}
INVARIANT DraftsScheduled
CHECK_DEADLOCK FALSE
