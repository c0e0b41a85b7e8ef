SPECIFICATION Spec
CONSTANTS
  NumRequests = 3
  num_prompt_tokens <- ShortPrompts
  max_tokens = 3
  max_model_len = 8
  max_num_running_reqs = 3
  max_num_scheduled_tokens = 4
  num_spec_tokens = 1
  enable_decode_aware_prefill = FALSE
  decode_prefill_token_budget = 1
  idle_prefill_token_budget = 1
  long_prefill_token_threshold = 0
  max_long_prefills_per_step = 1
  num_gpu_blocks = 4
  block_size = 2
  watermark_blocks = 0
  scheduler_reserve_full_isl = FALSE
  enable_prefix_caching = TRUE
  MaxInFlight = 2
  MaxResets = 2
  PauseStates = {"UNPAUSED", "PAUSED_NEW", "PAUSED_ALL"}
INVARIANTS
  TypeOK QueuesMatch BlocksConserved ScheduledStayRunning StepWithinBudget
  StaleIsOldest OutputContiguous DecodeAccounting
