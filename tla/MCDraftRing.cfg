\* Two rows, two requests: wrap-around, rejected drafts, prefix hits, row reuse.
SPECIFICATION Spec
CONSTANTS
  r1 = r1
  r2 = r2
  NoRequest = NoRequest
  Requests = {r1, r2}
  num_prompt_tokens <- Prompts
  window = 3
  max_num_reqs = 2
  num_speculative_steps = 1
  num_query_per_req = 2
  block_size = 2
  MaxChunk = 6
  MaxTokens = 8
  MaxPreemptions = 1
INVARIANTS TypeOK RingHoldsWindow RowMaskHidesUnwritten
CHECK_DEADLOCK FALSE
