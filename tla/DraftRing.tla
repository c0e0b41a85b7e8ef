------------------------------ MODULE DraftRing ------------------------------
(***************************************************************************)
(* The DSpark draft ring of overlays/dspark-ring: the KV window of the     *)
(* draft model lives in one ring row per resident request, beside the      *)
(* paged allocator.  Every step of the target model feeds the positions it *)
(* computed into the rows (ring_ingest), rebuilds the visibility mask or   *)
(* keeps it (propose), and the draft attends over the rows and the mask    *)
(* (_ring_attention).  Prefix-cache hits are cut so that the window is     *)
(* computed again (get_computed_blocks).                                   *)
(*                                                                         *)
(* The worker is single-threaded: one call of propose() is one action.     *)
(* What is nondeterministic is what reaches it: the order of the batch,    *)
(* chunk sizes, rejected drafts, the row a request is given, preemption    *)
(* and completion with the row handed on.                                  *)
(***************************************************************************)
EXTENDS Integers, Sequences, FiniteSets, FiniteSetsExt, SequencesExt

CONSTANTS
  Requests,
  NoRequest,            \* content of a slot never written
  num_prompt_tokens,    \* num_prompt_tokens[r]
  window,               \* VLLM_DSPARK_DRAFT_WINDOW
  max_num_reqs,         \* rows of the ring, and slots of a batch
  num_speculative_steps,
  num_query_per_req,    \* draft block of a request, 1 + num_speculative_steps
  block_size,
  MaxChunk,             \* bound: tokens of a request in one step
  MaxTokens,            \* bound: tokens of a request
  MaxPreemptions        \* bound: preemptions in a behaviour

Rows  == 0 .. max_num_reqs - 1
Slots == 0 .. window - 1          \* slot window, the trash bin, is never read
NoRow == -1

ASSUME RingAssumption ==
  /\ NoRequest \notin Requests
  /\ window \in Nat \ {0} /\ max_num_reqs \in Nat \ {0} /\ block_size \in Nat \ {0}
  /\ num_speculative_steps \in Nat /\ num_query_per_req \in Nat
  /\ num_prompt_tokens \in [Requests -> Nat \ {0}]
  /\ MaxChunk \in Nat \ {0} /\ MaxTokens \in Nat /\ MaxPreemptions \in Nat

VARIABLES
  ring,       \* ring[row][slot]: the token whose K/V it holds
  attn_mask,  \* attn_mask[row]: slots below this number are visible
  steady,     \* _ring_mask_steady
  batch,      \* the requests of the last step, in batch order
  row,        \* row[r]: req_states index of a resident request
  computed,   \* computed[r]: accepted positions the target has computed
  tokens,     \* tokens[r]: prompt and sampled tokens
  decoding,   \* residents that have sampled a token since they were admitted
  excess,     \* excess[r]: drafts of the last step the host may still count
  finished,   \* requests that have left
  preempts    \* preemptions so far

vars == <<ring, attn_mask, steady, batch, row, computed, tokens, decoding,
          excess, finished, preempts>>

(* K/V of one token: drafts that were rejected are not the request's text. *)
Token(r, p)    == [req |-> r, pos |-> p, accepted |-> TRUE]
Rejected(r, p) == [req |-> r, pos |-> p, accepted |-> FALSE]
Unwritten      == [req |-> NoRequest, pos |-> 0, accepted |-> FALSE]

Resident == {r \in Requests : row[r] # NoRow}

-----------------------------------------------------------------------------
Init ==
  /\ ring = [w \in Rows |-> [s \in Slots |-> Unwritten]]
  /\ attn_mask = [w \in Rows |-> window]
  /\ steady = FALSE
  /\ batch = <<>>
  /\ row = [r \in Requests |-> NoRow]
  /\ computed = [r \in Requests |-> 0]
  /\ tokens = num_prompt_tokens
  /\ decoding = {}
  /\ excess = [r \in Requests |-> 0]
  /\ finished = {}
  /\ preempts = 0

(* (variant: hits are not trimmed)                                          *)
ring_cache_trim_Off == 0

(* Tokens cut from a prefix hit, so that the window is ingested again.     *)
ring_cache_trim == window

(* Longest hit of get_computed_blocks, and the hits a cache may give.      *)
max_cache_hit_length(r) == Max({0, tokens[r] - 1 - ring_cache_trim})
CacheHits(r) == {h \in 0 .. max_cache_hit_length(r) : h % block_size = 0}

(* A request becomes resident, new or resumed, in any free row; whatever   *)
(* the row, its mask and the host flag held before stays there.            *)
Admit(r, w, hit) ==
  /\ r \notin finished /\ row[r] = NoRow
  /\ \A q \in Resident : row[q] # w
  /\ hit \in CacheHits(r)
  /\ row' = [row EXCEPT ![r] = w]
  /\ computed' = [computed EXCEPT ![r] = hit]
  /\ excess' = [excess EXCEPT ![r] = 0]
  /\ UNCHANGED <<ring, attn_mask, steady, batch, tokens, decoding, finished, preempts>>

Leave(r) ==
  /\ row' = [row EXCEPT ![r] = NoRow]
  /\ computed' = [computed EXCEPT ![r] = 0]
  /\ excess' = [excess EXCEPT ![r] = 0]
  /\ decoding' = decoding \ {r}
  /\ batch' = <<>>
  /\ UNCHANGED <<ring, attn_mask, steady, tokens>>

Preempt(r) ==
  /\ r \in Resident /\ preempts < MaxPreemptions
  /\ preempts' = preempts + 1
  /\ Leave(r)
  /\ UNCHANGED finished

Finish(r) ==
  /\ r \in Resident
  /\ finished' = finished \cup {r}
  /\ Leave(r)
  /\ UNCHANGED preempts

-----------------------------------------------------------------------------
(* A step computes w[1] positions of r, the last w[2] of them drafts that  *)
(* the sampler rejected.  Drafts follow the newest token of a decode.      *)
Work(r) ==
  {w \in (1 .. MaxChunk) \X (0 .. num_speculative_steps) :
     LET drafts == w[1] - (tokens[r] - computed[r]) IN
     IF drafts <= 0 THEN w[2] = 0
     ELSE drafts <= num_speculative_steps /\ r \in decoding /\ w[2] <= drafts}

(* (variant: rejected drafts are ingested at their positions)               *)
ring_ingest_KeepRejected(content, r, start, n, rej) ==
  LET row_max == start + n - 1
      keep(p) == p > row_max - window
  IN  [s \in Slots |->
         IF \E p \in start .. row_max : keep(p) /\ p % window = s
         THEN LET p == CHOOSE p \in start .. row_max : keep(p) /\ p % window = s
              IN  IF p < start + n - rej THEN Token(r, p) ELSE Rejected(r, p)
         ELSE content[s]]

(* (variant: the whole chunk is scattered, and of two positions of one slot *)
(*  the first stays)                                                        *)
ring_ingest_NoTail(content, r, start, n, rej) ==
  [s \in Slots |->
     LET hits == {p \in start .. start + n - rej - 1 : p % window = s}
     IN  IF hits = {} THEN content[s] ELSE Token(r, Min(hits))]

(* The row after the positions start .. start+n-1 were scattered into it:  *)
(* rejected drafts were moved far below the window and go to the trash     *)
(* slot with everything older than the last window positions.              *)
ring_ingest(content, r, start, n, rej) ==
  LET row_max == start + n - rej - 1
      kept    == {p \in start .. row_max : p > row_max - window}
  IN  [s \in Slots |->
         IF \E p \in kept : p % window = s
         THEN Token(r, CHOOSE p \in kept : p % window = s)
         ELSE content[s]]

(* The host's sequence length of a request: of the requests in late it     *)
(* does not know the last rejections yet.                                  *)
seq_lens_cpu_upper_bound(r, n, late) ==
  computed[r] + n + (IF r \in late THEN excess[r] ELSE 0)

(* (variant: the mask counts this step's rejected drafts)                   *)
valid_InclRejected(r, n, rej) == Min({computed[r] + n, window})

(* (variant: no clamp at the window)                                        *)
valid_NoClamp(r, n, rej) == computed[r] + n - rej

(* Window slots a request may look at: seq_lens less the rejected drafts.  *)
valid(r, n, rej) == Min({computed[r] + n - rej, window})

(* (variant: one deep request is enough to keep the mask)                   *)
is_deep_Any(bounds) == Max(bounds) > window + num_query_per_req

(* Every request of the batch is beyond the window by the host's bound.    *)
is_deep(bounds) == Min(bounds) > window + num_query_per_req

(* propose(): ring branch.  order is the batch, work[r] what r computed.   *)
Propose(order, work, late) ==
  LET reqs == ToSet(order)
      n(r) == work[r][1]
      rej(r) == work[r][2]
      deep == is_deep({seq_lens_cpu_upper_bound(r, n(r), late) : r \in reqs})
      rowReq(w) == CHOOSE r \in reqs : row[r] = w
      active == {row[r] : r \in reqs}
  IN
  /\ ring' = [w \in Rows |->
       IF w \in active
       THEN LET r == rowReq(w) IN ring_ingest(ring[w], r, computed[r], n(r), rej(r))
       ELSE ring[w]]
  /\ IF steady /\ deep
     THEN UNCHANGED <<attn_mask, steady>>
     ELSE /\ attn_mask' = [w \in Rows |->
               IF w \in active
               THEN LET r == rowReq(w) IN valid(r, n(r), rej(r))
               ELSE attn_mask[w]]
          /\ steady' = deep
  /\ batch' = order
  /\ computed' = [r \in Requests |->
       IF r \in reqs THEN computed[r] + n(r) - rej(r) ELSE computed[r]]
  /\ tokens' = [r \in Requests |->
       IF r \in reqs THEN Max({tokens[r], computed[r] + n(r) - rej(r) + 1})
       ELSE tokens[r]]
  /\ decoding' = decoding \cup {r \in reqs : computed[r] + n(r) >= tokens[r]}
  /\ excess' = [r \in Requests |-> IF r \in reqs THEN rej(r) ELSE excess[r]]
  /\ UNCHANGED <<row, finished, preempts>>

Step ==
  \E reqs \in SUBSET {r \in Resident : tokens[r] < MaxTokens} \ {{}} :
    \E order \in SetToSeqs(reqs), late \in SUBSET {r \in reqs : excess[r] > 0},
       work \in {f \in [reqs -> UNION {Work(r) : r \in reqs}] :
                   \A r \in reqs : f[r] \in Work(r)} :
      Propose(order, work, late)

Next ==
  \/ \E r \in Requests, w \in Rows : \E hit \in CacheHits(r) : Admit(r, w, hit)
  \/ \E r \in Requests : Preempt(r) \/ Finish(r)
  \/ Step

Spec == Init /\ [][Next]_vars

-----------------------------------------------------------------------------
(* Type invariant; excess is bounded by the drafts of one step.            *)
TypeOK ==
  /\ \A w \in Rows, s \in Slots :
       /\ ring[w][s].req \in Requests \cup {NoRequest}
       /\ ring[w][s].pos \in 0 .. MaxTokens + num_speculative_steps
  /\ attn_mask \in [Rows -> 0 .. window] /\ steady \in BOOLEAN
  /\ row \in [Requests -> Rows \cup {NoRow}]
  /\ \A r \in Requests : computed[r] <= tokens[r]
  /\ decoding \subseteq Resident
  /\ excess \in [Requests -> 0 .. num_speculative_steps]

WindowOf(r) == Max({0, computed[r] - window}) .. computed[r] - 1

(* The ring of a request that samples holds its own last window accepted   *)
(* tokens, each at its slot: after a chunk longer than the window, after   *)
(* rejected drafts, after a prefix hit, in a row that another request had, *)
(* and while other rows are fed (ring_ingest and the cache trim together). *)
RingHoldsWindow ==
  \A r \in decoding : \A p \in WindowOf(r) :
    ring[row[r]][p % window] = Token(r, p)

OwnWindow(r, content) ==
  content.req = r /\ content.accepted /\ content.pos \in WindowOf(r)

(* The mask that propose() leaves in a request's row, rebuilt or kept,     *)
(* shows no slot that the request has not filled.                          *)
RowMaskHidesUnwritten ==
  \A r \in ToSet(batch) \cap decoding : \A s \in Slots :
    s < attn_mask[row[r]] => OwnWindow(r, ring[row[r]][s])

(* The attention of a request sees no slot that the request has not filled *)
(* ("the ring holds real context only up to the last accepted token. Slots *)
(* past it are unwritten"): the i-th request of the batch reads K/V by its *)
(* row and the mask by its place in the batch (_ring_attention).           *)
AttentionSeesOwnWindow ==
  \A i \in DOMAIN batch : \A s \in Slots :
    /\ batch[i] \in decoding
    /\ s < attn_mask[i - 1]
    => OwnWindow(batch[i], ring[row[batch[i]]][s])
=============================================================================
