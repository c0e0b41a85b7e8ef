------------------------------ MODULE Scheduler ------------------------------
(***************************************************************************)
(* The continuous-batching scheduler of vllm/v1/core/sched/scheduler.py    *)
(* under async scheduling: schedule() (the RUNNING loop with preemption,   *)
(* the WAITING loop, the decode-aware prefill budget and the long-prefill  *)
(* turns), _update_after_schedule(), update_from_output(), add_request(),  *)
(* finish_requests(), set_pause_state() and reset_prefix_cache().          *)
(*                                                                         *)
(* schedule() runs one loop iteration per step; nothing else runs between  *)
(* two of them.  Up to MaxInFlight scheduled batches are in flight, so     *)
(* schedule() works on counters whose outputs have not come back yet.      *)
(*                                                                         *)
(* FCFS policy, one pipeline stage, no data-parallel throttling, no KV or  *)
(* encoder connector, no LoRA, no multimodal input, no Mamba layer.        *)
(***************************************************************************)
EXTENDS Integers, Sequences, FiniteSets, FiniteSetsExt, SequencesExt

CONSTANTS
  NumRequests,                  \* bound: requests 1 .. NumRequests, by arrival time
  num_prompt_tokens,            \* num_prompt_tokens[r]
  max_tokens,                   \* output limit of a request
  max_model_len,
  max_num_running_reqs,
  max_num_scheduled_tokens,     \* token budget of a step
  num_spec_tokens,              \* draft tokens per decode
  enable_decode_aware_prefill,
  decode_prefill_token_budget,
  idle_prefill_token_budget,
  long_prefill_token_threshold,
  max_long_prefills_per_step,
  num_gpu_blocks, block_size, watermark_blocks,
  scheduler_reserve_full_isl,   \* admit only what fits with its whole prompt
  enable_prefix_caching,
  MaxInFlight,                  \* max_concurrent_batches of the engine
  MaxResets,                    \* bound: calls of reset_prefix_cache
  PauseStates                   \* pause states the run may enter

Requests == 1 .. NumRequests
num_lookahead_tokens == num_spec_tokens

ASSUME CountsAssumption ==
  /\ NumRequests \in Nat /\ max_tokens \in Nat \ {0}
  /\ max_num_running_reqs \in Nat \ {0} /\ max_num_scheduled_tokens \in Nat \ {0}
  /\ num_gpu_blocks \in Nat \ {0} /\ block_size \in Nat \ {0}
  /\ watermark_blocks \in Nat /\ MaxInFlight \in Nat \ {0} /\ MaxResets \in Nat
ASSUME PromptAssumption ==
  /\ num_prompt_tokens \in [Requests -> Nat \ {0}] /\ max_model_len \in Nat
  /\ \A r \in Requests : num_prompt_tokens[r] < max_model_len
ASSUME PrefillAssumption ==
  /\ decode_prefill_token_budget \in Nat \ {0} /\ idle_prefill_token_budget \in Nat \ {0}
  /\ max_long_prefills_per_step \in Nat \ {0} /\ long_prefill_token_threshold \in Nat
  /\ enable_decode_aware_prefill => long_prefill_token_threshold > 0
ASSUME FlagsAssumption ==
  /\ {enable_decode_aware_prefill, scheduler_reserve_full_isl,
      enable_prefix_caching} \subseteq BOOLEAN
  /\ num_spec_tokens \in Nat
  /\ PauseStates \subseteq {"UNPAUSED", "PAUSED_NEW", "PAUSED_ALL"}

VARIABLES
  req,              \* the Request objects
  running, waiting, skipped_waiting,
  free,             \* free blocks of the KV pool
  last,             \* _long_prefill_last_scheduled, as ranks; -1 for no entry
  pause, resets,
  pc, step,         \* the schedule() in progress and its local variables
  batches,          \* scheduled steps whose output is not processed yet
  worker            \* tokens the model runner holds for a request

queues == <<running, waiting, skipped_waiting>>
vars   == <<req, queues, free, last, pause, resets, pc, step, batches, worker>>

\* status "NEW": not added yet; "FINISHED": removed from self.requests.
Fresh(s) ==
  [status |-> s, computed |-> 0, tokens |-> 0, spec |-> 0, placeholders |-> 0,
   in_flight |-> 0, stale |-> 0, drop |-> FALSE, chunk |-> FALSE, blocks |-> 0]

Nothing == [r \in Requests |-> 0]
NoStep ==
  [budget |-> 0, prefill_budget |-> 0, prefill_used |-> 0, selected |-> {},
   index |-> 1, n |-> Nothing, spec |-> Nothing, resumed |-> {}, skipped |-> <<>>,
   preempted |-> FALSE, decodes |-> FALSE, prefill_scheduled |-> FALSE]

Init ==
  /\ req = [r \in Requests |-> Fresh("NEW")]
  /\ running = <<>> /\ waiting = <<>> /\ skipped_waiting = <<>>
  /\ free = num_gpu_blocks
  /\ last = [r \in Requests |-> -1]
  /\ pause = "UNPAUSED" /\ resets = 0
  /\ pc = "idle" /\ step = NoStep
  /\ batches = <<>>
  /\ worker = [r \in Requests |-> 0]

Live(r) == req[r].status \in {"WAITING", "RUNNING", "PREEMPTED"}

\* remove_all: the queue q without the requests in S.
Without(q, S) ==
  LET kept[i \in 0 .. Len(q)] ==
        IF i = 0 THEN <<>>
        ELSE IF q[i] \in S THEN kept[i - 1] ELSE Append(kept[i - 1], q[i])
  IN  kept[Len(q)]

\* The KV blocks the requests in S hold.
BlocksOf(S) == SumFunctionOnSet([r \in Requests |-> req[r].blocks], S)

-----------------------------------------------------------------------------
(* KVCacheManager.allocate_slots, on block counts                          *)

Lesser(a, b)  == IF a < b THEN a ELSE b
Greater(a, b) == IF a > b THEN a ELSE b
BlocksFor(n)  == (n + block_size - 1) \div block_size

\* Blocks request r lacks to hold n more tokens and the lookahead slots.
Missing(r, computed, n) ==
  LET slots == Lesser(Lesser(computed, max_model_len) + n + num_lookahead_tokens,
                      max_model_len)
  IN  Greater(0, BlocksFor(slots) - req[r].blocks)

\* Admission of a waiting request: headroom next to running ones, and room for its
\* whole sequence if scheduler_reserve_full_isl.
CanAdmit(r, computed, n) ==
  LET headroom == IF running # <<>> THEN watermark_blocks ELSE 0
  IN  /\ scheduler_reserve_full_isl =>
           BlocksFor(Lesser(req[r].tokens, max_model_len)) + headroom <= free
      /\ Missing(r, computed, n) + headroom <= free

\* get_computed_blocks: a hit covers full blocks, never the last token.
PrefixHits(r) ==
  {h \in 0 .. req[r].tokens - 1 :
     h % block_size = 0 /\ (enable_prefix_caching \/ h = 0)}

-----------------------------------------------------------------------------
(* Long-prefill turns                                                      *)

IsLongPrefill(r) ==
  /\ num_prompt_tokens[r] > long_prefill_token_threshold
  /\ Live(r)
  /\ req[r].status = "RUNNING" => req[r].chunk

\* The order of by_age: least recently scheduled, then earliest arrival.
AgeBefore(ages, q, r) == ages[q] < ages[r] \/ (ages[q] = ages[r] /\ q < r)
Oldest(ages, S, k) == {r \in S : Cardinality({q \in S : AgeBefore(ages, q, r)}) < k}

\* _select_long_prefill_request_ids
SelectLongPrefills(ages) ==
  LET long       == {r \in Requests : IsLongPrefill(r)}
      active     == long \cap ToSet(running)
      admittable == Greater(0, max_num_running_reqs - Len(running))
  IN  Oldest(ages, active \cup Oldest(ages, long \ active, admittable),
             max_long_prefills_per_step)

\* self.current_step is the newest of all steps: a rank above every other.
current_step == NumRequests

\* Ranks keep the order of the step numbers and nothing else.
Ranked(ages) ==
  [r \in Requests |->
     IF ages[r] = -1 THEN -1
     ELSE Cardinality({ages[q] : q \in {q \in Requests : -1 < ages[q] /\ ages[q] < ages[r]}})]

\* (variant: an unused turn is not charged)
DebitUnusedTurns_Never(ages) == ages

\* _debit_unused_long_prefill_turns: a turn that was selected and not used is charged.
DebitUnusedTurns(ages) ==
  IF enable_decode_aware_prefill /\ pause # "PAUSED_ALL"
  THEN [r \in Requests |->
          IF r \in step.selected /\ step.n[r] = 0 THEN current_step ELSE ages[r]]
  ELSE ages

-----------------------------------------------------------------------------
(* schedule(): the start                                                   *)

StartSchedule ==
  /\ pc = "idle"
  /\ Len(batches) < MaxInFlight
  /\ \E r \in Requests : Live(r)
  /\ LET decoding   == \E i \in 1 .. Len(running) : ~ req[running[i]].chunk
         configured == IF decoding THEN decode_prefill_token_budget
                       ELSE idle_prefill_token_budget
         budget     == IF pause = "PAUSED_ALL" THEN 0 ELSE max_num_scheduled_tokens
         ages       == [r \in Requests |-> IF Live(r) THEN last[r] ELSE -1]
     IN  IF enable_decode_aware_prefill
         THEN /\ last' = ages
              /\ step' = [NoStep EXCEPT
                   !.budget = budget,
                   !.prefill_budget = Lesser(configured, max_num_scheduled_tokens),
                   !.selected = SelectLongPrefills(ages)]
         ELSE /\ UNCHANGED last
              /\ step' = [NoStep EXCEPT !.budget = budget, !.prefill_budget = budget]
  /\ pc' = "running"
  /\ UNCHANGED <<req, queues, free, pause, resets, batches, worker>>

-----------------------------------------------------------------------------
(* schedule(): the RUNNING loop                                            *)

RemainingPrefill == step.prefill_budget - step.prefill_used
AwarePrefill(r)  == enable_decode_aware_prefill /\ req[r].chunk

Truncated(n) ==
  IF 0 < long_prefill_token_threshold /\ long_prefill_token_threshold < n
  THEN long_prefill_token_threshold ELSE n

\* num_new_tokens of a running request, after every cap.
RunningTokens(r) ==
  LET all    == req[r].tokens + req[r].spec + req[r].placeholders - req[r].computed
      capped == IF AwarePrefill(r) THEN Lesser(all, RemainingPrefill) ELSE Truncated(all)
  IN  Lesser(Lesser(capped, step.budget), max_model_len - req[r].computed - 1)

\* The outputs in flight are sure to reach max_tokens.
ReachesLimit(r) ==
  /\ req[r].placeholders > 0
  /\ req[r].computed + 2 - req[r].placeholders >= num_prompt_tokens[r] + max_tokens

SkipRunning(r) ==
  \/ ReachesLimit(r)
  \/ enable_decode_aware_prefill /\ IsLongPrefill(r) /\ r \notin step.selected
  \/ AwarePrefill(r) /\ RemainingPrefill <= 0
  \/ RunningTokens(r) = 0

InRunningLoop ==
  pc = "running" /\ step.index <= Len(running) /\ step.budget > 0

RunningSkip ==
  /\ InRunningLoop
  /\ SkipRunning(running[step.index])
  /\ step' = [step EXCEPT !.index = @ + 1]
  /\ UNCHANGED <<req, queues, free, last, pause, resets, pc, batches, worker>>

RunningSchedule ==
  /\ InRunningLoop
  /\ LET r       == running[step.index]
         n       == RunningTokens(r)
         missing == Missing(r, req[r].computed, n)
         drafts  == Greater(0, Lesser(req[r].spec,
                      n + req[r].computed - req[r].tokens - req[r].placeholders))
     IN  /\ ~ SkipRunning(r)
         /\ missing <= free
         /\ free' = free - missing
         /\ req' = [req EXCEPT ![r].blocks = @ + missing, ![r].spec = 0]
         /\ last' = IF AwarePrefill(r) /\ IsLongPrefill(r)
                    THEN [last EXCEPT ![r] = current_step] ELSE last
         /\ step' = [step EXCEPT
              !.index = @ + 1, !.budget = @ - n, !.n[r] = n, !.spec[r] = drafts,
              !.prefill_used = IF AwarePrefill(r) THEN @ + n ELSE @,
              !.decodes = TRUE,
              !.prefill_scheduled = @ \/ req[r].chunk]
  /\ UNCHANGED <<queues, pause, resets, pc, batches, worker>>

\* (variant: the output in flight is added to what is stale already)
Preempted_Accumulate(q, drop) ==
  [Fresh("PREEMPTED") EXCEPT
     !.tokens = q.tokens, !.chunk = q.chunk, !.in_flight = q.in_flight,
     !.stale = q.stale + q.in_flight,
     !.drop = drop \/ (q.drop /\ q.stale > 0)]

\* (variant: the request keeps its block table)
Preempted_KeepBlocks(q, drop) ==
  [Fresh("PREEMPTED") EXCEPT
     !.tokens = q.tokens, !.chunk = q.chunk, !.in_flight = q.in_flight,
     !.stale = q.in_flight, !.blocks = q.blocks,
     !.drop = drop \/ (q.drop /\ q.stale > 0)]

\* _preempt_request, on the Request object: its blocks are freed, its counters reset,
\* all its output in flight becomes stale.
Preempted(q, drop) ==
  [Fresh("PREEMPTED") EXCEPT
     !.tokens = q.tokens, !.chunk = q.chunk, !.in_flight = q.in_flight,
     !.stale = q.in_flight,
     !.drop = drop \/ (q.drop /\ q.stale > 0)]

\* (variant: the first running request is preempted)
Victim_First == Head(running)

Victim == running[Len(running)]

\* No room for the current request: the last running one is preempted; if that is
\* the current request itself, the loop ends.
RunningPreempt ==
  /\ InRunningLoop
  /\ LET r      == running[step.index]
         victim == Victim
     IN  /\ ~ SkipRunning(r)
         /\ Missing(r, req[r].computed, RunningTokens(r)) > free
         /\ free' = free + req[victim].blocks
         /\ req' = [req EXCEPT ![victim] = Preempted(@, FALSE)]
         /\ running' = Without(running, {victim})
         /\ waiting' = <<victim>> \o waiting
         /\ step' = [step EXCEPT !.preempted = TRUE]
         /\ pc' = IF victim = r THEN "finish" ELSE pc
  /\ UNCHANGED <<skipped_waiting, last, pause, resets, batches, worker>>

\* The WAITING loop is entered only if nothing was preempted.
RunningDone ==
  /\ pc = "running"
  /\ ~ InRunningLoop
  /\ pc' = IF ~ step.preempted /\ pause = "UNPAUSED" THEN "waiting" ELSE "finish"
  /\ UNCHANGED <<req, queues, free, last, pause, resets, step, batches, worker>>

-----------------------------------------------------------------------------
(* schedule(): the WAITING loop                                            *)

\* FCFS: the skipped queue is served before the waiting queue.
NextWaiting == Head(skipped_waiting \o waiting)

PopWaiting ==
  IF skipped_waiting # <<>>
  THEN skipped_waiting' = Tail(skipped_waiting) /\ UNCHANGED waiting
  ELSE waiting' = Tail(waiting) /\ UNCHANGED skipped_waiting

InWaitingLoop ==
  /\ pc = "waiting"
  /\ skipped_waiting \o waiting # <<>>
  /\ step.budget > 0
  /\ Len(running) < max_num_running_reqs

\* (variant: a request is resumed while its stale output is in flight)
MustWait_Never(r) == FALSE

\* Deliverable stale output is still in flight.
MustWait(r) == req[r].stale > 0 /\ ~ req[r].drop

WaitingSkip ==
  /\ InWaitingLoop
  /\ MustWait(NextWaiting)
  /\ PopWaiting
  /\ step' = [step EXCEPT !.skipped = Append(@, NextWaiting)]
  /\ UNCHANGED <<req, running, free, last, pause, resets, pc, batches, worker>>

\* A last prompt token joining a batch of decodes is padded with draft tokens.
Padded(r, hit) ==
  /\ num_spec_tokens > 0
  /\ req[r].tokens - hit = 1
  /\ step.decodes /\ ~ step.prefill_scheduled

PadFits(hit) ==
  /\ 1 + num_spec_tokens <= step.budget
  /\ hit + 1 + num_spec_tokens <= max_model_len

\* (variant: the rest of the token budget is not looked at)
WaitingTokens_Uncapped(r, hit) ==
  IF Padded(r, hit) THEN 1 + num_spec_tokens ELSE req[r].tokens - hit

WaitingTokens(r, hit) ==
  LET all    == IF Padded(r, hit) THEN 1 + num_spec_tokens ELSE req[r].tokens - hit
      capped == IF enable_decode_aware_prefill THEN Lesser(all, RemainingPrefill)
                ELSE Truncated(all)
  IN  Lesser(capped, step.budget)

Admissible(r, hit) ==
  /\ Padded(r, hit) => PadFits(hit)
  /\ enable_decode_aware_prefill => RemainingPrefill > 0
  /\ CanAdmit(r, hit, WaitingTokens(r, hit))

Admit(hit) ==
  /\ InWaitingLoop
  /\ LET r       == NextWaiting
         n       == WaitingTokens(r, hit)
         missing == Missing(r, hit, n)
     IN  /\ ~ MustWait(r)
         /\ hit \in PrefixHits(r)
         /\ Admissible(r, hit)
         /\ free' = free - missing
         /\ running' = Append(running, r)
         /\ last' = IF enable_decode_aware_prefill /\ IsLongPrefill(r)
                    THEN [last EXCEPT ![r] = current_step] ELSE last
         /\ req' = [req EXCEPT ![r].status = "RUNNING", ![r].computed = hit,
                               ![r].blocks = @ + missing]
         /\ step' = [step EXCEPT
              !.budget = @ - n, !.n[r] = n, !.resumed = @ \cup {r},
              !.spec[r] = IF Padded(r, hit) THEN num_spec_tokens ELSE 0,
              !.prefill_used = IF enable_decode_aware_prefill THEN @ + n ELSE @]
  /\ PopWaiting
  /\ UNCHANGED <<pause, resets, pc, batches, worker>>

\* (variant: the skipped requests are not put back)
Requeued_Lost == skipped_waiting

Requeued == step.skipped \o skipped_waiting

\* Nothing waits, no slot or budget is left, or the next request does not fit: the
\* loop breaks, and what it skipped goes back in front.
WaitingDone(hit) ==
  /\ pc = "waiting"
  /\ \/ hit = 0 /\ ~ InWaitingLoop
     \/ /\ InWaitingLoop /\ ~ MustWait(NextWaiting)
        /\ hit \in PrefixHits(NextWaiting)
        /\ ~ Admissible(NextWaiting, hit)
  /\ skipped_waiting' = Requeued
  /\ step' = [step EXCEPT !.skipped = <<>>]
  /\ pc' = "finish"
  /\ UNCHANGED <<req, running, waiting, free, last, pause, resets, batches, worker>>

-----------------------------------------------------------------------------
(* schedule(): the end                                                     *)

\* _update_after_schedule, on a scheduled Request.
UpdateAfterSchedule(q, n) ==
  LET computed == q.computed + n
  IN  [q EXCEPT !.computed = computed, !.in_flight = @ + n,
                !.chunk = computed < q.tokens + q.placeholders]

\* AsyncScheduler: a request past its prompt will produce a token and its drafts.
AddPlaceholders(q, drafts) ==
  IF q.chunk THEN q
  ELSE [q EXCEPT !.placeholders = @ + 1 + drafts, !.spec = num_spec_tokens]

FinishSchedule ==
  /\ pc = "finish"
  /\ LET scheduled == {r \in Requests : step.n[r] # 0}
         after     == [r \in Requests |->
                         IF r \in scheduled
                         THEN AddPlaceholders(UpdateAfterSchedule(req[r], step.n[r]),
                                              step.spec[r])
                         ELSE req[r]]
         batch     == [n |-> step.n, spec |-> step.spec,
                       samples |-> {r \in scheduled : ~ after[r].chunk},
                       resumed |-> [r \in Requests |->
                                      IF r \in step.resumed THEN req[r].tokens ELSE 0]]
     IN  /\ req' = after
         /\ batches' = IF scheduled = {} THEN batches ELSE Append(batches, batch)
  /\ last' = Ranked(DebitUnusedTurns(last))
  /\ pc' = "idle" /\ step' = NoStep
  /\ UNCHANGED <<queues, free, pause, resets, worker>>

-----------------------------------------------------------------------------
(* update_from_output()                                                    *)

\* Where the runner's next output for r starts: a resumed request carries its
\* tokens with it, any other goes on from what the runner sampled before.
StartOf(b, r) == IF b.resumed[r] # 0 THEN b.resumed[r] ELSE worker[r]

\* The in-flight and stale shares of the step are drained in lockstep.
Drained(q, n) ==
  [q EXCEPT !.in_flight = @ - n, !.stale = IF @ > 0 THEN @ - n ELSE 0]

\* (variant: the optimistic computed count is not rolled back)
Rollback_Placeholders(q, stale, rejected) ==
  IF stale THEN q
  ELSE [q EXCEPT !.placeholders = IF @ > 0 THEN @ - rejected ELSE @]

\* Rejected draft tokens roll the counters back, unless the output is stale.
Rollback(q, stale, rejected) ==
  IF stale THEN q
  ELSE [q EXCEPT !.computed = IF @ > 0 THEN @ - rejected ELSE @,
                 !.placeholders = IF @ > 0 THEN @ - rejected ELSE @]

\* _update_request_with_output: tokens are appended until check_stop; AsyncScheduler
\* takes the appended ones off the placeholders.
Room(r) ==
  Lesser(num_prompt_tokens[r] + max_tokens, max_model_len) - req[r].tokens

WithOutput(r, q, stale, generated) ==
  LET appended == Lesser(generated, Room(r))
  IN  [q EXCEPT !.tokens = @ + appended,
                !.placeholders = IF stale THEN @ ELSE @ - appended]

\* The output of batch b for request r: acc accepted drafts; eos ends the request.
Processed(r, b, acc, eos, absent) ==
  LET stale     == req[r].stale > 0
      drained   == Drained(req[r], b.n[r])
      generated == IF r \in b.samples THEN 1 + acc ELSE 0
      rejected  == IF r \in b.samples THEN b.spec[r] - acc ELSE 0
  IN  IF b.n[r] = 0 \/ ~ Live(r) THEN req[r]
      ELSE IF stale /\ (req[r].drop \/ absent) THEN drained
      ELSE IF generated >= Room(r) \/ (eos /\ generated > 0) THEN Fresh("FINISHED")
      ELSE WithOutput(r, Rollback(drained, stale, rejected), stale, generated)

\* acc: drafts accepted per request; eos: requests that end; absent: preempted requests
\* the runner has evicted, missing from req_id_to_index.
UpdateFromOutput(acc, eos, absent) ==
  /\ pc = "idle"
  /\ batches # <<>>
  /\ LET b == Head(batches)
         after   == [r \in Requests |-> Processed(r, b, acc[r], r \in eos, r \in absent)]
         stopped == {r \in Requests : Live(r) /\ after[r].status = "FINISHED"}
     IN  /\ \A r \in Requests : acc[r] <= IF r \in b.samples THEN b.spec[r] ELSE 0
         /\ eos \subseteq b.samples
         /\ absent \subseteq {r \in Requests : b.n[r] # 0 /\ req[r].stale > 0}
         /\ req' = after
         /\ free' = free + BlocksOf(stopped)
         /\ running' = Without(running, stopped)
         /\ waiting' = Without(waiting, stopped)
         /\ skipped_waiting' = Without(skipped_waiting, stopped)
         /\ worker' = [r \in Requests |->
              IF after[r].status = "FINISHED" THEN 0
              ELSE IF b.n[r] = 0 THEN worker[r]
              ELSE StartOf(b, r) + (IF r \in b.samples THEN 1 + acc[r] ELSE 0)]
  /\ batches' = Tail(batches)
  /\ UNCHANGED <<last, pause, resets, pc, step>>

-----------------------------------------------------------------------------
(* Calls from outside                                                      *)

AddRequest(r) ==
  /\ pc = "idle"
  /\ req[r].status = "NEW"
  /\ \A q \in 1 .. r - 1 : req[q].status # "NEW"
  /\ req' = [req EXCEPT ![r] = [Fresh("WAITING") EXCEPT !.tokens = num_prompt_tokens[r]]]
  /\ waiting' = Append(waiting, r)
  /\ UNCHANGED <<running, skipped_waiting, free, last, pause, resets, pc, step, batches,
                 worker>>

\* finish_requests(r, FINISHED_ABORTED)
AbortRequest(r) ==
  /\ pc = "idle"
  /\ Live(r)
  /\ free' = free + req[r].blocks
  /\ req' = [req EXCEPT ![r] = Fresh("FINISHED")]
  /\ running' = Without(running, {r})
  /\ waiting' = Without(waiting, {r})
  /\ skipped_waiting' = Without(skipped_waiting, {r})
  /\ worker' = [worker EXCEPT ![r] = 0]
  /\ UNCHANGED <<last, pause, resets, pc, step, batches>>

SetPauseState(s) ==
  /\ pc = "idle" /\ s # pause
  /\ pause' = s
  /\ UNCHANGED <<req, queues, free, last, resets, pc, step, batches, worker>>

\* reset_prefix_cache(reset_running_requests=True): every running request is preempted,
\* last first, and its output in flight will be dropped.
ResetPrefixCache ==
  /\ pc = "idle" /\ resets < MaxResets
  /\ LET victims == ToSet(running)
     IN  /\ req' = [r \in Requests |->
                      IF r \in victims THEN Preempted(req[r], TRUE) ELSE req[r]]
         /\ free' = free + BlocksOf(victims)
  /\ waiting' = running \o waiting
  /\ running' = <<>>
  /\ resets' = resets + 1
  /\ UNCHANGED <<skipped_waiting, last, pause, pc, step, batches, worker>>

-----------------------------------------------------------------------------
Schedule ==
  \/ StartSchedule
  \/ RunningSkip \/ RunningSchedule \/ RunningPreempt \/ RunningDone
  \/ WaitingSkip
  \/ \E hit \in 0 .. max_model_len : Admit(hit) \/ WaitingDone(hit)
  \/ FinishSchedule

Output ==
  \E acc \in [Requests -> 0 .. num_spec_tokens] :
    \E eos, absent \in SUBSET Requests : UpdateFromOutput(acc, eos, absent)

Next ==
  \/ Schedule \/ Output
  \/ \E r \in Requests : AddRequest(r) \/ AbortRequest(r)
  \/ \E s \in PauseStates : SetPauseState(s)
  \/ ResetPrefixCache

\* The engine loop keeps calling schedule(), and takes the oldest output whenever the
\* pipeline is full or nothing could be scheduled.
Fairness == WF_vars(Schedule) /\ SF_vars(Output)

Spec     == Init /\ [][Next]_vars
FairSpec == Spec /\ Fairness
-----------------------------------------------------------------------------
(* Properties                                                              *)

Record ==
  [status : {"NEW", "WAITING", "RUNNING", "PREEMPTED", "FINISHED"},
   computed : 0 .. max_model_len, tokens : 0 .. max_model_len,
   spec : 0 .. num_spec_tokens, placeholders : Nat, in_flight : Nat, stale : Nat,
   drop : BOOLEAN, chunk : BOOLEAN, blocks : 0 .. num_gpu_blocks]

\* The types of the state; every counter of a request stays natural and no request
\* computes past max_model_len.
TypeOK ==
  /\ req \in [Requests -> Record]
  /\ running \in Seq(Requests) /\ waiting \in Seq(Requests)
  /\ skipped_waiting \in Seq(Requests)
  /\ free \in 0 .. num_gpu_blocks
  /\ last \in [Requests -> -1 .. NumRequests]
  /\ pause \in {"UNPAUSED", "PAUSED_NEW", "PAUSED_ALL"} /\ resets \in 0 .. MaxResets
  /\ pc \in {"idle", "running", "waiting", "finish"}
  /\ step.budget \in 0 .. max_num_scheduled_tokens
  /\ Len(batches) <= MaxInFlight
  /\ worker \in [Requests -> Nat]

\* A live request is in exactly one queue, the one its status says: it is neither lost
\* nor scheduled twice when preemption, skipping, resets and stops move it around.
QueuesMatch ==
  LET all == running \o waiting \o skipped_waiting \o step.skipped
  IN  /\ IsInjective(all)
      /\ ToSet(all) = {r \in Requests : Live(r)}
      /\ ToSet(running) = {r \in Requests : req[r].status = "RUNNING"}

\* Every KV block is free or held by one running request; what a preempted, stopped or
\* aborted request held goes back to the pool once.
BlocksConserved ==
  /\ free + BlocksOf(Requests) = num_gpu_blocks
  /\ \A r \in Requests : req[r].status # "RUNNING" => req[r].blocks = 0

\* A request given tokens in this step is still running when the step ends: preemption,
\* which takes the tail of the running queue, never hits a scheduled request.
ScheduledStayRunning ==
  \A r \in Requests : step.n[r] # 0 => req[r].status = "RUNNING"

\* A step stays within its token budget, its prefill budget and the sequence limit
\* (the assertions at the end of schedule()).
StepWithinBudget ==
  /\ step.budget >= 0
  /\ pc # "idle" => SumFunctionOnSet(step.n, Requests) <= max_num_scheduled_tokens
  /\ enable_decode_aware_prefill => step.prefill_used <= step.prefill_budget
  /\ Len(running) <= max_num_running_reqs

Shares(r, i) == SumFunctionOnSet([j \in DOMAIN batches |-> batches[j].n[r]], 1 .. i)

\* The stale tokens of a request are exactly the shares of its oldest batches in flight,
\* so draining them in lockstep ends at 0 and no output is taken for stale, or for
\* current, by mistake.
StaleIsOldest ==
  \A r \in Requests : Live(r) =>
    /\ req[r].in_flight = Shares(r, Len(batches))
    /\ \E i \in 0 .. Len(batches) : req[r].stale = Shares(r, i)

\* Output that will be delivered starts right after the tokens its request has: a
\* preempted request that resumes never samples a position a second time.
OutputContiguous ==
  pc = "idle" /\ batches # <<>> =>
    \A r \in Head(batches).samples :
      Live(r) /\ ~ (req[r].stale > 0 /\ req[r].drop)
        => StartOf(Head(batches), r) = req[r].tokens

\* The KV of a decoding request is short of exactly its last token, counting the tokens
\* that outputs in flight may still bring: rejections are rolled back once.
DecodeAccounting ==
  pc = "idle" =>
    \A r \in Requests : req[r].status = "RUNNING" /\ ~ req[r].chunk =>
      req[r].computed = req[r].tokens + req[r].placeholders - 1

\* Every request finishes, whatever is preempted on the way and whoever holds the
\* long-prefill turn.
EveryRequestFinishes ==
  \A r \in Requests : Live(r) ~> req[r].status = "FINISHED"

-----------------------------------------------------------------------------
(* What the documentation and the assertions say                           *)

\* "Prefer to not schedule than schedule un-padded here": draft tokens are scheduled
\* together with the token they follow.
DraftsScheduled ==
  \A r \in Requests : step.spec[r] > 0 => step.n[r] >= 1 + step.spec[r]

\* "assert num_tokens_scheduled > 0" in update_from_output.
ScheduledPositive == \A i \in 1 .. Len(batches) : \A r \in Requests : batches[i].n[r] >= 0
=============================================================================
