---------------------------- MODULE AdaptiveDepth ----------------------------
(***************************************************************************)
(* Adaptive draft depth: the ladder (depth_ladder.py), the controller      *)
(* (acceptance_length.py), the scheduler that drafts at its depth while    *)
(* several steps are in flight, and the graphs captured for the ladder     *)
(* and found by dispatch (cudagraph_utils.py).                             *)
(*                                                                         *)
(* quality is what the target would accept of a run of drafts.  Decodes    *)
(* fit the token budget, nobody is near max_model_len, no request has a    *)
(* grammar: every running request takes all its drafts into every step.    *)
(* Of the per-position counts only those the policy reads are kept.        *)
(***************************************************************************)
EXTENDS Integers, Sequences, FiniteSets, Functions, FiniteSetsExt

CONSTANTS
  Requests,
  Settings,             \* VLLM_ADAPTIVE_SPEC_DEPTHS, graph mode, capture sizes
  max_num_spec_tokens,
  max_num_reqs,         \* max_num_seqs
  prompt_tokens,        \* query length of a request that brings a prompt
  observation_window,
  MaxInFlight,
  Qualities,            \* acceptance runs to tell apart
  MaxShifts,            \* bound: changes of quality
  MaxArrivals           \* bound: admissions

ASSUME DepthAssumption ==
  /\ IsFiniteSet(Requests)
  /\ max_num_spec_tokens \in Nat \ {0} /\ observation_window \in Nat \ {0}
  /\ MaxInFlight \in Nat \ {0} /\ MaxShifts \in Nat /\ MaxArrivals \in Nat
  /\ Qualities \subseteq 0..max_num_spec_tokens
  /\ max_num_reqs \in Nat \ {0} /\ prompt_tokens \in Nat \ {0}
  /\ \A s \in Settings :
       /\ s.depths \subseteq Nat
       /\ s.cudagraph_mode \in {"FULL", "FULL_DECODE_ONLY", "FULL_AND_PIECEWISE"}
       /\ IsFiniteSet(s.cudagraph_capture_sizes) /\ s.cudagraph_capture_sizes # {}
       /\ s.cudagraph_capture_sizes \subseteq Nat \ {0}

VARIABLES
  setting,          \* one of Settings, fixed at start
  depth_ladder,     \* set of rungs, fixed at start
  graphs,           \* captured descriptors: adaptive and base, fixed at start
  num_spec_tokens,  \* the controller's depth
  window,           \* its counters
  drafts,           \* running request -> draft tokens it carries
  flight,           \* steps in flight, oldest first
  verdict,          \* last decision: depth judged, kinds of its samples
  quality, shifts, arrivals

vars == <<setting, depth_ladder, graphs, num_spec_tokens, window, drafts, flight,
          verdict, quality, shifts, arrivals>>

parse_adaptive_spec_depth_ladder(raw) ==
  {depth \in raw : 1 <= depth /\ depth <= max_num_spec_tokens}
    \cup {max_num_spec_tokens}

(* _reset_window.  own and placeholder are history the controller does not *)
(* keep: a sample was drafted at the current depth; one was a padding.     *)
NoWindow == [steps |-> 0, drafts |-> 0, draft_tokens |-> 0, accepted |-> 0,
             tail_23 |-> 0, position_4 |-> 0,
             own |-> FALSE, placeholder |-> FALSE]

Running == DOMAIN drafts

-----------------------------------------------------------------------------
(* The graphs of CudaGraphManager.  A descriptor holds batches of up to    *)
(* num_reqs requests and num_tokens tokens; None is written 0.             *)

decode_query_len == max_num_spec_tokens + 1
separate_decode_routine == setting.cudagraph_mode # "FULL"
max_cudagraph_capture_size == Max(setting.cudagraph_capture_sizes)
max_captured_reqs == Min({max_num_reqs, 32})

(* (variant: the sampled token is forgotten)                                *)
adaptive_spec_decode_query_lens_NoSample == depth_ladder

adaptive_spec_decode_query_lens == {depth + 1 : depth \in depth_ladder}

DecodeDesc(query_len, num_reqs) ==
  [cg_mode |-> "FULL", num_tokens |-> query_len * num_reqs, num_reqs |-> num_reqs,
   uniform_token_count |-> query_len]

Capturable(descs) ==
  LET limit == Min({max_num_reqs * decode_query_len, max_cudagraph_capture_size})
  IN {desc \in descs : separate_decode_routine /\ desc.num_tokens <= limit}

(* The verifications of the maximum depth, at the capture sizes rounded up.*)
FixedDescs ==
  Capturable({DecodeDesc(decode_query_len,
                         (size + max_num_spec_tokens) \div decode_query_len) :
                size \in setting.cudagraph_capture_sizes})

(* The capture sizes as they are, for batches of any kind.                 *)
MixedDescs ==
  {[cg_mode |-> IF separate_decode_routine THEN "PIECEWISE" ELSE "FULL",
    num_tokens |-> size,
    num_reqs |-> IF separate_decode_routine THEN 0 ELSE Min({size, max_num_reqs}),
    uniform_token_count |-> 0] :
     size \in {c \in setting.cudagraph_capture_sizes :
                 setting.cudagraph_mode # "FULL_DECODE_ONLY"}}

(* One per rung and request count, up to 32 requests, unless it exists.    *)
AdaptiveDescs ==
  Capturable({DecodeDesc(q, n) : q \in adaptive_spec_decode_query_lens,
                                 n \in 1 .. max_captured_reqs}) \ FixedDescs

(* _assert_adaptive_spec_graph_coverage: the engine does not start if a    *)
(* rung lacks a graph for some request count up to 32.                     *)
GraphCoverage ==
  separate_decode_routine =>
    \A q \in adaptive_spec_decode_query_lens, n \in 1 .. max_captured_reqs :
      DecodeDesc(q, n) \in graphs.base \cup graphs.adaptive

(* _build_candidate_ranges: the smallest bucket that holds the tokens.     *)
Candidates(descs, num_tokens) ==
  {desc \in descs : /\ num_tokens <= desc.num_tokens
                    /\ \A other \in descs : num_tokens <= other.num_tokens
                                           => desc.num_tokens <= other.num_tokens}

IsCompatible(desc, num_reqs, num_tokens, uniform_token_count) ==
  /\ desc.uniform_token_count \in {0, uniform_token_count}
  /\ desc.num_reqs = 0 \/ desc.num_reqs >= num_reqs
  /\ desc.num_tokens >= num_tokens

get_uniform_token_count(num_reqs, num_tokens, max_query_len) ==
  IF num_tokens = max_query_len * num_reqs THEN max_query_len ELSE 0

(* dispatch finds a FULL graph.  The adaptive bucket comes first, and in   *)
(* the other one FULL descriptors come before PIECEWISE ones.              *)
FullGraph(num_reqs, num_tokens, uniform_token_count) ==
  \E desc \in Candidates(graphs.adaptive, num_tokens)
              \cup Candidates(graphs.base, num_tokens) :
    /\ desc.cg_mode = "FULL"
    /\ IsCompatible(desc, num_reqs, num_tokens, uniform_token_count)

(* The batches the captured graphs are meant for: up to 32 requests, or in *)
(* mode FULL up to the largest capture size (history, for the properties). *)
CaptureHolds(num_reqs, num_tokens) ==
  \/ separate_decode_routine /\ num_reqs <= 32
  \/ ~ separate_decode_routine /\ num_tokens <= max_cudagraph_capture_size

Init ==
  /\ setting \in Settings
  /\ depth_ladder = parse_adaptive_spec_depth_ladder(setting.depths)
  /\ graphs = [adaptive |-> AdaptiveDescs, base |-> FixedDescs \cup MixedDescs]
  /\ GraphCoverage
  /\ num_spec_tokens = Min(depth_ladder)
  /\ window = NoWindow /\ drafts = <<>> /\ flight = <<>>
  /\ verdict = [depth |-> Min(depth_ladder), own |-> TRUE, placeholder |-> FALSE]
  /\ quality \in Qualities /\ shifts = 0 /\ arrivals = 0

-----------------------------------------------------------------------------
(* Admitted request with one token left: padded to a verification of the   *)
(* maximum depth when decodes are scheduled (a prompt takes one step, so   *)
(* no running request is in its prefill).                                  *)
PadSpecDecode == Running # {}

(* schedule(): all running requests verify what they carry; the waiting    *)
(* ones in prefills bring a prompt, those in ones a single token.  Every   *)
(* request of the step drafts num_spec_tokens tokens for its next one.     *)
Schedule(prefills, ones) ==
  LET pad == IF PadSpecDecode THEN max_num_spec_tokens ELSE 0
      admitted == prefills \cup ones
      batch == Running \cup admitted
      spec == [r \in batch |-> IF r \in Running THEN drafts[r]
                               ELSE IF r \in ones THEN pad ELSE 0]
      query_len == [r \in batch |-> IF r \in prefills THEN prompt_tokens ELSE spec[r] + 1]
      num_reqs == Cardinality(batch)
      num_tokens == SumFunctionOnSet(query_len, batch)
      max_query_len == Max(Range(query_len))
  IN /\ Len(flight) < MaxInFlight /\ batch # {} /\ num_reqs <= max_num_reqs
     /\ arrivals + Cardinality(admitted) <= MaxArrivals
     /\ arrivals' = arrivals + Cardinality(admitted)
     /\ flight' = Append(flight,
          [spec |-> spec, admitted |-> admitted,
           padded |-> IF pad > 0 THEN ones ELSE {},
           held |-> CaptureHolds(num_reqs, num_tokens),
           full |-> FullGraph(num_reqs, num_tokens,
                      get_uniform_token_count(num_reqs, num_tokens, max_query_len))])
     /\ drafts' = [r \in batch |-> num_spec_tokens]
     /\ UNCHANGED <<setting, depth_ladder, graphs, num_spec_tokens, window,
                    verdict, quality, shifts>>

(* A request finishes or is preempted: its outputs in flight no longer     *)
(* count.                                                                  *)
Leave(r) ==
  /\ r \in Running
  /\ drafts' = Restrict(drafts, Running \ {r})
  /\ flight' = [i \in DOMAIN flight |->
       [flight[i] EXCEPT !.spec = Restrict(@, DOMAIN @ \ {r})]]
  /\ UNCHANGED <<setting, depth_ladder, graphs, num_spec_tokens, window,
                 verdict, quality, shifts, arrivals>>

-----------------------------------------------------------------------------
(* Rejection sampling: the placeholders of a padded request never match.   *)
Accepted(step, r) == IF r \in step.padded THEN 0 ELSE Min({quality, step.spec[r]})

(* The samples of one step added to the window.                            *)
Observed(step) ==
  LET sampled == {r \in DOMAIN step.spec : step.spec[r] > 0}
      matched == [r \in sampled |-> Accepted(step, r)]
      reached(p) == Cardinality({r \in sampled : matched[r] >= p})
  IN [steps |-> window.steps + 1,
      drafts |-> window.drafts + Cardinality(sampled),
      draft_tokens |-> window.draft_tokens + SumFunctionOnSet(step.spec, sampled),
      accepted |-> window.accepted + SumFunctionOnSet(matched, sampled),
      tail_23 |-> window.tail_23 + reached(3) + reached(4),
      position_4 |-> window.position_4 + reached(5),
      own |-> window.own \/ \E r \in sampled \ step.padded :
                              step.spec[r] = num_spec_tokens,
      placeholder |-> window.placeholder \/ sampled \cap step.padded # {}]

(* (variant: an exploratory depth is judged at its first sample)            *)
effective_observation_window_One ==
  IF num_spec_tokens = Min(depth_ladder) THEN observation_window ELSE 1

effective_observation_window ==
  IF num_spec_tokens = Min(depth_ladder) THEN observation_window
  ELSE Max({1, observation_window \div 2})

(* count / w.drafts >= percent / 100                                       *)
GainAtLeast(count, w, percent) == 100 * count >= percent * w.drafts

(* (variant: an exploratory depth is never given up)                        *)
LadderTarget_NoReject(w) ==
  CASE num_spec_tokens = 2 -> IF 100 * w.accepted >= 85 * w.draft_tokens THEN 4 ELSE 2
    [] num_spec_tokens = 4 -> IF GainAtLeast(w.tail_23, w, 70) THEN 5 ELSE 4
    [] OTHER -> 5

(* Policy of the ladders (2, 4) and (2, 4, 5).                             *)
LadderTarget(w) ==
  CASE num_spec_tokens = 2 -> IF 100 * w.accepted >= 85 * w.draft_tokens THEN 4 ELSE 2
    [] num_spec_tokens = 4 ->
         IF depth_ladder = {2, 4, 5} /\ GainAtLeast(w.tail_23, w, 70) THEN 5
         ELSE IF GainAtLeast(w.tail_23, w, 35) THEN 4 ELSE 2
    [] OTHER ->
         IF GainAtLeast(w.position_4, w, 15) THEN 5
         ELSE IF GainAtLeast(w.tail_23, w, 35) THEN 4 ELSE 2

(* (variant: the formula is snapped up to a rung)                           *)
FormulaTarget_Up(w) ==
  LET formula == Min({max_num_spec_tokens,
                      (2 * w.accepted + 3 * w.drafts) \div (2 * w.drafts)})
  IN Min({depth \in depth_ladder : depth >= formula})

(* (variant: the formula is not snapped to a rung)                          *)
FormulaTarget_NoSnap(w) ==
  Min({max_num_spec_tokens, (2 * w.accepted + 3 * w.drafts) \div (2 * w.drafts)})

(* (variant: the formula lacks its half token of head room)                 *)
FormulaTarget_Mean(w) ==
  LET formula == Max({1, w.accepted \div w.drafts})
  IN Max({depth \in depth_ladder : depth <= formula} \cup {Min(depth_ladder)})

(* Any other ladder: floor(mean accepted + 1.5), snapped down to a rung.   *)
FormulaTarget(w) ==
  LET formula == Min({max_num_spec_tokens,
                      (2 * w.accepted + 3 * w.drafts) \div (2 * w.drafts)})
  IN Max({depth \in depth_ladder : depth <= formula} \cup {Min(depth_ladder)})

Target(w) == IF depth_ladder \in {{2, 4}, {2, 4, 5}} THEN LadderTarget(w)
             ELSE FormulaTarget(w)

(* update_from_output of the oldest step, with observe_batch: a step       *)
(* without drafts is not an observation; a full window moves the depth.    *)
UpdateFromOutput ==
  LET step == Head(flight)
      w == Observed(step)
  IN /\ flight # <<>>
     /\ flight' = Tail(flight)
     /\ IF w.drafts = window.drafts
        THEN UNCHANGED <<num_spec_tokens, window, verdict>>
        ELSE IF w.steps < effective_observation_window
        THEN window' = w /\ UNCHANGED <<num_spec_tokens, verdict>>
        ELSE /\ num_spec_tokens' = Target(w)
             /\ window' = NoWindow
             /\ verdict' = [depth |-> num_spec_tokens, own |-> w.own,
                           placeholder |-> w.placeholder]
     /\ UNCHANGED <<setting, depth_ladder, graphs, drafts, quality, shifts, arrivals>>

(* The workload changes character.                                         *)
Shift ==
  /\ shifts < MaxShifts
  /\ quality' \in Qualities \ {quality} /\ shifts' = shifts + 1
  /\ UNCHANGED <<setting, depth_ladder, graphs, num_spec_tokens, window, drafts, flight,
                 verdict, arrivals>>

ScheduleSome ==
  \E prefills \in SUBSET (Requests \ Running) :
    \E ones \in SUBSET ((Requests \ Running) \ prefills) :
      Schedule(prefills, ones)

Next ==
  \/ ScheduleSome
  \/ \E r \in Requests : Leave(r)
  \/ UpdateFromOutput
  \/ Shift

Spec == Init /\ [][Next]_vars

(* The engine loop keeps scheduling and handling outputs.                  *)
FairSpec == Spec /\ WF_vars(ScheduleSome) /\ WF_vars(UpdateFromOutput)

-----------------------------------------------------------------------------
(* Types and ranges; the depth is a rung, a window never outgrows its      *)
(* length and no more is accepted than was drafted.                        *)
TypeOK ==
  /\ num_spec_tokens \in depth_ladder
  /\ window.steps < effective_observation_window
  /\ window.tail_23 + window.position_4 <= window.accepted
  /\ window.accepted <= window.draft_tokens
  /\ window.draft_tokens <= max_num_spec_tokens * window.drafts
  /\ \A r \in Running : drafts[r] \in depth_ladder
  /\ Len(flight) <= MaxInFlight

(* vllm.py keeps FULL graphs under adaptation because the verification     *)
(* shapes are captured: a step that admits nobody, of a size the capture   *)
(* holds, replays a graph, also right after a change of depth with older   *)
(* steps in flight.                                                        *)
DecodeReplaysGraph ==
  \A i \in DOMAIN flight :
    flight[i].admitted = {} /\ flight[i].held => flight[i].full

(* A probe is not judged on the steps drafted before it began: the window  *)
(* of every verdict on an exploratory depth has samples of that depth,     *)
(* unless placeholders of a padded request took their place.               *)
VerdictSeesItsDepth ==
  verdict.depth # Min(depth_ladder) => verdict.own \/ verdict.placeholder

(* Setting the ladder to 2 pins the depth, although the maximum stays a    *)
(* rung (run_phase2.sh).                                                   *)
PinHolds == depth_ladder = {2, 5} => num_spec_tokens = 2

Steady(q) == quality = q /\ Running # {}

(* When drafts stop being accepted the depth falls back to the first rung. *)
BacksOff == <>[]Steady(0) => <>[](num_spec_tokens = Min(depth_ladder))

(* When all drafts are accepted the depth climbs to the maximum and stays, *)
(* unless the ladder is the pin.                                           *)
ClimbsToMax ==
  depth_ladder # {2, 5} /\ <>[]Steady(max_num_spec_tokens)
    => <>[](num_spec_tokens = max_num_spec_tokens)
=============================================================================
