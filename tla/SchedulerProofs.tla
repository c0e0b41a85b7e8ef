--------------------------- MODULE SchedulerProofs ---------------------------
(***************************************************************************)
(* Proofs about Scheduler, for every number of requests, every pool, every *)
(* budget and every number of batches in flight: QueuesMatch,              *)
(* BlocksConserved, ScheduledStayRunning, StepWithinBudget, StaleIsOldest. *)
(*                                                                         *)
(* Nothing is assumed of the sign of a share: with the padding at the end  *)
(* of a sequence the scheduler can give a request -1 tokens (see           *)
(* ScheduledPositive), and these five properties hold nevertheless.        *)
(***************************************************************************)
EXTENDS Scheduler, LibraryLemmas

Statuses == {"NEW", "WAITING", "RUNNING", "PREEMPTED", "FINISHED"}

ReqRec ==
  [status : Statuses, computed : Int, tokens : Int, spec : Int, placeholders : Int,
   in_flight : Int, stale : Int, drop : BOOLEAN, chunk : BOOLEAN, blocks : Nat]

StepRec ==
  [budget : Nat, prefill_budget : Int, prefill_used : Int, selected : SUBSET Requests,
   index : Nat \ {0}, n : [Requests -> Int], spec : [Requests -> Int],
   resumed : SUBSET Requests, skipped : Seq(Requests), preempted : BOOLEAN,
   decodes : BOOLEAN, prefill_scheduled : BOOLEAN]

BatchRec ==
  [n : [Requests -> Int], spec : [Requests -> Int], samples : SUBSET Requests,
   resumed : [Requests -> Int]]

Types ==
  /\ req \in [Requests -> ReqRec]
  /\ running \in Seq(Requests) /\ waiting \in Seq(Requests)
  /\ skipped_waiting \in Seq(Requests)
  /\ free \in Nat
  /\ pc \in {"idle", "running", "waiting", "finish"}
  /\ step \in StepRec
  /\ batches \in Seq(BatchRec)

(* The queues have no repetitions, and each holds what its status says.    *)
(* Requests the WAITING loop has skipped are in none of the three queues   *)
(* until the loop ends.                                                    *)
Parked == {r \in Requests : req[r].status \in {"WAITING", "PREEMPTED"}}
QueuesInv ==
  /\ IsInjective(running) /\ IsInjective(waiting) /\ IsInjective(skipped_waiting)
  /\ IsInjective(step.skipped)
  /\ ToSet(waiting) \cap ToSet(skipped_waiting) = {}
  /\ ToSet(waiting) \cap ToSet(step.skipped) = {}
  /\ ToSet(skipped_waiting) \cap ToSet(step.skipped) = {}
  /\ ToSet(running) = {r \in Requests : req[r].status = "RUNNING"}
  /\ ToSet(waiting) \cup ToSet(skipped_waiting) \cup ToSet(step.skipped) = Parked
  /\ pc # "waiting" => step.skipped = <<>>

(* What the step has given out so far went to requests the RUNNING loop    *)
(* has passed, and left the rest of the budget.                            *)
StepInv ==
  /\ ScheduledStayRunning
  /\ pc = "running" => \A r \in Requests : step.n[r] # 0 =>
       \E i \in DOMAIN running : i < step.index /\ running[i] = r
  /\ pc = "idle" => \A r \in Requests : step.n[r] = 0
  /\ step.budget + SumFunctionOnSet(step.n, Requests) <= max_num_scheduled_tokens
  /\ enable_decode_aware_prefill => step.prefill_used <= step.prefill_budget
  /\ Len(running) <= max_num_running_reqs

(* A request that was not added yet is in no batch.                        *)
NewInv ==
  \A r \in Requests : req[r].status = "NEW" =>
    \A j \in DOMAIN batches : batches[j].n[r] = 0

IInv == Types /\ QueuesInv /\ BlocksConserved /\ StepInv /\ NewInv /\ StaleIsOldest
-----------------------------------------------------------------------------
(* remove_all                                                              *)

(* One turn of the recursion of Without.                                   *)
KeepTurn(q, S, g, i) ==
  IF i = 0 THEN <<>> ELSE IF q[i] \in S THEN g[i - 1] ELSE Append(g[i - 1], q[i])
IsKept(q, S, g) == g = [i \in 0 .. Len(q) |-> KeepTurn(q, S, g, i)]

(* Without applies a function chosen to satisfy its recursion.             *)
LEMMA WithoutUnfold ==
  ASSUME NEW q, NEW S
  PROVE  Without(q, S) = (CHOOSE g : IsKept(q, S, g))[Len(q)]
BY DEF Without, IsKept, KeepTurn

(* The recursion has a solution.                                           *)
LEMMA KeptExists ==
  ASSUME NEW T, NEW q \in Seq(T), NEW S
  PROVE  IsKept(q, S, CHOOSE g : IsKept(q, S, g))
<1> DEFINE P == {k \in Nat : \E g : g = [i \in 0 .. k |-> KeepTurn(q, S, g, i)]}
<1>1. 0 \in P
  <2> DEFINE g == [i \in 0 .. 0 |-> <<>>]
  <2>1. g = [i \in 0 .. 0 |-> KeepTurn(q, S, g, i)]
    BY DEF KeepTurn
  <2> QED BY <2>1
<1>2. ASSUME NEW k \in Nat, k \in P PROVE k + 1 \in P
  <2>1. PICK g : g = [i \in 0 .. k |-> KeepTurn(q, S, g, i)]
    BY <1>2
  <2> DEFINE h == [i \in 0 .. k + 1 |-> KeepTurn(q, S, g, i)]
  <2>2. ASSUME NEW i \in 0 .. k + 1 PROVE KeepTurn(q, S, g, i) = KeepTurn(q, S, h, i)
    <3>1. CASE i = 0
      BY <3>1 DEF KeepTurn
    <3>2. CASE i # 0
      <4>1. i - 1 \in 0 .. k /\ i - 1 \in 0 .. k + 1
        BY <3>2
      <4>2. g[i - 1] = KeepTurn(q, S, g, i - 1)
        BY <2>1, <4>1
      <4>3. h[i - 1] = KeepTurn(q, S, g, i - 1)
        BY <4>1
      <4> HIDE DEF h
      <4> QED BY <3>2, <4>2, <4>3 DEF KeepTurn
    <3> QED BY <3>1, <3>2
  <2>3. h = [i \in 0 .. k + 1 |-> KeepTurn(q, S, h, i)]
    BY <2>2
  <2> HIDE DEF h
  <2>4. \E f : f = [i \in 0 .. k + 1 |-> KeepTurn(q, S, f, i)]
    BY <2>3
  <2>5. k + 1 \in Nat
    OBVIOUS
  <2> QED BY <2>4, <2>5
<1> HIDE DEF P
<1>3. Len(q) \in P
  <2>1. Len(q) \in Nat
    OBVIOUS
  <2>2. Nat \subseteq P
    BY <1>1, <1>2, NatSetInduction
  <2> QED BY <2>1, <2>2
<1>4. \E g : IsKept(q, S, g)
  BY <1>3 DEF P, IsKept
<1> QED BY <1>4

(* remove_all keeps the other requests, each once if it was there once,    *)
(* and a prefix of which nothing is removed as it is.                      *)
LEMMA WithoutFacts ==
  ASSUME NEW T, NEW q \in Seq(T), NEW S
  PROVE  /\ Without(q, S) \in Seq(T) /\ ToSet(Without(q, S)) = ToSet(q) \ S
         /\ Len(Without(q, S)) <= Len(q)
         /\ IsInjective(q) => IsInjective(Without(q, S))
         /\ \A m \in 0 .. Len(q) : (\A j \in 1 .. m : q[j] \notin S) =>
              /\ m <= Len(Without(q, S))
              /\ \A j \in 1 .. m : Without(q, S)[j] = q[j]
<1> DEFINE g == CHOOSE g : IsKept(q, S, g)
           Good(i) ==
             /\ g[i] \in Seq(T) /\ Len(g[i]) <= i
             /\ ToSet(g[i]) = {q[j] : j \in 1 .. i} \ S
             /\ IsInjective(q) => IsInjective(g[i])
             /\ \A m \in 0 .. i : (\A j \in 1 .. m : q[j] \notin S) =>
                  m <= Len(g[i]) /\ \A j \in 1 .. m : g[i][j] = q[j]
           P == {i \in Nat : i <= Len(q) => Good(i)}
<1>1. g = [i \in 0 .. Len(q) |-> KeepTurn(q, S, g, i)]
  BY KeptExists DEF IsKept
<1>2. Without(q, S) = g[Len(q)]
  BY WithoutUnfold
<1> HIDE DEF g
<1>3. Len(q) \in Nat /\ DOMAIN q = 1 .. Len(q) /\ \A j \in 1 .. Len(q) : q[j] \in T
  OBVIOUS
<1>4. 0 \in P
  <2>1. g[0] = <<>>
    BY <1>1, <1>3 DEF KeepTurn
  <2>2. <<>> \in Seq(T) /\ Len(<<>>) = 0 /\ ToSet(<<>>) = {} /\ IsInjective(<<>>)
        /\ 1 .. 0 = {}
    BY DEF ToSet, IsInjective
  <2>3. {q[j] : j \in 1 .. 0} = {}
    BY <2>2
  <2>4. Good(0)
    BY <2>1, <2>2, <2>3
  <2> QED BY <2>4
<1>5. ASSUME NEW i \in Nat, i \in P PROVE i + 1 \in P
  <2> SUFFICES ASSUME i + 1 <= Len(q) PROVE Good(i + 1)
    OBVIOUS
  <2>1. Good(i)
    BY <1>3, <1>5
  <2>2. g[i + 1] = IF q[i + 1] \in S THEN g[i] ELSE Append(g[i], q[i + 1])
    <3>1. i + 1 \in 0 .. Len(q) /\ i + 1 # 0 /\ (i + 1) - 1 = i
      BY <1>3
    <3>2. g[i + 1] = KeepTurn(q, S, g, i + 1)
      BY <1>1, <3>1
    <3> QED BY <3>1, <3>2 DEF KeepTurn
  <2>3. {q[j] : j \in 1 .. i + 1} = {q[j] : j \in 1 .. i} \cup {q[i + 1]}
    <3>1. 1 .. i + 1 = (1 .. i) \cup {i + 1}
      OBVIOUS
    <3> QED BY <3>1
  <2>4. q[i + 1] \in T
    BY <1>3
  <2>5. CASE q[i + 1] \in S
    <3>1. g[i + 1] = g[i] /\ Len(g[i]) \in Nat
      BY <2>1, <2>2, <2>5
    <3>2. \A m \in 0 .. i + 1 : (\A j \in 1 .. m : q[j] \notin S) => m \in 0 .. i
      BY <2>5
    <3>3. ToSet(g[i]) = {q[j] : j \in 1 .. i + 1} \ S
      BY <2>1, <2>3, <2>5
    <3>4. Len(g[i]) <= i + 1
      BY <2>1, <3>1
    <3> QED BY <2>1, <3>1, <3>2, <3>3, <3>4
  <2>6. CASE q[i + 1] \notin S
    <3> DEFINE new == Append(g[i], q[i + 1])
    <3>1. g[i + 1] = new /\ Len(g[i]) \in Nat
      BY <2>1, <2>2, <2>6
    <3>2. /\ new \in Seq(T) /\ ToSet(new) = ToSet(g[i]) \cup {q[i + 1]}
          /\ Len(new) = Len(g[i]) + 1
          /\ IsInjective(g[i]) /\ q[i + 1] \notin ToSet(g[i]) => IsInjective(new)
      BY <2>1, <2>4, AppendFacts
    <3>3. ToSet(new) = {q[j] : j \in 1 .. i + 1} \ S
      BY <2>1, <2>3, <2>6, <3>2
    <3>4. IsInjective(q) => q[i + 1] \notin ToSet(g[i])
      <4> SUFFICES ASSUME IsInjective(q), NEW j \in 1 .. i, q[j] = q[i + 1] PROVE FALSE
        BY <2>1
      <4>1. j \in DOMAIN q /\ i + 1 \in DOMAIN q /\ j # i + 1
        BY <1>3
      <4> QED BY <4>1 DEF IsInjective
    <3>5. ASSUME NEW m \in 0 .. i + 1, \A j \in 1 .. m : q[j] \notin S
          PROVE  m <= Len(new) /\ \A j \in 1 .. m : new[j] = q[j]
      <4>0. \A k \in 0 .. i : (\A j \in 1 .. k : q[j] \notin S) =>
              k <= Len(g[i]) /\ \A j \in 1 .. k : g[i][j] = q[j]
        BY <2>1
      <4>1. CASE m <= i
        <5>1. m \in 0 .. i
          BY <4>1
        <5>2. m <= Len(g[i]) /\ \A j \in 1 .. m : g[i][j] = q[j]
          BY ONLY <3>5, <4>0, <5>1, Zenon
        <5> QED BY <2>1, <3>1, <3>2, <5>2
      <4>2. CASE m = i + 1
        <5>1. \A j \in 1 .. i : q[j] \notin S
          BY <3>5, <4>2
        <5>2. i <= Len(g[i]) /\ \A j \in 1 .. i : g[i][j] = q[j]
          <6>1. i \in 0 .. i
            OBVIOUS
          <6> QED BY ONLY <4>0, <5>1, <6>1, Zenon
        <5>3. Len(g[i]) = i
          BY <2>1, <3>1, <5>2
        <5>4. \A j \in 1 .. i : new[j] = g[i][j]
          BY <2>1, <5>3
        <5>5. new[i + 1] = q[i + 1]
          BY <2>1, <5>3
        <5>6. \A j \in 1 .. i + 1 : j \in 1 .. i \/ j = i + 1
          OBVIOUS
        <5> QED BY <3>2, <4>2, <5>2, <5>3, <5>4, <5>5, <5>6
      <4> QED BY <4>1, <4>2
    <3>6. Len(new) <= i + 1
      BY <2>1, <3>1, <3>2
    <3> HIDE DEF new
    <3> QED BY <2>1, <3>1, <3>2, <3>3, <3>4, <3>5, <3>6
  <2> QED BY <2>5, <2>6
<1> HIDE DEF P
<1>6. Nat \subseteq P
  BY <1>4, <1>5, NatSetInduction
<1>7. Good(Len(q))
  <2> HIDE DEF Good
  <2>1. Len(q) \in P
    BY <1>3, <1>6
  <2> QED BY <1>3, <2>1 DEF P
<1>8. {q[j] : j \in 1 .. Len(q)} = ToSet(q)
  BY <1>3 DEF ToSet
<1> QED BY <1>2, <1>7, <1>8

-----------------------------------------------------------------------------
(* The operators of a step                                                 *)

(* The constants as the provers need them.                                 *)
LEMMA Constants ==
  /\ max_num_scheduled_tokens \in Nat \ {0} /\ max_num_running_reqs \in Nat \ {0}
  /\ num_gpu_blocks \in Nat /\ block_size \in Nat \ {0} /\ watermark_blocks \in Nat
  /\ max_model_len \in Nat /\ num_spec_tokens \in Nat /\ max_tokens \in Nat
  /\ long_prefill_token_threshold \in Nat
  /\ decode_prefill_token_budget \in Nat /\ idle_prefill_token_budget \in Nat
  /\ enable_decode_aware_prefill \in BOOLEAN
  /\ \A r \in Requests : num_prompt_tokens[r] \in Nat
  /\ IsFiniteSet(Requests)
<1>1. IsFiniteSet(Requests)
  BY CountsAssumption, FS_Interval DEF Requests
<1> QED BY <1>1, CountsAssumption, PromptAssumption, PrefillAssumption, FlagsAssumption

(* A request record: its fields.                                           *)
LEMMA ReqFacts ==
  ASSUME Types, NEW r \in Requests
  PROVE  /\ req[r] \in ReqRec /\ req[r].status \in Statuses
         /\ req[r].computed \in Int /\ req[r].tokens \in Int /\ req[r].spec \in Int
         /\ req[r].placeholders \in Int /\ req[r].in_flight \in Int /\ req[r].stale \in Int
         /\ req[r].drop \in BOOLEAN /\ req[r].chunk \in BOOLEAN /\ req[r].blocks \in Nat
<1>1. req[r] \in ReqRec
  BY DEF Types
<1> QED BY <1>1 DEF ReqRec

(* The step record: its fields.                                            *)
LEMMA StepFacts ==
  ASSUME Types
  PROVE  /\ step.budget \in Nat /\ step.prefill_budget \in Int /\ step.prefill_used \in Int
         /\ step.selected \in SUBSET Requests /\ step.index \in Nat \ {0}
         /\ step.n \in [Requests -> Int] /\ step.spec \in [Requests -> Int]
         /\ step.resumed \in SUBSET Requests /\ step.skipped \in Seq(Requests)
         /\ step.preempted \in BOOLEAN /\ step.decodes \in BOOLEAN
         /\ step.prefill_scheduled \in BOOLEAN
BY DEF Types, StepRec

(* The smaller and the larger of two integers.                             *)
LEMMA LesserFacts ==
  ASSUME NEW a \in Int, NEW b \in Int
  PROVE  /\ Lesser(a, b) \in Int /\ Lesser(a, b) <= a /\ Lesser(a, b) <= b
         /\ Lesser(a, b) \in {a, b}
         /\ Greater(a, b) \in Int /\ Greater(a, b) >= a /\ Greater(a, b) >= b
         /\ Greater(a, b) \in {a, b}
BY DEF Lesser, Greater

(* The blocks a request lacks are a natural number.                        *)
LEMMA MissingNat ==
  ASSUME Types, NEW r \in Requests, NEW computed \in Int, NEW n \in Int
  PROVE  Missing(r, computed, n) \in Nat
<1> USE Constants
<1> DEFINE slots == Lesser(Lesser(computed, max_model_len) + n + num_lookahead_tokens,
                           max_model_len)
<1>1. slots \in Int
  BY DEF num_lookahead_tokens, Lesser
<1> HIDE DEF slots
<1>2. BlocksFor(slots) \in Int
  BY <1>1 DEF BlocksFor
<1>3. req[r].blocks \in Nat
  BY ReqFacts
<1>4. Greater(0, BlocksFor(slots) - req[r].blocks) \in Nat
  BY <1>2, <1>3 DEF Greater
<1> QED BY <1>4 DEF Missing, slots

(* A running request is given no more than the rest of the budget, and in  *)
(* its prefill no more than the rest of the prefill budget.                *)
LEMMA RunningTokensFacts ==
  ASSUME Types, NEW r \in Requests
  PROVE  /\ RunningTokens(r) \in Int /\ RunningTokens(r) <= step.budget
         /\ AwarePrefill(r) => RunningTokens(r) <= step.prefill_budget - step.prefill_used
<1> USE Constants
<1> DEFINE all == req[r].tokens + req[r].spec + req[r].placeholders - req[r].computed
           capped == IF AwarePrefill(r) THEN Lesser(all, RemainingPrefill) ELSE Truncated(all)
<1>1. all \in Int /\ req[r].computed \in Int
  BY ReqFacts
<1>2. RemainingPrefill \in Int /\ step.budget \in Int
  BY StepFacts DEF RemainingPrefill
<1> HIDE DEF all
<1>3. capped \in Int /\ (AwarePrefill(r) => capped <= RemainingPrefill)
  BY <1>1, <1>2 DEF Truncated, Lesser
<1> HIDE DEF capped
<1>4. max_model_len - req[r].computed - 1 \in Int
  BY <1>1
<1>5. RunningTokens(r) = Lesser(Lesser(capped, step.budget), max_model_len - req[r].computed - 1)
  BY DEF RunningTokens, capped, all
<1>6. /\ Lesser(capped, step.budget) \in Int /\ Lesser(capped, step.budget) <= capped
      /\ Lesser(capped, step.budget) <= step.budget
  BY <1>2, <1>3, LesserFacts
<1>7. RunningTokens(r) \in Int /\ RunningTokens(r) <= Lesser(capped, step.budget)
  BY <1>4, <1>5, <1>6, LesserFacts
<1> QED BY <1>2, <1>3, <1>6, <1>7 DEF RemainingPrefill

(* The same for a waiting request.                                         *)
LEMMA WaitingTokensFacts ==
  ASSUME Types, NEW r \in Requests, NEW hit \in Int
  PROVE  /\ WaitingTokens(r, hit) \in Int /\ WaitingTokens(r, hit) <= step.budget
         /\ enable_decode_aware_prefill
              => WaitingTokens(r, hit) <= step.prefill_budget - step.prefill_used
<1> USE Constants
<1> DEFINE all == IF Padded(r, hit) THEN 1 + num_spec_tokens ELSE req[r].tokens - hit
           capped == IF enable_decode_aware_prefill THEN Lesser(all, RemainingPrefill)
                     ELSE Truncated(all)
<1>1. all \in Int
  BY ReqFacts
<1>2. RemainingPrefill \in Int /\ step.budget \in Int
  BY StepFacts DEF RemainingPrefill
<1> HIDE DEF all
<1>3. capped \in Int /\ (enable_decode_aware_prefill => capped <= RemainingPrefill)
  BY <1>1, <1>2, LesserFacts DEF Truncated
<1> HIDE DEF capped
<1>4. WaitingTokens(r, hit) = Lesser(capped, step.budget)
  BY DEF WaitingTokens, capped, all
<1>5. /\ Lesser(capped, step.budget) \in Int /\ Lesser(capped, step.budget) <= capped
      /\ Lesser(capped, step.budget) <= step.budget
  BY <1>2, <1>3, LesserFacts
<1> QED BY <1>2, <1>3, <1>4, <1>5 DEF RemainingPrefill

-----------------------------------------------------------------------------
(* What a step leaves alone                                                *)

(* Queues that do not change go on matching statuses that do not change.   *)
LEMMA QueuesFrame ==
  ASSUME QueuesInv, UNCHANGED queues, step'.skipped = step.skipped,
         \A r \in Requests : req'[r].status = req[r].status,
         pc' # "waiting" => step.skipped = <<>>
  PROVE  QueuesInv'
<1>1. Parked' = Parked
  BY DEF Parked
<1>2. {r \in Requests : req'[r].status = "RUNNING"} = {r \in Requests : req[r].status = "RUNNING"}
  OBVIOUS
<1> QED BY <1>1, <1>2 DEF QueuesInv, queues

(* Nobody takes or gives a block.                                          *)
LEMMA BlocksFrame ==
  ASSUME BlocksConserved, free' = free,
         \A r \in Requests : req'[r].blocks = req[r].blocks,
         \A r \in Requests : req'[r].status # "RUNNING" => req[r].status # "RUNNING"
  PROVE  BlocksConserved'
<1>1. BlocksOf(Requests)' = BlocksOf(Requests)
  <2>1. [r \in Requests |-> req'[r].blocks] = [r \in Requests |-> req[r].blocks]
    OBVIOUS
  <2> QED BY <2>1 DEF BlocksOf
<1> QED BY <1>1 DEF BlocksConserved

(* No batch comes or goes, and no request counts another share.            *)
LEMMA StaleFrame ==
  ASSUME StaleIsOldest, NewInv, batches' = batches,
         \A r \in Requests : req'[r].status \in {"WAITING", "RUNNING", "PREEMPTED"}
           => /\ req[r].status \in {"WAITING", "RUNNING", "PREEMPTED"}
              /\ req'[r].in_flight = req[r].in_flight
              /\ req'[r].stale \in {req[r].stale, req[r].in_flight},
         \A r \in Requests : req'[r].status = "NEW" => req[r].status = "NEW"
  PROVE  StaleIsOldest' /\ NewInv'
<1>1. ASSUME NEW r, NEW i PROVE Shares(r, i)' = Shares(r, i)
  BY DEF Shares
<1>2. NewInv'
  BY DEF NewInv
<1>3. ASSUME NEW r \in Requests, Live(r)'
      PROVE  /\ req'[r].in_flight = Shares(r, Len(batches))'
             /\ \E i \in 0 .. Len(batches)' : req'[r].stale = Shares(r, i)'
  <2>1. Live(r) /\ req'[r].in_flight = req[r].in_flight
        /\ req'[r].stale \in {req[r].stale, req[r].in_flight}
    BY <1>3 DEF Live
  <2>2. req[r].in_flight = Shares(r, Len(batches))
        /\ \E i \in 0 .. Len(batches) : req[r].stale = Shares(r, i)
    BY <2>1 DEF StaleIsOldest
  <2>3. Shares(r, Len(batches))' = Shares(r, Len(batches))
    BY DEF Shares
  <2> QED BY <1>1, <2>1, <2>2, <2>3
<1> QED BY <1>2, <1>3 DEF StaleIsOldest

(* A running request takes blocks from the pool.                           *)
LEMMA BlocksTake ==
  ASSUME Types, BlocksConserved, NEW r \in Requests, NEW missing \in Nat, missing <= free,
         free' = free - missing, req'[r].blocks = req[r].blocks + missing,
         req'[r].status = "RUNNING",
         \A q \in Requests : q # r => req'[q] = req[q]
  PROVE  BlocksConserved' /\ free' \in Nat
<1> DEFINE f == [q \in Requests |-> req[q].blocks]
           g == [q \in Requests |-> req'[q].blocks]
<1>1. \A q \in Requests : req[q].blocks \in Nat
  BY ReqFacts
<1>2. \A q \in Requests : f[q] \in Int /\ g[q] \in Int /\ (q # r => g[q] = f[q])
  <2>1. \A q \in Requests : req'[q].blocks \in Nat
    BY <1>1
  <2> QED BY <1>1, <2>1
<1>3. f[r] = req[r].blocks /\ g[r] = req[r].blocks + missing
  OBVIOUS
<1>4. BlocksOf(Requests) = SumFunctionOnSet(f, Requests)
      /\ BlocksOf(Requests)' = SumFunctionOnSet(g, Requests)
  BY DEF BlocksOf
<1> HIDE DEF f, g
<1>5. SumFunctionOnSet(g, Requests) = (SumFunctionOnSet(f, Requests) - f[r]) + g[r]
  BY <1>2, SumChange, Constants
<1>6. SumFunctionOnSet(f, Requests) \in Int
  BY <1>2, SumType, Constants
<1>7. free \in Nat /\ req[r].blocks \in Nat
  BY <1>1 DEF Types
<1>8. free' + BlocksOf(Requests)' = num_gpu_blocks
  BY <1>3, <1>4, <1>5, <1>6, <1>7 DEF BlocksConserved
<1>9. \A q \in Requests : req'[q].status # "RUNNING" => req'[q].blocks = 0
  BY DEF BlocksConserved
<1> QED BY <1>7, <1>8, <1>9 DEF BlocksConserved

(* The requests in S give back all they hold.                              *)
LEMMA BlocksGive ==
  ASSUME Types, BlocksConserved, NEW S \in SUBSET Requests,
         free' = free + BlocksOf(S),
         \A q \in Requests : req'[q].blocks = IF q \in S THEN 0 ELSE req[q].blocks,
         \A q \in Requests : req'[q].status # "RUNNING" => q \in S \/ req[q].status # "RUNNING"
  PROVE  BlocksConserved' /\ free' \in Nat
<1> DEFINE f == [q \in Requests |-> req[q].blocks]
           g == [q \in Requests |-> req'[q].blocks]
<1>1. \A q \in Requests : req[q].blocks \in Nat
  BY ReqFacts
<1>2. \A q \in Requests : f[q] \in Int /\ f[q] \in Nat /\ g[q] = IF q \in S THEN 0 ELSE f[q]
  BY <1>1
<1>3. BlocksOf(Requests) = SumFunctionOnSet(f, Requests) /\ BlocksOf(S) = SumFunctionOnSet(f, S)
      /\ BlocksOf(Requests)' = SumFunctionOnSet(g, Requests)
  BY DEF BlocksOf
<1> HIDE DEF f, g
<1>4. SumFunctionOnSet(g, Requests) + SumFunctionOnSet(f, S) = SumFunctionOnSet(f, Requests)
  BY <1>2, SumClear, Constants
<1>5. IsFiniteSet(S)
  BY FS_Subset, Constants
<1>6. SumFunctionOnSet(f, S) \in Nat
  BY <1>2, <1>5, SumNat
<1>7. SumFunctionOnSet(g, Requests) \in Int
  <2>1. \A q \in Requests : g[q] \in Int
    BY <1>2
  <2> QED BY <2>1, SumType, Constants
<1>8. free \in Nat
  BY DEF Types
<1>9. free' + BlocksOf(Requests)' = num_gpu_blocks
  BY <1>3, <1>4, <1>6, <1>7, <1>8 DEF BlocksConserved
<1>10. \A q \in Requests : req'[q].status # "RUNNING" => req'[q].blocks = 0
  BY DEF BlocksConserved
<1> QED BY <1>3, <1>6, <1>8, <1>9, <1>10 DEF BlocksConserved

(* What one request holds.                                                 *)
LEMMA BlocksOfOne ==
  ASSUME Types, NEW r \in Requests
  PROVE  BlocksOf({r}) = req[r].blocks
<1> DEFINE f == [q \in Requests |-> req[q].blocks]
<1>1. f[r] = req[r].blocks /\ req[r].blocks \in Nat
  BY ReqFacts
<1>2. BlocksOf({r}) = SumFunctionOnSet(f, {r})
  BY DEF BlocksOf
<1> HIDE DEF f
<1>3. IsFiniteSet({}) /\ {} \cup {r} = {r}
  BY FS_EmptySet
<1>4. SumFunctionOnSet(f, {} \cup {r}) = f[r] + SumFunctionOnSet(f, {})
  <2>1. \A x \in {} \cup {r} : f[x] \in Int
    BY <1>1
  <2> QED BY <1>3, <2>1, SumAdd
<1> QED BY <1>1, <1>2, <1>3, <1>4, SumEmpty

(* A request that has no tokens of this step yet is given n.               *)
LEMMA GiveSum ==
  ASSUME Types, StepInv, NEW r \in Requests, step.n[r] = 0, NEW n \in Int,
         step'.n = [step.n EXCEPT ![r] = n], step'.budget = step.budget - n
  PROVE  step'.budget + SumFunctionOnSet(step'.n, Requests) <= max_num_scheduled_tokens
<1>1. PICK f \in [Requests -> Int] : f = step.n
  BY StepFacts
<1>2. PICK g : g = step'.n
  OBVIOUS
<1>3. g = [f EXCEPT ![r] = n]
  BY <1>1, <1>2
<1>4. \A q \in Requests : f[q] \in Int /\ g[q] \in Int /\ (q # r => g[q] = f[q])
  BY <1>3
<1>5. f[r] = 0 /\ g[r] = n
  BY <1>1, <1>3
<1>6. SumFunctionOnSet(g, Requests) = (SumFunctionOnSet(f, Requests) - f[r]) + g[r]
  BY <1>4, SumChange, Constants
<1>7. SumFunctionOnSet(f, Requests) \in Int
  BY <1>4, SumType, Constants
<1>8. step.budget + SumFunctionOnSet(f, Requests) <= max_num_scheduled_tokens
  BY <1>1 DEF StepInv
<1>9. step.budget \in Nat
  BY StepFacts
<1>10. step'.budget + SumFunctionOnSet(g, Requests) <= max_num_scheduled_tokens
  BY <1>5, <1>6, <1>7, <1>8, <1>9, Constants
<1> QED BY <1>2, <1>10

-----------------------------------------------------------------------------
(* What the actions write into the step record                             *)

(* The records are named, and the provers see their fields through the     *)
(* lemmas alone.                                                           *)
Started(budget, prefill, chosen) ==
  [NoStep EXCEPT !.budget = budget, !.prefill_budget = prefill, !.selected = chosen]
StartedPlain(budget, prefill) ==
  [NoStep EXCEPT !.budget = budget, !.prefill_budget = prefill]
Advanced(s, index) == [s EXCEPT !.index = index]
Given(s, index, budget, n, spec, used, scheduled) ==
  [s EXCEPT !.index = index, !.budget = budget, !.n = n, !.spec = spec,
            !.prefill_used = used, !.decodes = TRUE, !.prefill_scheduled = scheduled]
Preempting(s) == [s EXCEPT !.preempted = TRUE]
Skipping(s, q) == [s EXCEPT !.skipped = q]
Admitted(s, budget, n, resumed, spec, used) ==
  [s EXCEPT !.budget = budget, !.n = n, !.resumed = resumed, !.spec = spec,
            !.prefill_used = used]

(* The start of a step with the decode-aware prefill budget.               *)
LEMMA StartedFacts ==
  ASSUME NoStep \in StepRec, NEW budget \in Nat, NEW prefill \in Int,
         NEW chosen \in SUBSET Requests
  PROVE  LET u == Started(budget, prefill, chosen) IN
         /\ u \in StepRec /\ u.n = NoStep.n /\ u.skipped = NoStep.skipped
         /\ u.budget = budget /\ u.prefill_used = NoStep.prefill_used
         /\ u.prefill_budget = prefill
         /\ u.spec = NoStep.spec /\ u.resumed = NoStep.resumed
<1> DEFINE u == Started(budget, prefill, chosen)
<1>1. PICK s \in StepRec : s = NoStep
  OBVIOUS
<1>2. u = [s EXCEPT !.budget = budget, !.prefill_budget = prefill, !.selected = chosen]
  BY <1>1 DEF Started
<1> HIDE DEF u
<1>3. u \in StepRec
  BY <1>2 DEF StepRec
<1>4. /\ u.n = s.n /\ u.skipped = s.skipped /\ u.budget = budget
      /\ u.prefill_used = s.prefill_used /\ u.prefill_budget = prefill
      /\ u.spec = s.spec /\ u.resumed = s.resumed
  BY <1>2 DEF StepRec
<1> QED BY <1>1, <1>3, <1>4 DEF u

(* The start of a step without it.                                         *)
LEMMA StartedPlainFacts ==
  ASSUME NoStep \in StepRec, NEW budget \in Nat, NEW prefill \in Int
  PROVE  LET u == StartedPlain(budget, prefill) IN
         /\ u \in StepRec /\ u.n = NoStep.n /\ u.skipped = NoStep.skipped
         /\ u.budget = budget /\ u.prefill_used = NoStep.prefill_used
         /\ u.prefill_budget = prefill
         /\ u.spec = NoStep.spec /\ u.resumed = NoStep.resumed
<1> DEFINE u == StartedPlain(budget, prefill)
<1>1. PICK s \in StepRec : s = NoStep
  OBVIOUS
<1>2. u = [s EXCEPT !.budget = budget, !.prefill_budget = prefill]
  BY <1>1 DEF StartedPlain
<1> HIDE DEF u
<1>3. u \in StepRec
  BY <1>2 DEF StepRec
<1>4. /\ u.n = s.n /\ u.skipped = s.skipped /\ u.budget = budget
      /\ u.prefill_used = s.prefill_used /\ u.prefill_budget = prefill
      /\ u.spec = s.spec /\ u.resumed = s.resumed
  BY <1>2 DEF StepRec
<1> QED BY <1>1, <1>3, <1>4 DEF u

(* The RUNNING loop goes on to the next request.                           *)
LEMMA AdvancedFacts ==
  ASSUME NEW s \in StepRec, NEW i \in Nat \ {0}
  PROVE  LET u == Advanced(s, i) IN
         /\ u \in StepRec /\ u.n = s.n /\ u.skipped = s.skipped /\ u.budget = s.budget
         /\ u.prefill_used = s.prefill_used /\ u.prefill_budget = s.prefill_budget
         /\ u.index = i /\ u.spec = s.spec /\ u.resumed = s.resumed
<1> DEFINE u == Advanced(s, i)
<1>1. u = [s EXCEPT !.index = i]
  BY DEF Advanced
<1> HIDE DEF u
<1>2. u \in StepRec
  BY <1>1 DEF StepRec
<1>3. /\ u.n = s.n /\ u.skipped = s.skipped /\ u.budget = s.budget
      /\ u.prefill_used = s.prefill_used /\ u.prefill_budget = s.prefill_budget
      /\ u.index = i /\ u.spec = s.spec /\ u.resumed = s.resumed
  BY <1>1 DEF StepRec
<1> QED BY <1>2, <1>3 DEF u

(* The RUNNING loop gives a request its share.                             *)
LEMMA GivenFacts ==
  ASSUME NEW s \in StepRec, NEW index \in Nat \ {0}, NEW budget \in Nat,
         NEW n \in [Requests -> Int], NEW spec \in [Requests -> Int], NEW used \in Int,
         NEW scheduled \in BOOLEAN
  PROVE  LET u == Given(s, index, budget, n, spec, used, scheduled) IN
         /\ u \in StepRec /\ u.n = n /\ u.skipped = s.skipped
         /\ u.budget = budget /\ u.index = index
         /\ u.prefill_used = used /\ u.prefill_budget = s.prefill_budget
         /\ u.spec = spec /\ u.resumed = s.resumed
<1> DEFINE u == Given(s, index, budget, n, spec, used, scheduled)
<1>1. u = [s EXCEPT !.index = index, !.budget = budget, !.n = n, !.spec = spec,
                    !.prefill_used = used, !.decodes = TRUE, !.prefill_scheduled = scheduled]
  BY DEF Given
<1> HIDE DEF u
<1>2. u \in StepRec
  BY <1>1 DEF StepRec
<1>3. /\ u.n = n /\ u.skipped = s.skipped
      /\ u.budget = budget /\ u.index = index
      /\ u.prefill_used = used /\ u.prefill_budget = s.prefill_budget
      /\ u.spec = spec /\ u.resumed = s.resumed
  BY <1>1 DEF StepRec
<1> QED BY <1>2, <1>3 DEF u

(* A preemption is noted.                                                  *)
LEMMA PreemptingFacts ==
  ASSUME NEW s \in StepRec
  PROVE  LET u == Preempting(s) IN
         /\ u \in StepRec /\ u.n = s.n /\ u.skipped = s.skipped /\ u.budget = s.budget
         /\ u.prefill_used = s.prefill_used /\ u.prefill_budget = s.prefill_budget
         /\ u.index = s.index /\ u.spec = s.spec /\ u.resumed = s.resumed
<1> DEFINE u == Preempting(s)
<1>1. u = [s EXCEPT !.preempted = TRUE]
  BY DEF Preempting
<1> HIDE DEF u
<1>2. u \in StepRec
  BY <1>1 DEF StepRec
<1>3. /\ u.n = s.n /\ u.skipped = s.skipped /\ u.budget = s.budget
      /\ u.prefill_used = s.prefill_used /\ u.prefill_budget = s.prefill_budget
      /\ u.index = s.index /\ u.spec = s.spec /\ u.resumed = s.resumed
  BY <1>1 DEF StepRec
<1> QED BY <1>2, <1>3 DEF u

(* The WAITING loop sets the requests q aside.                             *)
LEMMA SkippingFacts ==
  ASSUME NEW s \in StepRec, NEW q \in Seq(Requests)
  PROVE  LET u == Skipping(s, q) IN
         /\ u \in StepRec /\ u.n = s.n /\ u.skipped = q /\ u.budget = s.budget
         /\ u.prefill_used = s.prefill_used /\ u.prefill_budget = s.prefill_budget
         /\ u.spec = s.spec /\ u.resumed = s.resumed
<1> DEFINE u == Skipping(s, q)
<1>1. u = [s EXCEPT !.skipped = q]
  BY DEF Skipping
<1> HIDE DEF u
<1>2. u \in StepRec
  BY <1>1 DEF StepRec
<1>3. /\ u.n = s.n /\ u.skipped = q /\ u.budget = s.budget
      /\ u.prefill_used = s.prefill_used /\ u.prefill_budget = s.prefill_budget
      /\ u.spec = s.spec /\ u.resumed = s.resumed
  BY <1>1 DEF StepRec
<1> QED BY <1>2, <1>3 DEF u

(* The WAITING loop gives a request its share.                             *)
LEMMA AdmittedFacts ==
  ASSUME NEW s \in StepRec, NEW budget \in Nat, NEW resumed \in SUBSET Requests,
         NEW n \in [Requests -> Int], NEW spec \in [Requests -> Int], NEW used \in Int
  PROVE  LET u == Admitted(s, budget, n, resumed, spec, used) IN
         /\ u \in StepRec /\ u.n = n /\ u.skipped = s.skipped /\ u.budget = budget
         /\ u.prefill_used = used /\ u.prefill_budget = s.prefill_budget
         /\ u.spec = spec /\ u.resumed = resumed
<1> DEFINE u == Admitted(s, budget, n, resumed, spec, used)
<1>1. u = [s EXCEPT !.budget = budget, !.n = n, !.resumed = resumed, !.spec = spec,
                    !.prefill_used = used]
  BY DEF Admitted
<1> HIDE DEF u
<1>2. u \in StepRec
  BY <1>1 DEF StepRec
<1>3. /\ u.n = n /\ u.skipped = s.skipped /\ u.budget = budget
      /\ u.prefill_used = used /\ u.prefill_budget = s.prefill_budget
      /\ u.spec = spec /\ u.resumed = resumed
  BY <1>1 DEF StepRec
<1> QED BY <1>2, <1>3 DEF u

-----------------------------------------------------------------------------
(* What the actions write into a request                                   *)

Holding(q, blocks) == [q EXCEPT !.blocks = blocks, !.spec = 0]
Running(q, hit, blocks) == [q EXCEPT !.status = "RUNNING", !.computed = hit, !.blocks = blocks]

(* The RUNNING loop: more blocks, and the draft tokens are taken.          *)
LEMMA HoldingFacts ==
  ASSUME NEW q \in ReqRec, NEW blocks \in Nat
  PROVE  LET u == Holding(q, blocks) IN
         /\ u \in ReqRec
         /\ u.status = q.status /\ u.in_flight = q.in_flight /\ u.stale = q.stale
         /\ u.blocks = blocks /\ u.computed = q.computed /\ u.tokens = q.tokens /\ u.spec = 0
         /\ u.placeholders = q.placeholders /\ u.drop = q.drop /\ u.chunk = q.chunk
<1> DEFINE u == Holding(q, blocks)
<1>0. PICK none \in Int : none = 0
  OBVIOUS
<1>1. u = [q EXCEPT !.blocks = blocks, !.spec = none]
  BY <1>0 DEF Holding
<1> HIDE DEF u
<1>2. u \in ReqRec
  BY <1>1 DEF ReqRec, Statuses
<1>3. /\ u.status = q.status /\ u.in_flight = q.in_flight /\ u.stale = q.stale
      /\ u.blocks = blocks /\ u.computed = q.computed /\ u.tokens = q.tokens /\ u.spec = none
      /\ u.placeholders = q.placeholders /\ u.drop = q.drop /\ u.chunk = q.chunk
  BY <1>1 DEF ReqRec
<1> QED BY <1>0, <1>2, <1>3 DEF u

(* The WAITING loop: the request runs, from what the cache has of it.      *)
LEMMA RunningFacts ==
  ASSUME NEW q \in ReqRec, NEW hit \in Int, NEW blocks \in Nat
  PROVE  LET u == Running(q, hit, blocks) IN
         /\ u \in ReqRec
         /\ u.status = "RUNNING" /\ u.in_flight = q.in_flight /\ u.stale = q.stale
         /\ u.blocks = blocks /\ u.computed = hit /\ u.tokens = q.tokens /\ u.spec = q.spec
         /\ u.placeholders = q.placeholders /\ u.drop = q.drop /\ u.chunk = q.chunk
<1> DEFINE u == Running(q, hit, blocks)
<1>1. u = [q EXCEPT !.status = "RUNNING", !.computed = hit, !.blocks = blocks]
  BY DEF Running
<1> HIDE DEF u
<1>2. u \in ReqRec
  BY <1>1 DEF ReqRec, Statuses
<1>3. /\ u.status = "RUNNING" /\ u.in_flight = q.in_flight /\ u.stale = q.stale
      /\ u.blocks = blocks /\ u.computed = hit /\ u.tokens = q.tokens /\ u.spec = q.spec
      /\ u.placeholders = q.placeholders /\ u.drop = q.drop /\ u.chunk = q.chunk
  BY <1>1 DEF ReqRec
<1> QED BY <1>2, <1>3 DEF u

(* A request that is new, waiting or finished.                             *)
LEMMA FreshFacts ==
  ASSUME NEW s \in Statuses
  PROVE  /\ Fresh(s) \in ReqRec /\ Fresh(s).status = s /\ Fresh(s).in_flight = 0
         /\ Fresh(s).stale = 0 /\ Fresh(s).blocks = 0 /\ Fresh(s).computed = 0
         /\ Fresh(s).tokens = 0 /\ Fresh(s).spec = 0 /\ Fresh(s).placeholders = 0
         /\ Fresh(s).drop = FALSE /\ Fresh(s).chunk = FALSE
BY DEF Fresh, ReqRec

(* A preempted request holds nothing, and all its output in flight is stale.*)
LEMMA PreemptedFacts ==
  ASSUME NEW q \in ReqRec, NEW drop \in BOOLEAN
  PROVE  LET u == Preempted(q, drop) IN
         /\ u \in ReqRec /\ u.status = "PREEMPTED" /\ u.in_flight = q.in_flight
         /\ u.stale = q.in_flight /\ u.blocks = 0 /\ u.computed = 0 /\ u.tokens = q.tokens
         /\ u.spec = 0 /\ u.placeholders = 0 /\ u.drop = (drop \/ (q.drop /\ q.stale > 0))
<1> DEFINE u == Preempted(q, drop)
           d == drop \/ (q.drop /\ q.stale > 0)
<1>1. PICK s \in ReqRec : s = Fresh("PREEMPTED")
  BY FreshFacts DEF Statuses
<1>2. q.tokens \in Int /\ q.chunk \in BOOLEAN /\ q.in_flight \in Int
  BY DEF ReqRec
<1>3. PICK tokens \in Int, chunk \in BOOLEAN, inf \in Int :
        tokens = q.tokens /\ chunk = q.chunk /\ inf = q.in_flight
  BY <1>2
<1>4. u = [s EXCEPT !.tokens = tokens, !.chunk = chunk, !.in_flight = inf,
                    !.stale = inf, !.drop = d]
  BY <1>1, <1>3, Zenon DEF Preempted
<1>5. d \in BOOLEAN
  OBVIOUS
<1> HIDE DEF u, d
<1>6. u \in ReqRec
  BY <1>4, <1>5 DEF ReqRec
<1>7. /\ u.status = s.status /\ u.in_flight = inf /\ u.stale = inf /\ u.blocks = s.blocks
      /\ u.computed = s.computed /\ u.tokens = tokens /\ u.spec = s.spec
      /\ u.placeholders = s.placeholders
  BY <1>4 DEF ReqRec
<1>8. /\ s.status = "PREEMPTED" /\ s.blocks = 0 /\ s.computed = 0 /\ s.spec = 0
      /\ s.placeholders = 0
  BY <1>1 DEF Fresh
<1>9. u.drop = d
  BY <1>4, <1>5 DEF ReqRec
<1> QED BY <1>3, <1>6, <1>7, <1>8, <1>9 DEF u, d

(* _update_after_schedule: the share is computed and in flight.            *)
LEMMA AfterFacts ==
  ASSUME NEW q \in ReqRec, NEW n \in Int
  PROVE  LET u == UpdateAfterSchedule(q, n) IN
         /\ u \in ReqRec
         /\ u.status = q.status /\ u.blocks = q.blocks
         /\ u.in_flight = q.in_flight + n /\ u.stale = q.stale
         /\ u.computed = q.computed + n /\ u.tokens = q.tokens /\ u.spec = q.spec
         /\ u.placeholders = q.placeholders /\ u.drop = q.drop
         /\ u.chunk = (q.computed + n < q.tokens + q.placeholders)
<1> DEFINE u == UpdateAfterSchedule(q, n)
<1>1. /\ q.computed \in Int /\ q.tokens \in Int /\ q.placeholders \in Int
      /\ q.in_flight \in Int /\ q.stale \in Int
  BY DEF ReqRec
<1>2. PICK computed \in Int, inf \in Int : computed = q.computed + n /\ inf = q.in_flight + n
  BY <1>1
<1> DEFINE chunk == q.computed + n < q.tokens + q.placeholders
<1>3. chunk \in BOOLEAN
  OBVIOUS
<1>4. u = [q EXCEPT !.computed = computed, !.in_flight = inf, !.chunk = chunk]
  BY <1>2 DEF UpdateAfterSchedule
<1> HIDE DEF chunk
<1> HIDE DEF u
<1>5. u \in ReqRec
  BY <1>3, <1>4 DEF ReqRec
<1>6. /\ u.status = q.status /\ u.blocks = q.blocks
      /\ u.in_flight = q.in_flight + n /\ u.stale = q.stale
      /\ u.computed = q.computed + n /\ u.tokens = q.tokens /\ u.spec = q.spec
      /\ u.placeholders = q.placeholders /\ u.drop = q.drop
  BY <1>2, <1>4 DEF ReqRec
<1>7. u.chunk = chunk
  BY <1>3, <1>4 DEF ReqRec
<1> QED BY <1>5, <1>6, <1>7 DEF u, chunk

(* The placeholders of a request past its prompt.                          *)
LEMMA PlaceholderFacts ==
  ASSUME NEW q \in ReqRec, NEW drafts \in Int
  PROVE  LET u == AddPlaceholders(q, drafts) IN
         /\ u \in ReqRec
         /\ u.status = q.status /\ u.blocks = q.blocks
         /\ u.in_flight = q.in_flight /\ u.stale = q.stale
         /\ u.computed = q.computed /\ u.tokens = q.tokens /\ u.drop = q.drop
         /\ u.chunk = q.chunk
         /\ u.spec = IF q.chunk THEN q.spec ELSE num_spec_tokens
         /\ u.placeholders = IF q.chunk THEN q.placeholders ELSE q.placeholders + 1 + drafts
<1> DEFINE u == AddPlaceholders(q, drafts)
<1>1. q.placeholders \in Int
  BY DEF ReqRec
<1>2. PICK holders \in Int, spec \in Int :
        holders = q.placeholders + 1 + drafts /\ spec = num_spec_tokens
  BY <1>1, Constants
<1>3. CASE q.chunk
  BY <1>3 DEF AddPlaceholders
<1>4. CASE ~ q.chunk
  <2>1. u = [q EXCEPT !.placeholders = holders, !.spec = spec]
    BY <1>2, <1>4 DEF AddPlaceholders
  <2> HIDE DEF u
  <2>2. u \in ReqRec
    BY <2>1 DEF ReqRec
  <2>3. /\ u.status = q.status /\ u.blocks = q.blocks
        /\ u.in_flight = q.in_flight /\ u.stale = q.stale
        /\ u.computed = q.computed /\ u.tokens = q.tokens /\ u.drop = q.drop
        /\ u.chunk = q.chunk /\ u.spec = spec /\ u.placeholders = holders
    BY <2>1 DEF ReqRec
  <2> QED BY <1>2, <1>4, <2>2, <2>3 DEF u
<1> QED BY <1>3, <1>4

(* The share of a step leaves the counters of what is in flight.           *)
LEMMA DrainedFacts ==
  ASSUME NEW q \in ReqRec, NEW n \in Int
  PROVE  LET u == Drained(q, n) IN
         /\ u \in ReqRec
         /\ u.status = q.status /\ u.blocks = q.blocks
         /\ u.in_flight = q.in_flight - n
         /\ u.stale = IF q.stale > 0 THEN q.stale - n ELSE 0
         /\ u.computed = q.computed /\ u.tokens = q.tokens /\ u.spec = q.spec
         /\ u.placeholders = q.placeholders /\ u.drop = q.drop /\ u.chunk = q.chunk
<1> DEFINE u == Drained(q, n)
<1>1. /\ q.computed \in Int /\ q.tokens \in Int /\ q.placeholders \in Int
      /\ q.in_flight \in Int /\ q.stale \in Int
  BY DEF ReqRec
<1>2. PICK inf \in Int, old \in Int :
        inf = q.in_flight - n /\ old = IF q.stale > 0 THEN q.stale - n ELSE 0
  BY <1>1
<1>3. u = [q EXCEPT !.in_flight = inf, !.stale = old]
  BY <1>2 DEF Drained
<1> HIDE DEF u
<1>4. u \in ReqRec
  BY <1>3 DEF ReqRec
<1>5. /\ u.status = q.status /\ u.blocks = q.blocks
      /\ u.in_flight = q.in_flight - n
      /\ u.stale = IF q.stale > 0 THEN q.stale - n ELSE 0
      /\ u.computed = q.computed /\ u.tokens = q.tokens /\ u.spec = q.spec
      /\ u.placeholders = q.placeholders /\ u.drop = q.drop /\ u.chunk = q.chunk
  BY <1>2, <1>3 DEF ReqRec
<1> QED BY <1>4, <1>5 DEF u

(* A rollback moves neither what is in flight nor what is held.            *)
LEMMA RollbackFacts ==
  ASSUME NEW q \in ReqRec, NEW stale, NEW rejected \in Int
  PROVE  LET u == Rollback(q, stale, rejected) IN
         /\ u \in ReqRec
         /\ u.status = q.status /\ u.blocks = q.blocks
         /\ u.in_flight = q.in_flight /\ u.stale = q.stale
         /\ u.tokens = q.tokens /\ u.spec = q.spec /\ u.drop = q.drop /\ u.chunk = q.chunk
         /\ u.computed = IF ~ stale /\ q.computed > 0 THEN q.computed - rejected
                         ELSE q.computed
         /\ u.placeholders = IF ~ stale /\ q.placeholders > 0 THEN q.placeholders - rejected
                             ELSE q.placeholders
<1> DEFINE u == Rollback(q, stale, rejected)
<1>1. q.computed \in Int /\ q.placeholders \in Int
  BY DEF ReqRec
<1>2. PICK computed \in Int, holders \in Int :
        /\ computed = IF q.computed > 0 THEN q.computed - rejected ELSE q.computed
        /\ holders = IF q.placeholders > 0 THEN q.placeholders - rejected ELSE q.placeholders
  BY <1>1
<1>3. CASE stale
  BY <1>3 DEF Rollback
<1>4. CASE ~ stale
  <2>1. u = [q EXCEPT !.computed = computed, !.placeholders = holders]
    BY <1>2, <1>4 DEF Rollback
  <2> HIDE DEF u
  <2>2. u \in ReqRec
    BY <2>1 DEF ReqRec
  <2>3. /\ u.status = q.status /\ u.blocks = q.blocks
        /\ u.in_flight = q.in_flight /\ u.stale = q.stale
        /\ u.tokens = q.tokens /\ u.spec = q.spec /\ u.drop = q.drop /\ u.chunk = q.chunk
        /\ u.computed = computed /\ u.placeholders = holders
    BY <2>1 DEF ReqRec
  <2> QED BY <1>2, <1>4, <2>2, <2>3 DEF u
<1> QED BY <1>3, <1>4

(* Neither do the tokens that are appended.                                *)
LEMMA WithOutputFacts ==
  ASSUME Types, NEW r \in Requests, NEW q \in ReqRec, NEW stale, NEW generated \in Int
  PROVE  LET u == WithOutput(r, q, stale, generated) IN
         /\ u \in ReqRec
         /\ u.status = q.status /\ u.blocks = q.blocks
         /\ u.in_flight = q.in_flight /\ u.stale = q.stale
         /\ u.computed = q.computed /\ u.spec = q.spec /\ u.drop = q.drop /\ u.chunk = q.chunk
         /\ u.tokens = q.tokens + Lesser(generated, Room(r))
         /\ u.placeholders = IF stale THEN q.placeholders
                             ELSE q.placeholders - Lesser(generated, Room(r))
<1> DEFINE u == WithOutput(r, q, stale, generated)
           appended == Lesser(generated, Room(r))
<1>1. q.tokens \in Int /\ q.placeholders \in Int
  BY DEF ReqRec
<1>2. appended \in Int
  <2>1. Room(r) \in Int
    BY ReqFacts, Constants DEF Room, Lesser
  <2> QED BY <2>1 DEF Lesser
<1>3. PICK tokens \in Int, holders \in Int :
        /\ tokens = q.tokens + appended
        /\ holders = IF stale THEN q.placeholders ELSE q.placeholders - appended
  BY <1>1, <1>2
<1>4. u = [q EXCEPT !.tokens = tokens, !.placeholders = holders]
  BY <1>3 DEF WithOutput
<1> HIDE DEF u
<1>5. u \in ReqRec
  BY <1>4 DEF ReqRec
<1>6. /\ u.status = q.status /\ u.blocks = q.blocks
      /\ u.in_flight = q.in_flight /\ u.stale = q.stale
      /\ u.computed = q.computed /\ u.spec = q.spec /\ u.drop = q.drop /\ u.chunk = q.chunk
      /\ u.tokens = tokens /\ u.placeholders = holders
  BY <1>4 DEF ReqRec
<1> QED BY <1>3, <1>5, <1>6 DEF u

(* What the output of a batch does to a request: nothing, if the batch has *)
(* no share of it; it stops it; or it drains its share.                    *)
LEMMA ProcessedFacts ==
  ASSUME Types, NEW r \in Requests, NEW b \in BatchRec, NEW acc \in Int,
         NEW eos \in BOOLEAN, NEW absent \in BOOLEAN
  PROVE  LET p == Processed(r, b, acc, eos, absent) IN
         /\ p \in ReqRec
         /\ \/ p = req[r] /\ (b.n[r] = 0 \/ ~ Live(r))
            \/ Live(r) /\ p = Fresh("FINISHED")
            \/ /\ Live(r) /\ p.status = req[r].status /\ p.blocks = req[r].blocks
               /\ p.in_flight = req[r].in_flight - b.n[r]
               /\ p.stale = IF req[r].stale > 0 THEN req[r].stale - b.n[r] ELSE 0
<1> DEFINE p == Processed(r, b, acc, eos, absent)
           stale == req[r].stale > 0
           drained == Drained(req[r], b.n[r])
           generated == IF r \in b.samples THEN 1 + acc ELSE 0
           rejected == IF r \in b.samples THEN b.spec[r] - acc ELSE 0
           rolled == Rollback(drained, stale, rejected)
           out == WithOutput(r, rolled, stale, generated)
<1>1. req[r] \in ReqRec /\ b.n[r] \in Int /\ b.spec[r] \in Int
  BY ReqFacts DEF BatchRec
<1>2. generated \in Int /\ rejected \in Int
  BY <1>1
<1>3. /\ drained \in ReqRec
      /\ drained.status = req[r].status /\ drained.blocks = req[r].blocks
      /\ drained.in_flight = req[r].in_flight - b.n[r]
      /\ drained.stale = IF req[r].stale > 0 THEN req[r].stale - b.n[r] ELSE 0
  BY <1>1, DrainedFacts
<1>4. p = IF b.n[r] = 0 \/ ~ Live(r) THEN req[r]
          ELSE IF stale /\ (req[r].drop \/ absent) THEN drained
          ELSE IF generated >= Room(r) \/ (eos /\ generated > 0) THEN Fresh("FINISHED")
          ELSE out
  BY DEF Processed
<1> HIDE DEF drained, generated, rejected, stale
<1>5. /\ rolled \in ReqRec
      /\ rolled.status = drained.status /\ rolled.blocks = drained.blocks
      /\ rolled.in_flight = drained.in_flight /\ rolled.stale = drained.stale
  BY <1>2, <1>3, RollbackFacts
<1> HIDE DEF rolled
<1>6. /\ out \in ReqRec
      /\ out.status = rolled.status /\ out.blocks = rolled.blocks
      /\ out.in_flight = rolled.in_flight /\ out.stale = rolled.stale
  BY <1>2, <1>5, WithOutputFacts
<1>7. Fresh("FINISHED") \in ReqRec
  BY FreshFacts DEF Statuses
<1> HIDE DEF out, p
<1>8. \/ p = req[r] /\ (b.n[r] = 0 \/ ~ Live(r))
      \/ Live(r) /\ p = drained
      \/ Live(r) /\ p = Fresh("FINISHED")
      \/ Live(r) /\ p = out
  BY <1>4
<1> QED BY <1>1, <1>3, <1>5, <1>6, <1>7, <1>8 DEF p

-----------------------------------------------------------------------------
(* The shares of the batches in flight                                     *)

(* The shares of a request are integers.                                   *)
LEMMA ShareTypes ==
  ASSUME NEW q \in Seq(BatchRec), NEW r \in Requests
  PROVE  /\ DOMAIN q = 1 .. Len(q) /\ Len(q) \in Nat
         /\ \A j \in 1 .. Len(q) : q[j] \in BatchRec /\ q[j].n[r] \in Int
<1>1. DOMAIN q = 1 .. Len(q) /\ Len(q) \in Nat /\ \A j \in 1 .. Len(q) : q[j] \in BatchRec
  OBVIOUS
<1>2. \A b \in BatchRec : b.n[r] \in Int
  BY DEF BatchRec
<1> QED BY <1>1, <1>2

(* A new batch adds its share at the end.                                  *)
LEMMA SharesAppend ==
  ASSUME Types, NEW b \in BatchRec, batches' = Append(batches, b), NEW r \in Requests,
         NEW len \in Nat, len = Len(batches)
  PROVE  /\ Len(batches') = len + 1
         /\ \A i \in 0 .. len : Shares(r, i)' = Shares(r, i)
         /\ Shares(r, len + 1)' = b.n[r] + Shares(r, len)
         /\ Shares(r, len) \in Int
<1> DEFINE f == [j \in DOMAIN batches |-> batches[j].n[r]]
           g == [j \in DOMAIN batches' |-> batches'[j].n[r]]
<1>1. batches \in Seq(BatchRec) /\ batches' \in Seq(BatchRec)
  BY DEF Types
<1>2. /\ DOMAIN batches = 1 .. len /\ DOMAIN batches' = 1 .. len + 1
      /\ Len(batches') = len + 1 /\ batches'[len + 1] = b
      /\ \A j \in 1 .. len : batches'[j] = batches[j]
  BY <1>1
<1>3. \A j \in 1 .. len : f[j] \in Int
  BY <1>1, <1>2, ShareTypes
<1>4. \A j \in 1 .. len + 1 : g[j] \in Int
  BY <1>1, <1>2, ShareTypes
<1>5. (\A j \in 1 .. len : g[j] = f[j]) /\ g[len + 1] = b.n[r]
  BY <1>2
<1>6. \A i : Shares(r, i) = SumFunctionOnSet(f, 1 .. i)
  BY DEF Shares
<1>7. \A i : Shares(r, i)' = SumFunctionOnSet(g, 1 .. i)
  BY DEF Shares
<1> HIDE DEF f, g
<1>8. ASSUME NEW i \in 0 .. len
      PROVE  SumFunctionOnSet(g, 1 .. i) = SumFunctionOnSet(f, 1 .. i)
  <2>1. IsFiniteSet(1 .. i) /\ 1 .. i \subseteq 1 .. len
    BY FS_Interval
  <2>2. \A x \in 1 .. i : f[x] \in Int /\ g[x] = f[x]
    BY <1>3, <1>5, <2>1
  <2> QED BY <2>1, <2>2, SumCongruence
<1>9. SumFunctionOnSet(g, 1 .. len + 1) = g[len + 1] + SumFunctionOnSet(g, 1 .. len)
  BY <1>2, <1>4, SumInterval
<1>10. SumFunctionOnSet(f, 1 .. len) \in Int
  <2>1. IsFiniteSet(1 .. len)
    BY FS_Interval
  <2> QED BY <1>3, <2>1, SumType
<1>11. len \in 0 .. len
  OBVIOUS
<1>12. Shares(r, len + 1)' = b.n[r] + Shares(r, len)
  <2>1. Shares(r, len + 1)' = SumFunctionOnSet(g, 1 .. len + 1)
    BY <1>7
  <2> QED BY <1>5, <1>6, <1>8, <1>9, <1>11, <2>1
<1>13. \A i \in 0 .. len : Shares(r, i)' = Shares(r, i)
  BY <1>6, <1>7, <1>8
<1> QED BY <1>2, <1>6, <1>10, <1>12, <1>13

(* The oldest batch leaves with its share.                                 *)
LEMMA SharesTail ==
  ASSUME Types, batches # <<>>, batches' = Tail(batches), NEW r \in Requests
  PROVE  /\ Len(batches') = Len(batches) - 1 /\ Len(batches) \in Nat \ {0}
         /\ Head(batches) \in BatchRec /\ Head(batches).n[r] \in Int
         /\ Shares(r, 0) = 0 /\ Shares(r, 0)' = 0
         /\ \A i \in 0 .. Len(batches) - 1 :
              Shares(r, i)' \in Int /\ Shares(r, i + 1) = Head(batches).n[r] + Shares(r, i)'
<1> DEFINE f == [j \in DOMAIN batches |-> batches[j].n[r]]
           g == [j \in DOMAIN batches' |-> batches'[j].n[r]]
<1>1. batches \in Seq(BatchRec) /\ batches' \in Seq(BatchRec)
  BY DEF Types
<1>2. PICK m \in Nat : m = Len(batches) - 1
  BY <1>1
<1>3. /\ DOMAIN batches = 1 .. m + 1 /\ DOMAIN batches' = 1 .. m
      /\ Len(batches') = m /\ Len(batches) = m + 1 /\ Head(batches) = batches[1]
      /\ \A j \in 1 .. m : batches'[j] = batches[j + 1]
  BY <1>1, <1>2
<1>4. \A j \in 1 .. m + 1 : batches[j] \in BatchRec /\ f[j] \in Int
  BY <1>1, <1>3, ShareTypes
<1>5. \A j \in 1 .. m : g[j] = f[j + 1]
  BY <1>3
<1>6. f[1] = Head(batches).n[r] /\ Head(batches) \in BatchRec /\ f[1] \in Int
  BY <1>3, <1>4
<1>7. \A i : Shares(r, i) = SumFunctionOnSet(f, 1 .. i)
  BY DEF Shares
<1>8. \A i : Shares(r, i)' = SumFunctionOnSet(g, 1 .. i)
  BY DEF Shares
<1> HIDE DEF f, g
<1>9. Shares(r, 0) = 0 /\ Shares(r, 0)' = 0
  <2>1. 1 .. 0 = {}
    OBVIOUS
  <2> QED BY <1>7, <1>8, <2>1, SumEmpty
<1>10. ASSUME NEW i \in 0 .. m
       PROVE  SumFunctionOnSet(g, 1 .. i) \in Int
              /\ SumFunctionOnSet(f, 1 .. i + 1) = f[1] + SumFunctionOnSet(g, 1 .. i)
  <2>1. \A j \in 1 .. m : g[j] \in Int
    <3>1. \A j \in 1 .. m : j + 1 \in 1 .. m + 1
      OBVIOUS
    <3> QED BY <1>4, <1>5, <3>1
  <2>2. IsFiniteSet(1 .. i) /\ \A j \in 1 .. i : g[j] \in Int
    BY <2>1, FS_Interval
  <2>3. SumFunctionOnSet(g, 1 .. i) \in Int
    BY <2>2, SumType
  <2>4. \A j \in 1 .. m + 1 : f[j] \in Int
    BY <1>4
  <2>5. SumFunctionOnSet(f, 1 .. i + 1) = f[1] + SumFunctionOnSet(g, 1 .. i)
    <3>1. IsShift(f, g, m)
      BY <1>5, <2>4 DEF IsShift
    <3> QED BY <3>1, SumShift
  <2> QED BY <2>3, <2>5
<1>11. \A i \in 0 .. m : Shares(r, i)' \in Int /\ Shares(r, i + 1) = f[1] + Shares(r, i)'
  BY <1>7, <1>8, <1>10
<1> QED BY <1>2, <1>3, <1>6, <1>9, <1>11

-----------------------------------------------------------------------------
(* No tokens are given out.                                                *)
LEMMA NothingFacts ==
  /\ NoStep \in StepRec /\ NoStep.n = Nothing /\ NoStep.skipped = <<>> /\ NoStep.budget = 0
  /\ NoStep.prefill_used = 0 /\ NoStep.prefill_budget = 0
  /\ NoStep.spec = Nothing /\ NoStep.resumed = {}
  /\ \A r \in Requests : Nothing[r] = 0
  /\ SumFunctionOnSet(Nothing, Requests) = 0
<1>1. Nothing \in [Requests -> Int] /\ \A r \in Requests : Nothing[r] = 0
  BY DEF Nothing
<1>2. SumFunctionOnSet(Nothing, Requests) = 0
  BY <1>1, Constants, SumZero
<1>3. NoStep \in StepRec
  BY <1>1 DEF NoStep, StepRec
<1> QED BY <1>1, <1>2, <1>3 DEF NoStep

(* Init satisfies the invariant.                                           *)
LEMMA InitInv == Init => IInv
<1> SUFFICES ASSUME Init PROVE IInv
  OBVIOUS
<1> USE Constants, NothingFacts
<1>1. \A r \in Requests : req[r] = Fresh("NEW") /\ req[r].status = "NEW" /\ req[r].blocks = 0
  BY DEF Init, Fresh
<1>2. /\ running = <<>> /\ waiting = <<>> /\ skipped_waiting = <<>> /\ step = NoStep
      /\ pc = "idle" /\ batches = <<>> /\ free = num_gpu_blocks
  BY DEF Init
<1>3. Fresh("NEW") \in ReqRec
  BY DEF Fresh, ReqRec, Statuses
<1>4. Types
  BY <1>2, <1>3 DEF Init, Types
<1>5. IsInjective(<<>>) /\ ToSet(<<>>) = {}
  BY DEF IsInjective, ToSet
<1>6. Parked = {} /\ {r \in Requests : req[r].status = "RUNNING"} = {}
  BY <1>1 DEF Parked
<1>7. QueuesInv
  BY <1>2, <1>5, <1>6 DEF QueuesInv
<1>8. BlocksConserved
  <2>1. BlocksOf(Requests) = 0
    BY <1>1, SumZero DEF BlocksOf
  <2> QED BY <1>1, <1>2, <2>1 DEF BlocksConserved
<1>9. StepInv
  BY <1>2 DEF StepInv, ScheduledStayRunning
<1>10. NewInv /\ StaleIsOldest
  BY <1>1, <1>2 DEF NewInv, StaleIsOldest, Live
<1> QED BY <1>4, <1>7, <1>8, <1>9, <1>10 DEF IInv

(* The start of schedule(): nothing is given out, whatever is selected.    *)
LEMMA StartStep ==
  ASSUME IInv, StartSchedule
  PROVE  IInv'
<1> USE Constants, NothingFacts
<1> DEFINE decoding == \E i \in 1 .. Len(running) : ~ req[running[i]].chunk
           configured == IF decoding THEN decode_prefill_token_budget
                         ELSE idle_prefill_token_budget
           budget == IF pause = "PAUSED_ALL" THEN 0 ELSE max_num_scheduled_tokens
           ages == [r \in Requests |-> IF Live(r) THEN last[r] ELSE -1]
<1>1. /\ pc = "idle" /\ pc' = "running" /\ UNCHANGED <<req, queues, free, batches>>
      /\ \/ /\ enable_decode_aware_prefill
            /\ step' = [NoStep EXCEPT
                 !.budget = budget,
                 !.prefill_budget = Lesser(configured, max_num_scheduled_tokens),
                 !.selected = SelectLongPrefills(ages)]
         \/ /\ ~ enable_decode_aware_prefill
            /\ step' = [NoStep EXCEPT !.budget = budget, !.prefill_budget = budget]
  BY DEF StartSchedule
<1>2. Types /\ QueuesInv /\ StepInv
  BY DEF IInv
<1>3. budget \in Nat /\ budget <= max_num_scheduled_tokens
  OBVIOUS
<1>4. Lesser(configured, max_num_scheduled_tokens) \in Nat
  BY DEF Lesser
<1>5. SelectLongPrefills(ages) \subseteq Requests
  BY DEF SelectLongPrefills, Oldest
<1> HIDE DEF budget, configured, ages
<1>6. /\ step' \in StepRec /\ step'.n = Nothing /\ step'.skipped = <<>>
      /\ step'.budget = budget /\ step'.prefill_used = 0 /\ step'.prefill_budget \in Nat
  <2>1. CASE enable_decode_aware_prefill
    <3>1. step' = Started(budget, Lesser(configured, max_num_scheduled_tokens),
                          SelectLongPrefills(ages))
      BY <1>1, <2>1 DEF Started
    <3>2. Lesser(configured, max_num_scheduled_tokens) \in Int
      BY <1>4
    <3>3. /\ step' \in StepRec /\ step'.n = NoStep.n /\ step'.skipped = NoStep.skipped
          /\ step'.budget = budget /\ step'.prefill_used = NoStep.prefill_used
          /\ step'.prefill_budget = Lesser(configured, max_num_scheduled_tokens)
      BY <1>3, <1>5, <3>1, <3>2, StartedFacts
    <3> QED BY <1>4, <3>3
  <2>2. CASE ~ enable_decode_aware_prefill
    <3>1. step' = StartedPlain(budget, budget) /\ budget \in Int
      BY <1>1, <1>3, <2>2 DEF StartedPlain
    <3>2. /\ step' \in StepRec /\ step'.n = NoStep.n /\ step'.skipped = NoStep.skipped
          /\ step'.budget = budget /\ step'.prefill_used = NoStep.prefill_used
          /\ step'.prefill_budget = budget
      BY <1>3, <3>1, StartedPlainFacts
    <3> QED BY <1>3, <3>2
  <2> QED BY <2>1, <2>2
<1>7. Types'
  BY <1>1, <1>2, <1>6 DEF Types, queues
<1>8. QueuesInv'
  BY <1>1, <1>2, <1>6, QueuesFrame DEF QueuesInv
<1>9. BlocksConserved' /\ StaleIsOldest' /\ NewInv'
  BY <1>1, BlocksFrame, StaleFrame DEF IInv
<1>10. StepInv'
  <2>1. Len(running') <= max_num_running_reqs
    BY <1>1, <1>2 DEF StepInv, queues
  <2>2. step'.budget + SumFunctionOnSet(step'.n, Requests) <= max_num_scheduled_tokens
    BY <1>3, <1>6
  <2> QED BY <1>1, <1>6, <2>1, <2>2 DEF StepInv, ScheduledStayRunning
<1> QED BY <1>7, <1>8, <1>9, <1>10 DEF IInv

(* A running request is passed over.                                       *)
LEMMA RunningSkipStep ==
  ASSUME IInv, RunningSkip
  PROVE  IInv'
<1> USE Constants
<1>1. /\ step' = [step EXCEPT !.index = @ + 1] /\ pc = "running"
      /\ UNCHANGED <<req, queues, free, pc, batches>>
  BY DEF RunningSkip, InRunningLoop
<1>2. Types /\ QueuesInv /\ StepInv
  BY DEF IInv
<1>3. step \in StepRec /\ step.index \in Nat \ {0}
  BY <1>2, StepFacts DEF Types
<1>4. /\ step' \in StepRec /\ step'.index = step.index + 1 /\ step'.n = step.n
      /\ step'.skipped = step.skipped /\ step'.budget = step.budget
      /\ step'.prefill_used = step.prefill_used /\ step'.prefill_budget = step.prefill_budget
  <2>1. step.index + 1 \in Nat \ {0}
    BY <1>3
  <2>2. step' = Advanced(step, step.index + 1)
    BY <1>1, Zenon DEF Advanced
  <2> QED BY <1>3, <2>1, <2>2, AdvancedFacts
<1>5. Types'
  BY <1>1, <1>2, <1>4 DEF Types, queues
<1>6. QueuesInv'
  BY <1>1, <1>2, <1>4, QueuesFrame DEF QueuesInv
<1>7. BlocksConserved' /\ StaleIsOldest' /\ NewInv'
  BY <1>1, BlocksFrame, StaleFrame DEF IInv
<1>8. StepInv'
  <2>1. ASSUME NEW r \in Requests, step.n[r] # 0
        PROVE  \E i \in DOMAIN running : i < step.index + 1 /\ running[i] = r
    <3>1. PICK i \in DOMAIN running : i < step.index /\ running[i] = r
      BY <1>1, <1>2, <2>1 DEF StepInv
    <3>2. i \in Nat
      BY <1>2, <3>1 DEF Types
    <3> QED BY <1>3, <3>1, <3>2
  <2> QED BY <1>1, <1>2, <1>4, <2>1 DEF StepInv, ScheduledStayRunning, queues
<1> QED BY <1>5, <1>6, <1>7, <1>8 DEF IInv

(* The current request of the RUNNING loop, and the draft tokens among its *)
(* share n.                                                                *)
Current == running[step.index]
DraftsOf(r, n) ==
  Greater(0, Lesser(req[r].spec, n + req[r].computed - req[r].tokens - req[r].placeholders))

(* What the RUNNING loop writes when it gives request r a share of n.      *)
RunningWrites(r, n, missing) ==
  /\ r = Current /\ n = RunningTokens(r) /\ missing = Missing(r, req[r].computed, n)
  /\ pc = "running" /\ UNCHANGED <<queues, pc, batches>>
  /\ step.index \in DOMAIN running /\ r \in Requests /\ r \in ToSet(running)
  /\ req[r].status = "RUNNING"
  /\ n \in Int /\ n <= step.budget
  /\ AwarePrefill(r) => n <= step.prefill_budget - step.prefill_used
  /\ missing \in Nat /\ missing <= free /\ free' = free - missing
  /\ step' \in StepRec /\ step'.n = [step.n EXCEPT ![r] = n]
  /\ step'.spec = [step.spec EXCEPT ![r] = DraftsOf(r, n)]
  /\ step'.resumed = step.resumed
  /\ step'.skipped = step.skipped /\ step'.budget = step.budget - n
  /\ step'.index = step.index + 1
  /\ step'.prefill_used = (IF AwarePrefill(r) THEN step.prefill_used + n
                           ELSE step.prefill_used)
  /\ step'.prefill_budget = step.prefill_budget
  /\ req' \in [Requests -> ReqRec]
  /\ req'[r] = Holding(req[r], req[r].blocks + missing)
  /\ req'[r].status = req[r].status /\ req'[r].in_flight = req[r].in_flight
  /\ req'[r].stale = req[r].stale /\ req'[r].blocks = req[r].blocks + missing
  /\ \A q \in Requests : q # r => req'[q] = req[q]

(* It writes that.                                                         *)
LEMMA RunningScheduleWrites ==
  ASSUME Types, QueuesInv, RunningSchedule
  PROVE  \E r, n, missing : RunningWrites(r, n, missing)
<1>0. PICK r, n, missing : /\ r = Current /\ n = RunningTokens(r)
                           /\ missing = Missing(r, req[r].computed, n)
  OBVIOUS
<1> USE Constants
<1> DEFINE drafts == DraftsOf(r, n)
           used == IF AwarePrefill(r) THEN step.prefill_used + n ELSE step.prefill_used
           scheduled == step.prefill_scheduled \/ req[r].chunk
<1>1. Types /\ QueuesInv
  OBVIOUS
<1>2. /\ pc = "running" /\ step.index <= Len(running) /\ missing <= free
      /\ free' = free - missing
      /\ req' = [req EXCEPT ![r].blocks = @ + missing, ![r].spec = 0]
      /\ step' = [step EXCEPT
              !.index = @ + 1, !.budget = @ - n, !.n[r] = n, !.spec[r] = drafts,
              !.prefill_used = IF AwarePrefill(r) THEN @ + n ELSE @,
              !.decodes = TRUE,
              !.prefill_scheduled = @ \/ req[r].chunk]
      /\ UNCHANGED <<queues, pc, batches>>
  BY <1>0 DEF RunningSchedule, InRunningLoop, Current, DraftsOf
<1>3. /\ running \in Seq(Requests) /\ step \in StepRec /\ step.index \in Nat \ {0}
      /\ req \in [Requests -> ReqRec] /\ free \in Nat
  BY <1>1, StepFacts DEF Types
<1>4. step.index \in DOMAIN running /\ r \in Requests
  BY <1>0, <1>2, <1>3 DEF Current
<1>5. /\ n \in Int /\ n <= step.budget
      /\ AwarePrefill(r) => n <= step.prefill_budget - step.prefill_used
  BY <1>0, <1>1, <1>4, RunningTokensFacts
<1>6. missing \in Nat
  BY <1>0, <1>1, <1>4, <1>5, ReqFacts, MissingNat
<1>7. drafts \in Int
  <2>1. req[r].spec \in Int /\ n + req[r].computed - req[r].tokens - req[r].placeholders \in Int
    BY <1>1, <1>4, <1>5, ReqFacts
  <2> QED BY <2>1 DEF DraftsOf, Greater, Lesser
<1> HIDE DEF drafts
<1>8. /\ step' \in StepRec /\ step'.n = [step.n EXCEPT ![r] = n]
      /\ step'.spec = [step.spec EXCEPT ![r] = drafts] /\ step'.resumed = step.resumed
      /\ step'.skipped = step.skipped /\ step'.budget = step.budget - n
      /\ step'.index = step.index + 1
      /\ step'.prefill_used = used /\ step'.prefill_budget = step.prefill_budget
  <2>1. step' = Given(step, step.index + 1, step.budget - n, [step.n EXCEPT ![r] = n],
                      [step.spec EXCEPT ![r] = drafts], used, scheduled)
    BY <1>2, Zenon DEF Given
  <2>2. step.index + 1 \in Nat \ {0} /\ step.budget - n \in Nat
    BY <1>1, <1>3, <1>5, StepFacts
  <2>3. [step.n EXCEPT ![r] = n] \in [Requests -> Int]
        /\ [step.spec EXCEPT ![r] = drafts] \in [Requests -> Int]
    BY <1>1, <1>5, <1>7, StepFacts
  <2>4. used \in Int /\ scheduled \in BOOLEAN
    BY <1>1, <1>5, StepFacts
  <2> HIDE DEF used, scheduled
  <2>5. PICK index \in Nat \ {0}, budget \in Nat, shares \in [Requests -> Int],
             spec \in [Requests -> Int] :
          /\ index = step.index + 1 /\ budget = step.budget - n
          /\ shares = [step.n EXCEPT ![r] = n] /\ spec = [step.spec EXCEPT ![r] = drafts]
    BY <2>2, <2>3, Zenon
  <2>6. step' = Given(step, index, budget, shares, spec, used, scheduled)
    BY <2>1, <2>5, Zenon
  <2>7. /\ step' \in StepRec /\ step'.n = shares /\ step'.skipped = step.skipped
        /\ step'.budget = budget /\ step'.index = index
        /\ step'.prefill_used = used /\ step'.prefill_budget = step.prefill_budget
        /\ step'.spec = spec /\ step'.resumed = step.resumed
    <3>1. step \in StepRec /\ used \in Int /\ scheduled \in BOOLEAN
      BY <1>3, <2>4
    <3>2. ASSUME NEW s \in StepRec, NEW i \in Int, NEW b \in BOOLEAN
          PROVE  LET u == Given(s, index, budget, shares, spec, i, b) IN
                 /\ u \in StepRec /\ u.n = shares /\ u.skipped = s.skipped
                 /\ u.budget = budget /\ u.index = index
                 /\ u.prefill_used = i /\ u.prefill_budget = s.prefill_budget
                 /\ u.spec = spec /\ u.resumed = s.resumed
      BY GivenFacts
    <3> QED BY ONLY <2>6, <3>1, <3>2
  <2> QED BY <2>5, <2>7, Zenon
<1> HIDE DEF scheduled
<1>9. /\ req' \in [Requests -> ReqRec] /\ req'[r] = Holding(req[r], req[r].blocks + missing)
      /\ req'[r].status = req[r].status /\ req'[r].in_flight = req[r].in_flight
      /\ req'[r].stale = req[r].stale /\ req'[r].blocks = req[r].blocks + missing
      /\ \A q \in Requests : q # r => req'[q] = req[q]
  <2>1. req[r].blocks + missing \in Nat /\ req[r] \in ReqRec
    BY <1>1, <1>4, <1>6, ReqFacts
  <2>2. req' = [req EXCEPT ![r] = Holding(req[r], req[r].blocks + missing)]
    BY <1>2, <1>3, <1>4 DEF Holding
  <2>3. req'[r] = Holding(req[r], req[r].blocks + missing)
        /\ \A q \in Requests : q # r => req'[q] = req[q]
    BY <1>3, <1>4, <2>2
  <2>4. /\ req'[r] \in ReqRec
        /\ req'[r].status = req[r].status /\ req'[r].in_flight = req[r].in_flight
        /\ req'[r].stale = req[r].stale /\ req'[r].blocks = req[r].blocks + missing
    BY <2>1, <2>3, HoldingFacts
  <2>5. req' \in [Requests -> ReqRec]
    BY <1>3, <2>2, <2>3, <2>4
  <2> QED BY <2>3, <2>4, <2>5
<1>10. r \in ToSet(running) /\ req[r].status = "RUNNING"
  <2>1. r \in ToSet(running)
    BY <1>0, <1>4 DEF ToSet, Current
  <2> QED BY <1>1, <2>1 DEF QueuesInv
<1>11. RunningWrites(r, n, missing)
  BY <1>0, <1>2, <1>4, <1>5, <1>6, <1>8, <1>9, <1>10 DEF used, drafts, RunningWrites
<1> QED BY <1>11

(* A running request is given tokens and the blocks they need.             *)
LEMMA RunningScheduleStep ==
  ASSUME IInv, RunningSchedule
  PROVE  IInv'
<1> USE Constants
<1>0. PICK r, n, missing : RunningWrites(r, n, missing)
  BY RunningScheduleWrites DEF IInv
<1> DEFINE used == IF AwarePrefill(r) THEN step.prefill_used + n ELSE step.prefill_used
<1>1. Types /\ QueuesInv /\ StepInv /\ BlocksConserved
  BY DEF IInv
<1>2. /\ pc = "running" /\ UNCHANGED <<queues, pc, batches>>
      /\ step.index \in DOMAIN running /\ r \in Requests /\ r \in ToSet(running)
      /\ req[r].status = "RUNNING"
      /\ n \in Int /\ n <= step.budget
      /\ AwarePrefill(r) => n <= step.prefill_budget - step.prefill_used
      /\ missing \in Nat /\ missing <= free /\ free' = free - missing
  BY <1>0 DEF RunningWrites
<1>3. /\ running \in Seq(Requests) /\ step.index \in Nat \ {0}
  BY <1>1, StepFacts DEF Types
<1>8. /\ step' \in StepRec /\ step'.n = [step.n EXCEPT ![r] = n]
      /\ step'.skipped = step.skipped /\ step'.budget = step.budget - n
      /\ step'.index = step.index + 1
      /\ step'.prefill_used = used /\ step'.prefill_budget = step.prefill_budget
  BY <1>0 DEF RunningWrites
<1>9. /\ req' \in [Requests -> ReqRec]
      /\ req'[r].status = req[r].status /\ req'[r].in_flight = req[r].in_flight
      /\ req'[r].stale = req[r].stale /\ req'[r].blocks = req[r].blocks + missing
      /\ \A q \in Requests : q # r => req'[q] = req[q]
  BY <1>0 DEF RunningWrites
<1>11. BlocksConserved' /\ free' \in Nat
  BY <1>1, <1>2, <1>9, BlocksTake
<1>12. Types'
  BY <1>1, <1>2, <1>8, <1>9, <1>11 DEF Types, queues
<1>13. \A q \in Requests : /\ req'[q].status = req[q].status
                           /\ req'[q].in_flight = req[q].in_flight
                           /\ req'[q].stale = req[q].stale
  BY <1>9
<1>14. QueuesInv'
  BY <1>1, <1>2, <1>8, <1>13, QueuesFrame DEF QueuesInv
<1>15. StaleIsOldest' /\ NewInv'
  BY <1>2, <1>13, StaleFrame DEF IInv
<1>16. step.n[r] = 0
  <2> SUFFICES ASSUME step.n[r] # 0 PROVE FALSE
    OBVIOUS
  <2>1. PICK i \in DOMAIN running : i < step.index /\ running[i] = r
    BY <1>1, <1>2 DEF StepInv
  <2>2. i # step.index /\ running[step.index] = r
    BY <1>0, <1>3, <2>1 DEF Current, RunningWrites
  <2> QED BY <1>1, <1>2, <2>1, <2>2 DEF QueuesInv, IsInjective
<1>17. StepInv'
  <2>1. step'.budget + SumFunctionOnSet(step'.n, Requests) <= max_num_scheduled_tokens
    BY <1>1, <1>2, <1>8, <1>16, GiveSum
  <2>2. enable_decode_aware_prefill => step'.prefill_used <= step'.prefill_budget
    <3>1. step.prefill_used \in Int /\ step.prefill_budget \in Int
      BY <1>1, StepFacts
    <3>2. enable_decode_aware_prefill => step.prefill_used <= step.prefill_budget
      BY <1>1 DEF StepInv
    <3>3. /\ n \in Int
          /\ AwarePrefill(r) => n <= step.prefill_budget - step.prefill_used
          /\ step'.prefill_budget = step.prefill_budget
          /\ step'.prefill_used = IF AwarePrefill(r) THEN step.prefill_used + n
                                   ELSE step.prefill_used
      BY <1>2, <1>8 DEF used
    <3> QED BY ONLY <3>1, <3>2, <3>3
  <2>3. \A q \in Requests : step'.n[q] = IF q = r THEN n ELSE step.n[q]
    BY <1>1, <1>8, StepFacts
  <2>4. ScheduledStayRunning'
    BY <1>1, <1>2, <1>13, <2>3 DEF StepInv, ScheduledStayRunning
  <2>5. ASSUME NEW q \in Requests, step'.n[q] # 0
        PROVE  \E i \in DOMAIN running' : i < step'.index /\ running'[i] = q
    <3>1. running' = running
      BY <1>2 DEF queues
    <3>2. CASE q = r
      <4>1. PICK i \in DOMAIN running : i = step.index
        BY <1>2
      <4>2. i < step'.index /\ running[i] = r
        BY <1>0, <1>3, <1>8, <4>1 DEF Current, RunningWrites
      <4> QED BY ONLY <3>1, <3>2, <4>2
    <3>3. CASE q # r
      <4>1. PICK i \in DOMAIN running : i < step.index /\ running[i] = q
        BY <1>1, <1>2, <2>3, <2>5, <3>3 DEF StepInv
      <4>2. i < step'.index
        BY <1>3, <1>8, <4>1
      <4> QED BY ONLY <3>1, <4>1, <4>2
    <3> QED BY <3>2, <3>3
  <2>6. Len(running') <= max_num_running_reqs /\ pc' = "running"
    BY <1>1, <1>2 DEF StepInv, queues
  <2> QED BY <2>1, <2>2, <2>4, <2>5, <2>6 DEF StepInv
<1> QED BY <1>11, <1>12, <1>14, <1>15, <1>17 DEF IInv

(* The last running request is preempted: it has no tokens of this step,   *)
(* because the loop has not reached it or stands at it.                    *)
LEMMA RunningPreemptStep ==
  ASSUME IInv, RunningPreempt
  PROVE  IInv'
<1> USE Constants
<1> DEFINE v == running[Len(running)]
           left == Without(running, {v})
<1>1. Types /\ QueuesInv /\ StepInv /\ BlocksConserved
  BY DEF IInv
<1>2. /\ pc = "running" /\ step.index <= Len(running)
      /\ free' = free + req[v].blocks
      /\ req' = [req EXCEPT ![v] = Preempted(@, FALSE)]
      /\ running' = left /\ waiting' = <<v>> \o waiting
      /\ step' = [step EXCEPT !.preempted = TRUE]
      /\ pc' \in {"finish", "running"}
      /\ UNCHANGED <<skipped_waiting, batches>>
  <2>1. pc = "running" /\ step.index <= Len(running)
    BY DEF RunningPreempt, InRunningLoop
  <2>2. /\ free' = free + req[v].blocks
        /\ req' = [req EXCEPT ![v] = Preempted(@, FALSE)]
        /\ running' = left /\ waiting' = <<v>> \o waiting
        /\ step' = [step EXCEPT !.preempted = TRUE]
        /\ UNCHANGED <<skipped_waiting, batches>>
    BY DEF RunningPreempt, Victim
  <2>3. pc' \in {"finish", pc}
    BY DEF RunningPreempt
  <2> QED BY <2>1, <2>2, <2>3
<1>3. /\ running \in Seq(Requests) /\ waiting \in Seq(Requests)
      /\ step \in StepRec /\ step.index \in Nat \ {0}
      /\ req \in [Requests -> ReqRec] /\ free \in Nat
  BY <1>1, StepFacts DEF Types
<1>4. Len(running) \in DOMAIN running /\ v \in Requests /\ Len(running) \in Nat
  <2>1. step.index <= Len(running)
    BY <1>2
  <2>2. Len(running) \in DOMAIN running /\ Len(running) \in Nat
    BY <1>3, <2>1
  <2> QED BY ONLY <1>3, <2>2
<1>5. v \in ToSet(running) /\ req[v].status = "RUNNING"
  <2>1. v \in ToSet(running)
    BY <1>4 DEF ToSet
  <2> QED BY <1>1, <2>1 DEF QueuesInv
<1>6. \A j \in DOMAIN running : running[j] = v => j = Len(running)
  BY <1>1, <1>4 DEF QueuesInv, IsInjective
<1> HIDE DEF v
<1>7. /\ left \in Seq(Requests) /\ ToSet(left) = ToSet(running) \ {v}
      /\ Len(left) <= Len(running) /\ IsInjective(left)
      /\ \A m \in 0 .. Len(running) : (\A j \in 1 .. m : running[j] \notin {v}) =>
           /\ m <= Len(left)
           /\ \A j \in 1 .. m : left[j] = running[j]
  <2>1. IsInjective(running)
    BY <1>1 DEF QueuesInv
  <2>2. running \in Seq(Requests)
    BY <1>3
  <2> DEFINE gone == {v}
  <2> HIDE DEF gone
  <2>3. /\ Without(running, gone) \in Seq(Requests)
        /\ ToSet(Without(running, gone)) = ToSet(running) \ gone
        /\ Len(Without(running, gone)) <= Len(running) /\ IsInjective(Without(running, gone))
        /\ \A m \in 0 .. Len(running) : (\A j \in 1 .. m : running[j] \notin gone) =>
             /\ m <= Len(Without(running, gone))
             /\ \A j \in 1 .. m : Without(running, gone)[j] = running[j]
    BY ONLY <2>1, <2>2, WithoutFacts
  <2>4. left = Without(running, gone) /\ gone = {v}
    BY DEF gone
  <2> HIDE DEF left
  <2> QED BY ONLY <2>3, <2>4
<1> HIDE DEF left
<1>8. /\ <<v>> \o waiting \in Seq(Requests)
      /\ ToSet(<<v>> \o waiting) = {v} \cup ToSet(waiting)
      /\ IsInjective(waiting) /\ v \notin ToSet(waiting) => IsInjective(<<v>> \o waiting)
  <2>1. <<v>> \in Seq(Requests) /\ ToSet(<<v>>) = {v} /\ IsInjective(<<v>>)
    BY <1>4, SingleFacts
  <2>2. /\ <<v>> \o waiting \in Seq(Requests)
        /\ ToSet(<<v>> \o waiting) = ToSet(<<v>>) \cup ToSet(waiting)
        /\ IsInjective(<<v>>) /\ IsInjective(waiting) /\ ToSet(<<v>>) \cap ToSet(waiting) = {}
             => IsInjective(<<v>> \o waiting)
    <3>1. waiting \in Seq(Requests) /\ <<v>> \in Seq(Requests)
      BY <1>3, <2>1
    <3> QED BY ONLY <3>1, ConcatFacts, Zenon
  <2> QED BY <2>1, <2>2
<1>9. /\ step' \in StepRec /\ step'.n = step.n /\ step'.skipped = step.skipped
      /\ step'.budget = step.budget /\ step'.prefill_used = step.prefill_used
      /\ step'.prefill_budget = step.prefill_budget /\ step'.index = step.index
  <2>1. step' = Preempting(step)
    BY <1>2, Zenon DEF Preempting
  <2> QED BY <1>3, <2>1, PreemptingFacts
<1>10. /\ req' \in [Requests -> ReqRec] /\ req'[v].status = "PREEMPTED"
       /\ req'[v].in_flight = req[v].in_flight /\ req'[v].stale = req[v].in_flight
       /\ req'[v].blocks = 0
       /\ \A q \in Requests : q # v => req'[q] = req[q]
  <2>1. req'[v] = Preempted(req[v], FALSE) /\ \A q \in Requests : q # v => req'[q] = req[q]
    BY <1>2, <1>3, <1>4
  <2>2. req[v] \in ReqRec
    BY <1>3, <1>4
  <2>3. /\ req'[v] \in ReqRec /\ req'[v].status = "PREEMPTED"
        /\ req'[v].in_flight = req[v].in_flight /\ req'[v].stale = req[v].in_flight
        /\ req'[v].blocks = 0
    BY <2>1, <2>2, PreemptedFacts
  <2>4. req' \in [Requests -> ReqRec]
    BY <1>2, <1>3, <2>1, <2>3
  <2> QED BY <2>1, <2>3, <2>4
<1>11. BlocksConserved' /\ free' \in Nat
  <2>1. BlocksOf({v}) = req[v].blocks
    BY <1>1, <1>4, BlocksOfOne
  <2>2. {v} \in SUBSET Requests /\ free' = free + BlocksOf({v})
    BY <1>2, <1>4, <2>1
  <2>3. \A q \in Requests : req'[q].blocks = IF q \in {v} THEN 0 ELSE req[q].blocks
    BY <1>10
  <2>4. \A q \in Requests : req'[q].status # "RUNNING" => q \in {v} \/ req[q].status # "RUNNING"
    BY <1>10
  <2> QED BY <1>1, <2>2, <2>3, <2>4, BlocksGive
<1>12. Types'
  BY <1>1, <1>2, <1>7, <1>8, <1>9, <1>10, <1>11 DEF Types
<1>13. QueuesInv'
  <2>1. v \notin Parked
    BY <1>5 DEF Parked
  <2>2. Parked' = Parked \cup {v}
    BY <1>4, <1>10 DEF Parked
  <2>3. {r \in Requests : req'[r].status = "RUNNING"}
          = {r \in Requests : req[r].status = "RUNNING"} \ {v}
    BY <1>10
  <2>4. step.skipped = <<>> /\ step'.skipped = <<>>
    BY <1>1, <1>2, <1>9 DEF QueuesInv
  <2>5. v \notin ToSet(waiting) /\ v \notin ToSet(skipped_waiting) /\ v \notin ToSet(step.skipped)
    BY <1>1, <2>1 DEF QueuesInv
  <2>6. IsInjective(left) /\ IsInjective(<<v>> \o waiting) /\ ToSet(left) = ToSet(running) \ {v}
        /\ ToSet(<<v>> \o waiting) = {v} \cup ToSet(waiting)
    BY <1>1, <1>7, <1>8, <2>5 DEF QueuesInv
  <2>7. running' = left /\ waiting' = <<v>> \o waiting /\ skipped_waiting' = skipped_waiting
        /\ step'.skipped = step.skipped
    BY <1>2, <1>9
  <2> QED BY <1>1, <2>2, <2>3, <2>4, <2>5, <2>6, <2>7 DEF QueuesInv
<1>14. StaleIsOldest' /\ NewInv'
  <2>1. \A q \in Requests : req'[q].status \in {"WAITING", "RUNNING", "PREEMPTED"}
           => /\ req[q].status \in {"WAITING", "RUNNING", "PREEMPTED"}
              /\ req'[q].in_flight = req[q].in_flight
              /\ req'[q].stale \in {req[q].stale, req[q].in_flight}
    BY <1>5, <1>10
  <2>2. \A q \in Requests : req'[q].status = "NEW" => req[q].status = "NEW"
    BY <1>10
  <2> QED BY <1>2, <2>1, <2>2, StaleFrame DEF IInv
<1>15. ASSUME NEW q \in Requests, step.n[q] # 0
       PROVE  q # v /\ \E i \in DOMAIN left : i < step.index /\ left[i] = q
  <2>1. PICK i \in DOMAIN running : i < step.index /\ running[i] = q
    BY <1>1, <1>2, <1>15 DEF StepInv
  <2>2. i \in 1 .. Len(running) - 1 /\ i \in Nat
    <3>1. step.index <= Len(running)
      BY <1>2
    <3> QED BY ONLY <1>3, <2>1, <3>1
  <2>3. q # v
    BY <1>4, <1>6, <2>1, <2>2
  <2>4. \A j \in 1 .. Len(running) - 1 : running[j] \notin {v}
    <3>1. \A j \in 1 .. Len(running) - 1 : j \in DOMAIN running /\ j # Len(running)
      BY <1>3, <1>4
    <3> QED BY <1>6, <3>1
  <2>5. PICK m \in 0 .. Len(running) : m = Len(running) - 1
    BY <2>2
  <2>6. m <= Len(left) /\ \A j \in 1 .. m : left[j] = running[j]
    BY <1>7, <2>4, <2>5
  <2>7. i \in DOMAIN left /\ left[i] = running[i]
    BY <1>7, <2>2, <2>5, <2>6
  <2> QED BY <2>1, <2>3, <2>7
<1>16. StepInv'
  <2>1. ScheduledStayRunning'
    BY <1>1, <1>9, <1>10, <1>15 DEF StepInv, ScheduledStayRunning
  <2>2. Len(running') <= max_num_running_reqs
    BY <1>1, <1>2, <1>3, <1>7 DEF StepInv
  <2> QED BY <1>1, <1>2, <1>9, <1>15, <2>1, <2>2 DEF StepInv
<1> QED BY <1>11, <1>12, <1>13, <1>14, <1>16 DEF IInv

(* The WAITING loop takes the next request from one of the two queues.     *)
LEMMA PopFacts ==
  ASSUME Types, QueuesInv, skipped_waiting \o waiting # <<>>, PopWaiting
  PROVE  /\ NextWaiting \in Parked /\ NextWaiting \notin ToSet(step.skipped)
         /\ waiting' \in Seq(Requests) /\ skipped_waiting' \in Seq(Requests)
         /\ IsInjective(waiting') /\ IsInjective(skipped_waiting')
         /\ ToSet(waiting') \subseteq ToSet(waiting) \ {NextWaiting}
         /\ ToSet(skipped_waiting') \subseteq ToSet(skipped_waiting) \ {NextWaiting}
         /\ ToSet(waiting') \cup ToSet(skipped_waiting') \cup {NextWaiting}
              = ToSet(waiting) \cup ToSet(skipped_waiting)
<1>1. waiting \in Seq(Requests) /\ skipped_waiting \in Seq(Requests)
  BY DEF Types
<1>2. /\ IsInjective(waiting) /\ IsInjective(skipped_waiting)
      /\ ToSet(waiting) \cap ToSet(skipped_waiting) = {}
      /\ ToSet(waiting) \cap ToSet(step.skipped) = {}
      /\ ToSet(skipped_waiting) \cap ToSet(step.skipped) = {}
      /\ ToSet(waiting) \cup ToSet(skipped_waiting) \cup ToSet(step.skipped) = Parked
  BY DEF QueuesInv
<1>3. CASE skipped_waiting # <<>>
  <2>1. skipped_waiting' = Tail(skipped_waiting) /\ waiting' = waiting
    BY <1>3 DEF PopWaiting
  <2>2. NextWaiting = Head(skipped_waiting)
    BY <1>1, <1>3 DEF NextWaiting
  <2>3. /\ Tail(skipped_waiting) \in Seq(Requests)
        /\ ToSet(skipped_waiting) = {Head(skipped_waiting)} \cup ToSet(Tail(skipped_waiting))
        /\ IsInjective(Tail(skipped_waiting))
        /\ Head(skipped_waiting) \notin ToSet(Tail(skipped_waiting))
    BY <1>1, <1>2, <1>3, TailFacts
  <2> QED BY <1>1, <1>2, <2>1, <2>2, <2>3
<1>4. CASE skipped_waiting = <<>>
  <2>1. waiting' = Tail(waiting) /\ skipped_waiting' = skipped_waiting
    BY <1>4 DEF PopWaiting
  <2>2. skipped_waiting \o waiting = waiting
    BY <1>1, <1>4
  <2>3. NextWaiting = Head(waiting) /\ waiting # <<>>
    BY <2>2 DEF NextWaiting
  <2>4. /\ Tail(waiting) \in Seq(Requests)
        /\ ToSet(waiting) = {Head(waiting)} \cup ToSet(Tail(waiting))
        /\ IsInjective(Tail(waiting))
        /\ Head(waiting) \notin ToSet(Tail(waiting))
    BY <1>1, <1>2, <2>3, TailFacts
  <2> QED BY <1>1, <1>2, <2>1, <2>3, <2>4
<1> QED BY <1>3, <1>4

(* A request whose stale output is in flight is set aside.                 *)
LEMMA WaitingSkipStep ==
  ASSUME IInv, WaitingSkip
  PROVE  IInv'
<1> DEFINE r == NextWaiting
           aside == Append(step.skipped, r)
<1>1. Types /\ QueuesInv /\ StepInv /\ BlocksConserved
  BY DEF IInv
<1>2. /\ pc = "waiting" /\ skipped_waiting \o waiting # <<>> /\ PopWaiting
      /\ step' = [step EXCEPT !.skipped = Append(@, r)]
      /\ UNCHANGED <<req, running, free, pc, batches>>
  BY DEF WaitingSkip, InWaitingLoop
<1>3. /\ r \in Parked /\ r \notin ToSet(step.skipped)
      /\ waiting' \in Seq(Requests) /\ skipped_waiting' \in Seq(Requests)
      /\ IsInjective(waiting') /\ IsInjective(skipped_waiting')
      /\ ToSet(waiting') \subseteq ToSet(waiting) \ {r}
      /\ ToSet(skipped_waiting') \subseteq ToSet(skipped_waiting) \ {r}
      /\ ToSet(waiting') \cup ToSet(skipped_waiting') \cup {r}
           = ToSet(waiting) \cup ToSet(skipped_waiting)
  BY <1>1, <1>2, PopFacts
<1>4. r \in Requests /\ step \in StepRec /\ step.skipped \in Seq(Requests)
  BY <1>1, <1>3, StepFacts DEF Parked, Types
<1> HIDE DEF r
<1>5. /\ aside \in Seq(Requests) /\ ToSet(aside) = ToSet(step.skipped) \cup {r}
      /\ IsInjective(aside)
  <2>1. IsInjective(step.skipped)
    BY <1>1 DEF QueuesInv
  <2> QED BY <1>3, <1>4, <2>1, AppendFacts
<1>6. /\ step' \in StepRec /\ step'.n = step.n /\ step'.skipped = aside
      /\ step'.budget = step.budget /\ step'.prefill_used = step.prefill_used
      /\ step'.prefill_budget = step.prefill_budget
  <2>1. step' = Skipping(step, aside)
    BY <1>2, Zenon DEF Skipping
  <2> HIDE DEF aside
  <2> QED BY <1>4, <1>5, <2>1, SkippingFacts
<1> HIDE DEF aside
<1>7. Types'
  BY <1>1, <1>2, <1>3, <1>6 DEF Types
<1>8. QueuesInv'
  <2>1. /\ UNCHANGED <<req, running, pc>> /\ pc = "waiting"
    BY <1>2
  <2>2. Parked' = Parked
    BY <2>1 DEF Parked
  <2>3. /\ IsInjective(running) /\ ToSet(running) = {q \in Requests : req[q].status = "RUNNING"}
        /\ ToSet(waiting) \cap ToSet(skipped_waiting) = {}
        /\ ToSet(waiting) \cap ToSet(step.skipped) = {}
        /\ ToSet(skipped_waiting) \cap ToSet(step.skipped) = {}
        /\ ToSet(waiting) \cup ToSet(skipped_waiting) \cup ToSet(step.skipped) = Parked
    BY <1>1 DEF QueuesInv
  <2>4. step'.skipped = aside
    BY <1>6
  <2>5. /\ ToSet(waiting') \cap ToSet(skipped_waiting') = {}
        /\ ToSet(waiting') \cap ToSet(aside) = {}
        /\ ToSet(skipped_waiting') \cap ToSet(aside) = {}
        /\ ToSet(waiting') \cup ToSet(skipped_waiting') \cup ToSet(aside) = Parked
    BY ONLY <1>3, <1>5, <2>3
  <2> QED BY ONLY <1>3, <1>5, <2>1, <2>2, <2>3, <2>4, <2>5 DEF QueuesInv
<1>9. BlocksConserved' /\ StaleIsOldest' /\ NewInv'
  BY <1>2, BlocksFrame, StaleFrame DEF IInv
<1>10. StepInv'
  BY <1>1, <1>2, <1>6 DEF StepInv, ScheduledStayRunning
<1> QED BY <1>7, <1>8, <1>9, <1>10 DEF IInv

(* The end of the WAITING loop puts what was set aside back in front.      *)
LEMMA WaitingDoneStep ==
  ASSUME IInv, NEW hit, WaitingDone(hit)
  PROVE  IInv'
<1> DEFINE back == step.skipped \o skipped_waiting
<1>1. Types /\ QueuesInv /\ StepInv /\ BlocksConserved
  BY DEF IInv
<1>2. /\ pc = "waiting" /\ pc' = "finish" /\ skipped_waiting' = back
      /\ step' = [step EXCEPT !.skipped = <<>>]
      /\ UNCHANGED <<req, running, waiting, free, batches>>
  BY DEF WaitingDone, Requeued
<1>3. step \in StepRec /\ step.skipped \in Seq(Requests) /\ skipped_waiting \in Seq(Requests)
  BY <1>1, StepFacts DEF Types
<1>4. /\ IsInjective(running) /\ IsInjective(waiting) /\ IsInjective(skipped_waiting)
      /\ IsInjective(step.skipped)
      /\ ToSet(running) = {q \in Requests : req[q].status = "RUNNING"}
      /\ ToSet(waiting) \cap ToSet(skipped_waiting) = {}
      /\ ToSet(waiting) \cap ToSet(step.skipped) = {}
      /\ ToSet(skipped_waiting) \cap ToSet(step.skipped) = {}
      /\ ToSet(waiting) \cup ToSet(skipped_waiting) \cup ToSet(step.skipped) = Parked
  BY <1>1 DEF QueuesInv
<1>5. /\ back \in Seq(Requests) /\ ToSet(back) = ToSet(step.skipped) \cup ToSet(skipped_waiting)
      /\ IsInjective(back)
  <2>1. /\ back \in Seq(Requests) /\ ToSet(back) = ToSet(step.skipped) \cup ToSet(skipped_waiting)
        /\ IsInjective(step.skipped) /\ IsInjective(skipped_waiting)
           /\ ToSet(step.skipped) \cap ToSet(skipped_waiting) = {} => IsInjective(back)
    BY ONLY <1>3, ConcatFacts, Zenon
  <2> QED BY <1>4, <2>1
<1> HIDE DEF back
<1>6. /\ step' \in StepRec /\ step'.n = step.n /\ step'.skipped = <<>>
      /\ step'.budget = step.budget /\ step'.prefill_used = step.prefill_used
      /\ step'.prefill_budget = step.prefill_budget
  <2>1. step' = Skipping(step, <<>>) /\ <<>> \in Seq(Requests)
    BY <1>2 DEF Skipping
  <2> QED BY <1>3, <2>1, SkippingFacts
<1>7. Types'
  BY <1>1, <1>2, <1>5, <1>6 DEF Types
<1>8. QueuesInv'
  <2>1. Parked' = Parked /\ UNCHANGED <<req, running, waiting>> /\ skipped_waiting' = back
        /\ step'.skipped = <<>>
    BY <1>2, <1>6 DEF Parked
  <2>2. ToSet(<<>>) = {} /\ IsInjective(<<>>)
    BY DEF ToSet, IsInjective
  <2>3. /\ ToSet(waiting) \cap ToSet(back) = {}
        /\ ToSet(waiting) \cup ToSet(back) = Parked
    BY ONLY <1>4, <1>5
  <2> QED BY ONLY <1>4, <1>5, <2>1, <2>2, <2>3 DEF QueuesInv
<1>9. BlocksConserved' /\ StaleIsOldest' /\ NewInv'
  BY <1>2, BlocksFrame, StaleFrame DEF IInv
<1>10. StepInv'
  BY <1>1, <1>2, <1>6 DEF StepInv, ScheduledStayRunning
<1> QED BY <1>7, <1>8, <1>9, <1>10 DEF IInv

(* What the WAITING loop writes when it admits request r with a share of n.*)
AdmitWrites(hit, r, n, missing) ==
  /\ r = NextWaiting /\ n = WaitingTokens(r, hit) /\ missing = Missing(r, hit, n)
  /\ pc = "waiting" /\ Len(running) < max_num_running_reqs
  /\ running' = Append(running, r) /\ UNCHANGED <<pc, batches>>
  /\ r \in Parked /\ r \notin ToSet(step.skipped)
  /\ waiting' \in Seq(Requests) /\ skipped_waiting' \in Seq(Requests)
  /\ IsInjective(waiting') /\ IsInjective(skipped_waiting')
  /\ ToSet(waiting') \subseteq ToSet(waiting) \ {r}
  /\ ToSet(skipped_waiting') \subseteq ToSet(skipped_waiting) \ {r}
  /\ ToSet(waiting') \cup ToSet(skipped_waiting') \cup {r}
       = ToSet(waiting) \cup ToSet(skipped_waiting)
  /\ r \in Requests /\ req[r].status \in {"WAITING", "PREEMPTED"}
  /\ n \in Int /\ n <= step.budget
  /\ enable_decode_aware_prefill => n <= step.prefill_budget - step.prefill_used
  /\ missing \in Nat /\ missing <= free /\ free' = free - missing
  /\ step' \in StepRec /\ step'.n = [step.n EXCEPT ![r] = n]
  /\ step'.spec = [step.spec EXCEPT ![r] = IF Padded(r, hit) THEN num_spec_tokens ELSE 0]
  /\ step'.resumed = step.resumed \cup {r}
  /\ step'.skipped = step.skipped /\ step'.budget = step.budget - n
  /\ step'.prefill_used = (IF enable_decode_aware_prefill THEN step.prefill_used + n
                           ELSE step.prefill_used)
  /\ step'.prefill_budget = step.prefill_budget
  /\ req' \in [Requests -> ReqRec]
  /\ req'[r] = Running(req[r], hit, req[r].blocks + missing)
  /\ req'[r].status = "RUNNING" /\ req'[r].in_flight = req[r].in_flight
  /\ req'[r].stale = req[r].stale /\ req'[r].blocks = req[r].blocks + missing
  /\ \A q \in Requests : q # r => req'[q] = req[q]

(* It writes that.                                                         *)
LEMMA AdmitWritesThat ==
  ASSUME Types, QueuesInv, NEW hit \in Int, Admit(hit)
  PROVE  \E r, n, missing : AdmitWrites(hit, r, n, missing)
<1> USE Constants
<1>0. PICK r, n, missing : /\ r = NextWaiting /\ n = WaitingTokens(r, hit)
                           /\ missing = Missing(r, hit, n)
  OBVIOUS
<1> DEFINE drafts == IF Padded(r, hit) THEN num_spec_tokens ELSE 0
           used == IF enable_decode_aware_prefill THEN step.prefill_used + n
                   ELSE step.prefill_used
<1>1. Types /\ QueuesInv
  OBVIOUS
<1>2. /\ pc = "waiting" /\ skipped_waiting \o waiting # <<>>
      /\ Len(running) < max_num_running_reqs
      /\ CanAdmit(r, hit, n) /\ PopWaiting
      /\ free' = free - missing /\ running' = Append(running, r)
      /\ UNCHANGED <<pc, batches>>
  BY <1>0 DEF Admit, InWaitingLoop, Admissible
<1>3. /\ req' = [req EXCEPT ![r].status = "RUNNING", ![r].computed = hit,
                            ![r].blocks = @ + missing]
      /\ step' = [step EXCEPT
              !.budget = @ - n, !.n[r] = n, !.resumed = @ \cup {r}, !.spec[r] = drafts,
              !.prefill_used = IF enable_decode_aware_prefill THEN @ + n ELSE @]
  BY <1>0 DEF Admit
<1>4. /\ r \in Parked /\ r \notin ToSet(step.skipped)
      /\ waiting' \in Seq(Requests) /\ skipped_waiting' \in Seq(Requests)
      /\ IsInjective(waiting') /\ IsInjective(skipped_waiting')
      /\ ToSet(waiting') \subseteq ToSet(waiting) \ {r}
      /\ ToSet(skipped_waiting') \subseteq ToSet(skipped_waiting) \ {r}
      /\ ToSet(waiting') \cup ToSet(skipped_waiting') \cup {r}
           = ToSet(waiting) \cup ToSet(skipped_waiting)
  BY <1>0, <1>1, <1>2, PopFacts
<1>5. /\ r \in Requests /\ req[r].status \in {"WAITING", "PREEMPTED"} /\ step \in StepRec
      /\ running \in Seq(Requests) /\ req \in [Requests -> ReqRec]
      /\ free \in Nat
  BY <1>1, <1>4 DEF Parked, Types
<1>6. /\ n \in Int /\ n <= step.budget
      /\ enable_decode_aware_prefill => n <= step.prefill_budget - step.prefill_used
  BY <1>0, <1>1, <1>5, WaitingTokensFacts
<1>7. missing \in Nat
  BY <1>0, <1>1, <1>5, <1>6, MissingNat
<1>8. missing <= free
  <2>1. missing + (IF running # <<>> THEN watermark_blocks ELSE 0) <= free
    BY <1>0, <1>2 DEF CanAdmit
  <2> QED BY <1>5, <1>7, <2>1
<1>9. drafts \in Int
  OBVIOUS
<1> HIDE DEF drafts
<1>10. /\ step' \in StepRec /\ step'.n = [step.n EXCEPT ![r] = n]
       /\ step'.spec = [step.spec EXCEPT ![r] = drafts]
       /\ step'.resumed = step.resumed \cup {r}
       /\ step'.skipped = step.skipped /\ step'.budget = step.budget - n
       /\ step'.prefill_used = used /\ step'.prefill_budget = step.prefill_budget
  <2>1. step' = Admitted(step, step.budget - n, [step.n EXCEPT ![r] = n],
                         step.resumed \cup {r}, [step.spec EXCEPT ![r] = drafts], used)
    BY <1>3, Zenon DEF Admitted
  <2>2. step.budget - n \in Nat
    BY <1>1, <1>6, StepFacts
  <2>3. [step.n EXCEPT ![r] = n] \in [Requests -> Int]
        /\ [step.spec EXCEPT ![r] = drafts] \in [Requests -> Int]
        /\ step.resumed \cup {r} \in SUBSET Requests
    BY <1>1, <1>5, <1>6, <1>9, StepFacts
  <2>4. used \in Int
    BY <1>1, <1>6, StepFacts
  <2> HIDE DEF used
  <2>5. PICK budget \in Nat, shares \in [Requests -> Int], spec \in [Requests -> Int],
             resumed \in SUBSET Requests :
          /\ budget = step.budget - n /\ shares = [step.n EXCEPT ![r] = n]
          /\ spec = [step.spec EXCEPT ![r] = drafts] /\ resumed = step.resumed \cup {r}
    BY <2>2, <2>3, Zenon
  <2>6. step' = Admitted(step, budget, shares, resumed, spec, used)
    BY <2>1, <2>5, Zenon
  <2>7. /\ step' \in StepRec /\ step'.n = shares /\ step'.skipped = step.skipped
        /\ step'.budget = budget
        /\ step'.prefill_used = used /\ step'.prefill_budget = step.prefill_budget
        /\ step'.spec = spec /\ step'.resumed = resumed
    <3>1. step \in StepRec /\ used \in Int
      BY <1>5, <2>4
    <3>2. ASSUME NEW s \in StepRec, NEW i \in Int
          PROVE  LET u == Admitted(s, budget, shares, resumed, spec, i) IN
                 /\ u \in StepRec /\ u.n = shares /\ u.skipped = s.skipped
                 /\ u.budget = budget
                 /\ u.prefill_used = i /\ u.prefill_budget = s.prefill_budget
                 /\ u.spec = spec /\ u.resumed = resumed
      BY ONLY <2>5, AdmittedFacts
    <3> QED BY ONLY <2>6, <3>1, <3>2
  <2> QED BY <2>5, <2>7, Zenon
<1>11. /\ req' \in [Requests -> ReqRec]
       /\ req'[r] = Running(req[r], hit, req[r].blocks + missing)
       /\ req'[r].status = "RUNNING" /\ req'[r].in_flight = req[r].in_flight
       /\ req'[r].stale = req[r].stale /\ req'[r].blocks = req[r].blocks + missing
       /\ \A q \in Requests : q # r => req'[q] = req[q]
  <2>1. req[r].blocks + missing \in Nat /\ req[r] \in ReqRec
    BY <1>1, <1>5, <1>7, ReqFacts
  <2>2. req' = [req EXCEPT ![r] = Running(req[r], hit, req[r].blocks + missing)]
    BY <1>3, <1>5 DEF Running
  <2>3. req'[r] = Running(req[r], hit, req[r].blocks + missing)
        /\ \A q \in Requests : q # r => req'[q] = req[q]
    BY <1>5, <2>2
  <2>4. /\ req'[r] \in ReqRec
        /\ req'[r].status = "RUNNING" /\ req'[r].in_flight = req[r].in_flight
        /\ req'[r].stale = req[r].stale /\ req'[r].blocks = req[r].blocks + missing
    <3>1. hit \in Int
      OBVIOUS
    <3>2. PICK blocks \in Nat : blocks = req[r].blocks + missing
      BY <2>1
    <3>3. req'[r] = Running(req[r], hit, blocks)
      BY <2>3, <3>2
    <3>4. ASSUME NEW q \in ReqRec, NEW h \in Int
          PROVE  LET u == Running(q, h, blocks) IN
                 /\ u \in ReqRec /\ u.status = "RUNNING" /\ u.in_flight = q.in_flight
                 /\ u.stale = q.stale /\ u.blocks = blocks
      BY ONLY <3>2, RunningFacts
    <3> QED BY ONLY <2>1, <3>1, <3>2, <3>3, <3>4
  <2>5. req' \in [Requests -> ReqRec]
    BY <1>5, <2>2, <2>3, <2>4
  <2> QED BY <2>3, <2>4, <2>5
<1>12. AdmitWrites(hit, r, n, missing)
  BY <1>0, <1>2, <1>4, <1>5, <1>6, <1>7, <1>8, <1>10, <1>11 DEF used, drafts, AdmitWrites
<1> QED BY <1>12

(* A waiting request is admitted: it has no tokens of this step, because   *)
(* those that have are running.                                            *)
LEMMA AdmitStep ==
  ASSUME IInv, NEW hit \in Int, Admit(hit)
  PROVE  IInv'
<1> USE Constants
<1>0. PICK r, n, missing : AdmitWrites(hit, r, n, missing)
  BY AdmitWritesThat DEF IInv
<1> DEFINE used == IF enable_decode_aware_prefill THEN step.prefill_used + n
                   ELSE step.prefill_used
           more == Append(running, r)
<1>1. Types /\ QueuesInv /\ StepInv /\ BlocksConserved
  BY DEF IInv
<1>2. /\ pc = "waiting" /\ Len(running) < max_num_running_reqs
      /\ running' = more /\ UNCHANGED <<pc, batches>>
  BY <1>0 DEF AdmitWrites
<1>4. /\ r \in Parked /\ r \notin ToSet(step.skipped)
      /\ waiting' \in Seq(Requests) /\ skipped_waiting' \in Seq(Requests)
      /\ IsInjective(waiting') /\ IsInjective(skipped_waiting')
      /\ ToSet(waiting') \subseteq ToSet(waiting) \ {r}
      /\ ToSet(skipped_waiting') \subseteq ToSet(skipped_waiting) \ {r}
      /\ ToSet(waiting') \cup ToSet(skipped_waiting') \cup {r}
           = ToSet(waiting) \cup ToSet(skipped_waiting)
  BY <1>0 DEF AdmitWrites
<1>5. /\ r \in Requests /\ req[r].status \in {"WAITING", "PREEMPTED"}
      /\ running \in Seq(Requests)
  BY <1>0, <1>1 DEF AdmitWrites, Types
<1>6. /\ n \in Int /\ n <= step.budget
      /\ enable_decode_aware_prefill => n <= step.prefill_budget - step.prefill_used
      /\ missing \in Nat /\ missing <= free /\ free' = free - missing
  BY <1>0 DEF AdmitWrites
<1>10. /\ step' \in StepRec /\ step'.n = [step.n EXCEPT ![r] = n]
       /\ step'.skipped = step.skipped /\ step'.budget = step.budget - n
       /\ step'.prefill_used = used /\ step'.prefill_budget = step.prefill_budget
  BY <1>0 DEF AdmitWrites
<1>11. /\ req' \in [Requests -> ReqRec]
       /\ req'[r].status = "RUNNING" /\ req'[r].in_flight = req[r].in_flight
       /\ req'[r].stale = req[r].stale /\ req'[r].blocks = req[r].blocks + missing
       /\ \A q \in Requests : q # r => req'[q] = req[q]
  BY <1>0 DEF AdmitWrites
<1>12. BlocksConserved' /\ free' \in Nat
  BY <1>1, <1>5, <1>6, <1>11, BlocksTake
<1>13. /\ more \in Seq(Requests) /\ ToSet(more) = ToSet(running) \cup {r}
       /\ Len(more) = Len(running) + 1
       /\ IsInjective(running) /\ r \notin ToSet(running) => IsInjective(more)
  BY ONLY <1>5, AppendFacts
<1> HIDE DEF more
<1>14. Types'
  BY <1>1, <1>2, <1>4, <1>10, <1>11, <1>12, <1>13 DEF Types
<1>15. QueuesInv'
  <2>1. /\ IsInjective(running) /\ IsInjective(step.skipped)
        /\ ToSet(running) = {q \in Requests : req[q].status = "RUNNING"}
        /\ ToSet(waiting) \cap ToSet(skipped_waiting) = {}
        /\ ToSet(waiting) \cap ToSet(step.skipped) = {}
        /\ ToSet(skipped_waiting) \cap ToSet(step.skipped) = {}
        /\ ToSet(waiting) \cup ToSet(skipped_waiting) \cup ToSet(step.skipped) = Parked
    BY <1>1 DEF QueuesInv
  <2>2. r \notin ToSet(running)
    BY <1>5, <2>1
  <2>3. Parked' = Parked \ {r}
    BY <1>5, <1>11 DEF Parked
  <2>4. {q \in Requests : req'[q].status = "RUNNING"}
          = {q \in Requests : req[q].status = "RUNNING"} \cup {r}
    BY <1>5, <1>11
  <2>5. /\ IsInjective(more) /\ ToSet(more) = ToSet(running) \cup {r}
        /\ ToSet(waiting') \cap ToSet(skipped_waiting') = {}
        /\ ToSet(waiting') \cap ToSet(step.skipped) = {}
        /\ ToSet(skipped_waiting') \cap ToSet(step.skipped) = {}
        /\ ToSet(waiting') \cup ToSet(skipped_waiting') \cup ToSet(step.skipped) = Parked \ {r}
    BY ONLY <1>4, <1>13, <2>1, <2>2
  <2>6. running' = more /\ step'.skipped = step.skipped /\ pc' = "waiting"
    BY <1>2, <1>10
  <2> QED BY ONLY <1>4, <2>1, <2>3, <2>4, <2>5, <2>6 DEF QueuesInv
<1>16. StaleIsOldest' /\ NewInv'
  <2>1. \A q \in Requests : req'[q].status \in {"WAITING", "RUNNING", "PREEMPTED"}
           => /\ req[q].status \in {"WAITING", "RUNNING", "PREEMPTED"}
              /\ req'[q].in_flight = req[q].in_flight
              /\ req'[q].stale \in {req[q].stale, req[q].in_flight}
    BY <1>5, <1>11
  <2>2. \A q \in Requests : req'[q].status = "NEW" => req[q].status = "NEW"
    BY <1>11
  <2> QED BY <1>2, <2>1, <2>2, StaleFrame DEF IInv
<1>17. step.n[r] = 0
  BY <1>1, <1>5 DEF StepInv, ScheduledStayRunning
<1>18. StepInv'
  <2>1. step'.budget + SumFunctionOnSet(step'.n, Requests) <= max_num_scheduled_tokens
    BY <1>1, <1>5, <1>6, <1>10, <1>17, GiveSum
  <2>2. enable_decode_aware_prefill => step'.prefill_used <= step'.prefill_budget
    <3>1. step.prefill_used \in Int /\ step.prefill_budget \in Int
      BY <1>1, StepFacts
    <3>2. /\ n \in Int
          /\ enable_decode_aware_prefill =>
               n <= step.prefill_budget - step.prefill_used
               /\ step'.prefill_used = step.prefill_used + n
          /\ step'.prefill_budget = step.prefill_budget
      BY <1>6, <1>10 DEF used
    <3> QED BY ONLY <3>1, <3>2
  <2>3. \A q \in Requests : step'.n[q] = IF q = r THEN n ELSE step.n[q]
    BY <1>1, <1>10, StepFacts
  <2>4. ScheduledStayRunning'
    BY <1>1, <1>11, <2>3 DEF StepInv, ScheduledStayRunning
  <2>5. Len(running') <= max_num_running_reqs /\ pc' = "waiting"
    BY <1>2, <1>5, <1>13
  <2> QED BY <2>1, <2>2, <2>4, <2>5 DEF StepInv
<1> QED BY <1>12, <1>14, <1>15, <1>16, <1>18 DEF IInv

(* The end of schedule(): what was given out becomes the newest batch.     *)
LEMMA FinishStep ==
  ASSUME IInv, FinishSchedule
  PROVE  IInv'
<1> USE Constants, NothingFacts
<1> DEFINE scheduled == {r \in Requests : step.n[r] # 0}
           after == [r \in Requests |->
                       IF r \in scheduled
                       THEN AddPlaceholders(UpdateAfterSchedule(req[r], step.n[r]), step.spec[r])
                       ELSE req[r]]
           batch == [n |-> step.n, spec |-> step.spec,
                     samples |-> {r \in scheduled : ~ after[r].chunk},
                     resumed |-> [r \in Requests |->
                                    IF r \in step.resumed THEN req[r].tokens ELSE 0]]
<1>1. Types /\ QueuesInv /\ StepInv /\ BlocksConserved /\ NewInv /\ StaleIsOldest
  BY DEF IInv
<1>2. /\ pc = "finish" /\ pc' = "idle" /\ step' = NoStep /\ UNCHANGED <<queues, free>>
      /\ req' = after
      /\ batches' = IF scheduled = {} THEN batches ELSE Append(batches, batch)
  BY DEF FinishSchedule
<1>3. /\ req \in [Requests -> ReqRec] /\ batches \in Seq(BatchRec)
      /\ step.n \in [Requests -> Int] /\ step.spec \in [Requests -> Int]
      /\ Len(batches) \in Nat
  BY <1>1, StepFacts DEF Types
<1>4. ASSUME NEW r \in Requests
      PROVE  /\ after[r] \in ReqRec /\ after[r].status = req[r].status
             /\ after[r].blocks = req[r].blocks /\ after[r].stale = req[r].stale
             /\ after[r].in_flight = req[r].in_flight + step.n[r]
  <2> DEFINE one == UpdateAfterSchedule(req[r], step.n[r])
             two == AddPlaceholders(one, step.spec[r])
  <2>1. after[r] = IF step.n[r] # 0 THEN two ELSE req[r]
    OBVIOUS
  <2>2. req[r] \in ReqRec /\ step.n[r] \in Int /\ step.spec[r] \in Int /\ req[r].in_flight \in Int
    BY <1>1, <1>3, ReqFacts
  <2>3. /\ one \in ReqRec /\ one.status = req[r].status /\ one.blocks = req[r].blocks
        /\ one.in_flight = req[r].in_flight + step.n[r] /\ one.stale = req[r].stale
    BY ONLY <2>2, AfterFacts
  <2> HIDE DEF one
  <2>4. /\ two \in ReqRec /\ two.status = one.status /\ two.blocks = one.blocks
        /\ two.in_flight = one.in_flight /\ two.stale = one.stale
    BY ONLY <2>2, <2>3, PlaceholderFacts
  <2> HIDE DEF two, after
  <2> QED BY ONLY <2>1, <2>2, <2>3, <2>4
<1>5. batch \in BatchRec /\ batch.n = step.n
  <2>1. {r \in scheduled : ~ after[r].chunk} \in SUBSET Requests
    OBVIOUS
  <2>2. [r \in Requests |-> IF r \in step.resumed THEN req[r].tokens ELSE 0] \in [Requests -> Int]
    BY <1>1, ReqFacts
  <2> HIDE DEF after, scheduled
  <2> QED BY ONLY <1>3, <2>1, <2>2 DEF BatchRec
<1> HIDE DEF batch
<1>6. \A r \in Requests :
        /\ req'[r] \in ReqRec /\ req'[r].status = req[r].status
        /\ req'[r].blocks = req[r].blocks /\ req'[r].stale = req[r].stale
        /\ req'[r].in_flight = req[r].in_flight + step.n[r]
  BY <1>2, <1>4
<1>7. req' \in [Requests -> ReqRec]
  BY <1>2, <1>4
<1> HIDE DEF after
<1>8. Types'
  <2>1. batches' \in Seq(BatchRec)
    BY <1>2, <1>3, <1>5
  <2> QED BY <1>1, <1>2, <1>7, <2>1 DEF Types, queues
<1>9. QueuesInv'
  <2>1. step.skipped = <<>> /\ step'.skipped = step.skipped
    BY <1>1, <1>2 DEF QueuesInv
  <2> QED BY <1>1, <1>2, <1>6, <2>1, QueuesFrame
<1>10. BlocksConserved'
  BY <1>1, <1>2, <1>6, BlocksFrame
<1>11. StepInv'
  <2>1. Len(running') <= max_num_running_reqs
    BY <1>1, <1>2 DEF StepInv, queues
  <2> QED BY <1>2, <2>1 DEF StepInv, ScheduledStayRunning
<1>12. NewInv' /\ StaleIsOldest'
  <2>1. CASE scheduled = {}
    <3>1. \A r \in Requests : step.n[r] = 0
      BY <2>1
    <3>2. \A r \in Requests : req[r].in_flight \in Int
      BY <1>1, ReqFacts
    <3>3. \A r \in Requests : req'[r].in_flight = req[r].in_flight
      BY <1>6, <3>1, <3>2
    <3> QED BY <1>1, <1>2, <1>6, <2>1, <3>3, StaleFrame
  <2>2. CASE scheduled # {}
    <3>1. batches' = Append(batches, batch)
      BY <1>2, <2>2
    <3>2. PICK len \in Nat : len = Len(batches)
      BY <1>3
    <3>3. NewInv'
      <4> SUFFICES ASSUME NEW r \in Requests, req'[r].status = "NEW", NEW j \in DOMAIN batches'
                   PROVE  batches'[j].n[r] = 0
        BY DEF NewInv
      <4>1. req[r].status = "NEW" /\ step.n[r] = 0
        BY <1>1, <1>6 DEF StepInv, ScheduledStayRunning
      <4>2. batches'[j] = batch \/ (j \in DOMAIN batches /\ batches'[j] = batches[j])
        <5>1. batches \in Seq(BatchRec) /\ batch \in BatchRec
          BY <1>3, <1>5
        <5>2. DOMAIN batches' = 1 .. len + 1 /\ DOMAIN batches = 1 .. len
          BY ONLY <3>1, <3>2, <5>1
        <5>3. CASE j = len + 1
          BY ONLY <3>1, <3>2, <5>1, <5>3
        <5>4. CASE j # len + 1
          <6>1. j \in 1 .. len
            BY <5>2, <5>4
          <6> QED BY ONLY <3>1, <3>2, <5>1, <5>2, <6>1
        <5> QED BY <5>3, <5>4
      <4> QED BY <1>1, <1>5, <4>1, <4>2 DEF NewInv
    <3>4. ASSUME NEW r \in Requests, Live(r)'
          PROVE  /\ req'[r].in_flight = Shares(r, len + 1)'
                 /\ \E i \in 0 .. len + 1 : req'[r].stale = Shares(r, i)'
      <4>1. Live(r)
        BY <1>6, <3>4 DEF Live
      <4>2. req[r].in_flight = Shares(r, len) /\ \E i \in 0 .. len : req[r].stale = Shares(r, i)
        BY <1>1, <3>2, <4>1 DEF StaleIsOldest
      <4>3. /\ \A i \in 0 .. len : Shares(r, i)' = Shares(r, i)
            /\ Shares(r, len + 1)' = batch.n[r] + Shares(r, len)
            /\ Shares(r, len) \in Int
        BY <1>1, <1>5, <3>1, <3>2, SharesAppend
      <4>4. req'[r].in_flight = Shares(r, len + 1)'
        BY <1>3, <1>5, <1>6, <4>2, <4>3
      <4>5. PICK i \in 0 .. len : req[r].stale = Shares(r, i)
        BY <4>2
      <4>6. i \in 0 .. len + 1 /\ req'[r].stale = Shares(r, i)'
        BY <1>6, <4>3, <4>5
      <4> QED BY <4>4, <4>6
    <3>5. Len(batches') = len + 1
      BY <1>3, <3>1, <3>2
    <3>6. \A r : Shares(r, Len(batches))' = Shares(r, len + 1)'
      BY <3>5 DEF Shares
    <3>7. StaleIsOldest'
      <4> SUFFICES ASSUME NEW r \in Requests, Live(r)'
                   PROVE  /\ req'[r].in_flight = Shares(r, Len(batches))'
                          /\ \E i \in 0 .. Len(batches') : req'[r].stale = Shares(r, i)'
        BY DEF StaleIsOldest
      <4> QED BY <3>4, <3>5, <3>6
    <3> QED BY <3>3, <3>7
  <2> QED BY <2>1, <2>2
<1> QED BY <1>8, <1>9, <1>10, <1>11, <1>12 DEF IInv

(* remove_all on the three queues, between two steps: the requests in S    *)
(* stop, the others keep their status.                                     *)
LEMMA RemoveFromQueues ==
  ASSUME Types, QueuesInv, pc # "waiting", NEW S \in SUBSET Requests,
         running' = Without(running, S), waiting' = Without(waiting, S),
         skipped_waiting' = Without(skipped_waiting, S), step' = step, pc' = pc,
         \A r \in Requests : IF r \in S THEN req'[r].status = "FINISHED"
                             ELSE req'[r].status = req[r].status
  PROVE  /\ QueuesInv' /\ Len(running') <= Len(running)
         /\ running' \in Seq(Requests) /\ waiting' \in Seq(Requests)
         /\ skipped_waiting' \in Seq(Requests)
<1>1. /\ running \in Seq(Requests) /\ waiting \in Seq(Requests)
      /\ skipped_waiting \in Seq(Requests)
  BY DEF Types
<1>2. /\ IsInjective(running) /\ IsInjective(waiting) /\ IsInjective(skipped_waiting)
      /\ step.skipped = <<>>
      /\ ToSet(running) = {r \in Requests : req[r].status = "RUNNING"}
      /\ ToSet(waiting) \cap ToSet(skipped_waiting) = {}
      /\ ToSet(waiting) \cup ToSet(skipped_waiting) \cup ToSet(step.skipped) = Parked
  BY DEF QueuesInv
<1>3. /\ running' \in Seq(Requests) /\ ToSet(running') = ToSet(running) \ S
      /\ IsInjective(running') /\ Len(running') <= Len(running)
  BY <1>1, <1>2, WithoutFacts, Zenon
<1>4. /\ waiting' \in Seq(Requests) /\ ToSet(waiting') = ToSet(waiting) \ S
      /\ IsInjective(waiting')
  BY <1>1, <1>2, WithoutFacts, Zenon
<1>5. /\ skipped_waiting' \in Seq(Requests)
      /\ ToSet(skipped_waiting') = ToSet(skipped_waiting) \ S
      /\ IsInjective(skipped_waiting')
  BY <1>1, <1>2, WithoutFacts, Zenon
<1>6. ToSet(<<>>) = {} /\ IsInjective(<<>>)
  BY DEF ToSet, IsInjective
<1>7. Parked' = Parked \ S
  BY DEF Parked
<1>8. {r \in Requests : req'[r].status = "RUNNING"}
        = {r \in Requests : req[r].status = "RUNNING"} \ S
  OBVIOUS
<1>9. ToSet(waiting') \cup ToSet(skipped_waiting') \cup ToSet(step'.skipped) = Parked \ S
  BY ONLY <1>2, <1>4, <1>5, <1>6, step' = step
<1>10. ToSet(waiting') \cap ToSet(skipped_waiting') = {}
  BY ONLY <1>2, <1>4, <1>5
<1>11. QueuesInv'
  BY ONLY <1>2, <1>3, <1>4, <1>5, <1>6, <1>7, <1>8, <1>9, <1>10, step' = step DEF QueuesInv
<1> QED BY <1>3, <1>4, <1>5, <1>11

(* Between two steps nothing is given out, whatever happens to a request.  *)
LEMMA IdleStep ==
  ASSUME Types, StepInv, pc = "idle", pc' = "idle", step' = step,
         Len(running') \in Int, Len(running') <= Len(running)
  PROVE  StepInv'
<1>1. \A r \in Requests : step'.n[r] = 0
  BY DEF StepInv
<1>2. Len(running') <= max_num_running_reqs
  <2>1. Len(running) <= max_num_running_reqs /\ Len(running) \in Int
    BY DEF StepInv, Types
  <2> QED BY <2>1, Constants
<1>3. /\ step'.budget + SumFunctionOnSet(step'.n, Requests) <= max_num_scheduled_tokens
      /\ enable_decode_aware_prefill => step'.prefill_used <= step'.prefill_budget
  BY DEF StepInv
<1> QED BY <1>1, <1>2, <1>3 DEF StepInv, ScheduledStayRunning

(* The output of the oldest batch: its shares are drained, and requests    *)
(* that stop give back their blocks and leave their queue.                 *)
LEMMA OutputStep ==
  ASSUME IInv, NEW acc \in [Requests -> 0 .. num_spec_tokens],
         NEW eos \in SUBSET Requests, NEW absent \in SUBSET Requests,
         UpdateFromOutput(acc, eos, absent)
  PROVE  IInv'
<1> USE Constants
<1> DEFINE b == Head(batches)
           after == [r \in Requests |-> Processed(r, b, acc[r], r \in eos, r \in absent)]
           stopped == {r \in Requests : Live(r) /\ after[r].status = "FINISHED"}
<1>1. Types /\ QueuesInv /\ StepInv /\ BlocksConserved /\ NewInv /\ StaleIsOldest
  BY DEF IInv
<1>2. /\ pc = "idle" /\ batches # <<>> /\ batches' = Tail(batches) /\ pc' = pc /\ step' = step
      /\ req' = after /\ free' = free + BlocksOf(stopped)
      /\ running' = Without(running, stopped) /\ waiting' = Without(waiting, stopped)
      /\ skipped_waiting' = Without(skipped_waiting, stopped)
  BY DEF UpdateFromOutput
<1>3. batches \in Seq(BatchRec) /\ req \in [Requests -> ReqRec]
  BY <1>1 DEF Types
<1>4. b \in BatchRec /\ Tail(batches) \in Seq(BatchRec)
  BY <1>2, <1>3
<1> HIDE DEF b
<1>5. ASSUME NEW r \in Requests
      PROVE  /\ after[r] \in ReqRec
             /\ \/ after[r] = req[r] /\ (b.n[r] = 0 \/ ~ Live(r))
                \/ Live(r) /\ after[r] = Fresh("FINISHED")
                \/ /\ Live(r) /\ after[r].status = req[r].status
                   /\ after[r].blocks = req[r].blocks
                   /\ after[r].in_flight = req[r].in_flight - b.n[r]
                   /\ after[r].stale = IF req[r].stale > 0 THEN req[r].stale - b.n[r] ELSE 0
  <2>1. PICK a \in Int, e \in BOOLEAN, m \in BOOLEAN :
          a = acc[r] /\ e = (r \in eos) /\ m = (r \in absent)
    <3>1. acc[r] \in Int
      OBVIOUS
    <3>2. (r \in eos) \in BOOLEAN /\ (r \in absent) \in BOOLEAN
      OBVIOUS
    <3> QED BY ONLY <3>1, <3>2, Zenon
  <2>2. after[r] = Processed(r, b, a, e, m)
    BY <2>1, Zenon
  <2> HIDE DEF after
  <2> QED BY ONLY <1>1, <1>4, <2>2, ProcessedFacts
<1>6. req' \in [Requests -> ReqRec] /\ \A r \in Requests : req'[r] = after[r]
  BY <1>2, <1>5
<1>7. Fresh("FINISHED").status = "FINISHED" /\ Fresh("FINISHED").blocks = 0
  BY DEF Fresh
<1> HIDE DEF after
<1>8. \A r \in Requests : r \in stopped <=> (Live(r) /\ req'[r].status = "FINISHED")
  BY <1>6
<1>9. ASSUME NEW r \in Requests
      PROVE  IF r \in stopped THEN req'[r].status = "FINISHED" /\ req'[r].blocks = 0
             ELSE req'[r].status = req[r].status /\ req'[r].blocks = req[r].blocks
  <2>1. Live(r) => req[r].status # "FINISHED"
    BY DEF Live
  <2> HIDE DEF stopped
  <2> QED BY <1>5, <1>6, <1>7, <1>8, <2>1
<1>10. stopped \in SUBSET Requests
  OBVIOUS
<1> HIDE DEF stopped
<1>11. /\ QueuesInv' /\ Len(running') <= Len(running)
       /\ running' \in Seq(Requests) /\ waiting' \in Seq(Requests)
       /\ skipped_waiting' \in Seq(Requests)
  BY <1>1, <1>2, <1>9, <1>10, RemoveFromQueues
<1>12. BlocksConserved' /\ free' \in Nat
  <2>1. \A q \in Requests : req'[q].blocks = IF q \in stopped THEN 0 ELSE req[q].blocks
    BY <1>9
  <2>2. \A q \in Requests : req'[q].status # "RUNNING" => q \in stopped \/ req[q].status # "RUNNING"
    BY <1>9
  <2> QED BY <1>1, <1>2, <1>10, <2>1, <2>2, BlocksGive
<1>13. Types'
  BY <1>1, <1>2, <1>4, <1>6, <1>11, <1>12 DEF Types
<1>14. StepInv'
  <2>1. Len(running') \in Int
    BY <1>11
  <2> QED BY <1>1, <1>2, <1>11, <2>1, IdleStep
<1>15. NewInv'
  <2> SUFFICES ASSUME NEW r \in Requests, req'[r].status = "NEW", NEW j \in DOMAIN batches'
               PROVE  batches'[j].n[r] = 0
    BY DEF NewInv
  <2>1. req[r].status = "NEW"
    BY <1>9
  <2>2. j + 1 \in DOMAIN batches /\ batches'[j] = batches[j + 1]
    BY <1>2, <1>3
  <2> QED BY <1>1, <2>1, <2>2 DEF NewInv
<1>16. ASSUME NEW r \in Requests, Live(r)'
       PROVE  /\ req'[r].in_flight = Shares(r, Len(batches))'
              /\ \E i \in 0 .. Len(batches') : req'[r].stale = Shares(r, i)'
  <2>1. Live(r) /\ r \notin stopped
    BY <1>9, <1>16 DEF Live
  <2>2. req'[r] # Fresh("FINISHED")
    BY <1>7, <1>16 DEF Live
  <2>3. PICK m \in Nat : m = Len(batches') /\ Len(batches) = m + 1
    <3>1. batches' = Tail(batches) /\ batches # <<>>
      BY <1>2
    <3>2. Len(batches') \in Nat /\ Len(batches) = Len(batches') + 1
      BY ONLY <1>3, <3>1
    <3> QED BY ONLY <3>2
  <2>4. /\ b.n[r] \in Int /\ Shares(r, 0) = 0 /\ Shares(r, 0)' = 0
        /\ \A i \in 0 .. m : Shares(r, i)' \in Int /\ Shares(r, i + 1) = b.n[r] + Shares(r, i)'
    <3>1. m = Len(batches) - 1
      BY <2>3
    <3> QED BY <1>1, <1>2, <3>1, SharesTail DEF b
  <2>5. /\ req[r].in_flight = Shares(r, m + 1)
        /\ \E i \in 0 .. m + 1 : req[r].stale = Shares(r, i)
    BY <1>1, <2>1, <2>3 DEF StaleIsOldest
  <2>6. req[r].in_flight \in Int /\ req[r].stale \in Int
    BY <1>1, ReqFacts
  <2>7. /\ req'[r].in_flight = req[r].in_flight - b.n[r]
        /\ \/ req'[r].stale = req[r].stale - b.n[r] /\ (req[r].stale > 0 \/ b.n[r] = 0)
           \/ req'[r].stale = 0
    <3>1. CASE req'[r] = req[r] /\ b.n[r] = 0
      BY <2>6, <3>1
    <3>2. CASE /\ req'[r].in_flight = req[r].in_flight - b.n[r]
               /\ req'[r].stale = IF req[r].stale > 0 THEN req[r].stale - b.n[r] ELSE 0
      BY <2>6, <3>2
    <3> QED BY <1>5, <1>6, <2>1, <2>2, <3>1, <3>2
  <2>8. Shares(r, Len(batches))' = Shares(r, m)'
    BY <2>3 DEF Shares
  <2>9. req'[r].in_flight = Shares(r, m)'
    BY <2>4, <2>5, <2>7
  <2>10. \E i \in 0 .. m : req'[r].stale = Shares(r, i)'
    <3>1. CASE req'[r].stale = 0
      BY <2>4, <3>1
    <3>2. CASE req'[r].stale = req[r].stale - b.n[r] /\ (req[r].stale > 0 \/ b.n[r] = 0)
      <4>1. PICK i \in 0 .. m + 1 : req[r].stale = Shares(r, i)
        BY <2>5
      <4>2. CASE i = 0
        <5>1. req'[r].stale = 0
          BY <2>4, <2>6, <3>2, <4>1, <4>2
        <5> QED BY <3>1, <5>1
      <4>3. CASE i # 0
        <5>1. PICK k \in 0 .. m : i = k + 1
          BY <4>3
        <5>2. Shares(r, i) = b.n[r] + Shares(r, k)' /\ Shares(r, k)' \in Int
          BY <2>4, <5>1
        <5>3. req'[r].stale = Shares(r, k)'
          BY <2>4, <3>2, <4>1, <5>2
        <5> QED BY <5>3
      <4> QED BY <4>2, <4>3
    <3> QED BY <2>7, <3>1, <3>2
  <2> QED BY <2>3, <2>8, <2>9, <2>10
<1>17. StaleIsOldest'
  BY <1>16 DEF StaleIsOldest
<1> QED BY <1>11, <1>12, <1>13, <1>14, <1>15, <1>17 DEF IInv

(* add_request: a request nobody has seen joins the waiting queue.         *)
LEMMA AddStep ==
  ASSUME IInv, NEW r \in Requests, AddRequest(r)
  PROVE  IInv'
<1> USE Constants
<1> DEFINE more == Append(waiting, r)
           fresh == [Fresh("WAITING") EXCEPT !.tokens = num_prompt_tokens[r]]
<1>1. Types /\ QueuesInv /\ StepInv /\ BlocksConserved /\ NewInv /\ StaleIsOldest
  BY DEF IInv
<1>2. /\ pc = "idle" /\ req[r].status = "NEW" /\ req' = [req EXCEPT ![r] = fresh]
      /\ waiting' = more
      /\ UNCHANGED <<running, skipped_waiting, free, pc, step, batches>>
  BY DEF AddRequest
<1>3. /\ fresh \in ReqRec /\ fresh.status = "WAITING" /\ fresh.blocks = 0
      /\ fresh.in_flight = 0 /\ fresh.stale = 0
  <2>1. PICK s \in ReqRec : s = Fresh("WAITING")
    BY FreshFacts DEF Statuses
  <2>2. PICK tokens \in Int : tokens = num_prompt_tokens[r]
    OBVIOUS
  <2>3. fresh = [s EXCEPT !.tokens = tokens]
    BY <2>1, <2>2
  <2> HIDE DEF fresh
  <2>4. fresh \in ReqRec
    BY <2>3 DEF ReqRec
  <2>5. /\ fresh.status = s.status /\ fresh.blocks = s.blocks /\ fresh.in_flight = s.in_flight
        /\ fresh.stale = s.stale
    BY <2>3 DEF ReqRec
  <2>6. s.status = "WAITING" /\ s.blocks = 0 /\ s.in_flight = 0 /\ s.stale = 0
    BY <2>1 DEF Fresh
  <2> QED BY <2>4, <2>5, <2>6
<1> HIDE DEF fresh
<1>4. req' \in [Requests -> ReqRec] /\ req'[r] = fresh
      /\ \A q \in Requests : q # r => req'[q] = req[q]
  BY <1>1, <1>2, <1>3 DEF Types
<1>5. waiting \in Seq(Requests) /\ step.skipped = <<>>
  BY <1>1, <1>2 DEF Types, QueuesInv
<1>6. /\ more \in Seq(Requests) /\ ToSet(more) = ToSet(waiting) \cup {r}
      /\ IsInjective(waiting) /\ r \notin ToSet(waiting) => IsInjective(more)
  BY ONLY <1>5, AppendFacts
<1> HIDE DEF more
<1>7. Types'
  BY <1>1, <1>2, <1>4, <1>6 DEF Types
<1>8. QueuesInv'
  <2>1. r \notin Parked /\ Parked' = Parked \cup {r}
    BY <1>2, <1>3, <1>4 DEF Parked
  <2>2. {q \in Requests : req'[q].status = "RUNNING"} = {q \in Requests : req[q].status = "RUNNING"}
    BY <1>2, <1>3, <1>4
  <2>3. r \notin ToSet(waiting) /\ r \notin ToSet(skipped_waiting) /\ r \notin ToSet(step.skipped)
    BY <1>1, <2>1 DEF QueuesInv
  <2>4. waiting' = more /\ UNCHANGED <<running, skipped_waiting, pc, step>>
    BY <1>2
  <2> QED BY ONLY <1>1, <1>6, <2>1, <2>2, <2>3, <2>4 DEF QueuesInv
<1>9. BlocksConserved'
  <2>1. req[r].blocks = 0
    BY <1>1, <1>2 DEF BlocksConserved
  <2>2. \A q \in Requests : req'[q].blocks = req[q].blocks
    BY <1>3, <1>4, <2>1
  <2>3. \A q \in Requests : req'[q].status # "RUNNING" => req[q].status # "RUNNING"
    BY <1>2, <1>4
  <2> QED BY <1>1, <1>2, <2>2, <2>3, BlocksFrame
<1>10. StepInv'
  <2>1. Len(running') \in Int /\ Len(running') <= Len(running)
    BY <1>1, <1>2 DEF Types
  <2> QED BY <1>1, <1>2, <2>1, IdleStep
<1>11. NewInv'
  BY <1>1, <1>2, <1>3, <1>4 DEF NewInv
<1>12. ASSUME NEW q, NEW i PROVE Shares(q, i)' = Shares(q, i)
  BY <1>2 DEF Shares
<1>13. ASSUME NEW q \in Requests, Live(q)'
       PROVE  /\ req'[q].in_flight = Shares(q, Len(batches))'
              /\ \E i \in 0 .. Len(batches') : req'[q].stale = Shares(q, i)'
  <2>1. Shares(q, Len(batches))' = Shares(q, Len(batches))
    BY <1>2 DEF Shares
  <2>2. Len(batches') = Len(batches) /\ Len(batches) \in Nat
    BY <1>1, <1>2 DEF Types
  <2>3. CASE q # r
    <3>1. Live(q) /\ req'[q] = req[q]
      BY <1>4, <1>13, <2>3 DEF Live
    <3>2. /\ req[q].in_flight = Shares(q, Len(batches))
          /\ \E i \in 0 .. Len(batches) : req[q].stale = Shares(q, i)
      BY <1>1, <3>1 DEF StaleIsOldest
    <3> QED BY <1>12, <2>1, <2>2, <3>1, <3>2
  <2>4. CASE q = r
    <3>1. PICK len \in Nat : len = Len(batches)
      BY <2>2
    <3> DEFINE f == [j \in DOMAIN batches |-> batches[j].n[r]]
    <3>2. \A j \in 1 .. len : f[j] = 0
      <4>1. DOMAIN batches = 1 .. len
        BY <1>1, <3>1 DEF Types
      <4> QED BY <1>1, <1>2, <4>1 DEF NewInv
    <3>3. \A i : Shares(r, i) = SumFunctionOnSet(f, 1 .. i)
      BY DEF Shares
    <3> HIDE DEF f
    <3>4. IsFiniteSet(1 .. len) /\ 1 .. 0 = {}
      BY FS_Interval
    <3>5. SumFunctionOnSet(f, 1 .. len) = 0 /\ SumFunctionOnSet(f, 1 .. 0) = 0
      BY <3>2, <3>4, SumZero, SumEmpty
    <3>6. Shares(r, Len(batches)) = 0 /\ Shares(r, 0) = 0
      BY <3>1, <3>3, <3>5
    <3>7. req'[r].in_flight = 0 /\ req'[r].stale = 0
      BY <1>3, <1>4
    <3>8. Shares(r, 0)' = 0
      BY <1>12, <3>6
    <3> QED BY <2>1, <2>2, <2>4, <3>6, <3>7, <3>8
  <2> QED BY <2>3, <2>4
<1>14. StaleIsOldest'
  BY <1>13 DEF StaleIsOldest
<1> QED BY <1>7, <1>8, <1>9, <1>10, <1>11, <1>14 DEF IInv

(* finish_requests: an aborted request leaves its queue and its blocks.    *)
LEMMA AbortStep ==
  ASSUME IInv, NEW r \in Requests, AbortRequest(r)
  PROVE  IInv'
<1> USE Constants
<1>1. Types /\ QueuesInv /\ StepInv /\ BlocksConserved /\ NewInv /\ StaleIsOldest
  BY DEF IInv
<1>2. /\ pc = "idle" /\ free' = free + req[r].blocks
      /\ req' = [req EXCEPT ![r] = Fresh("FINISHED")]
      /\ running' = Without(running, {r}) /\ waiting' = Without(waiting, {r})
      /\ skipped_waiting' = Without(skipped_waiting, {r})
      /\ pc' = pc /\ step' = step /\ batches' = batches
  BY DEF AbortRequest
<1>3. /\ Fresh("FINISHED") \in ReqRec /\ Fresh("FINISHED").status = "FINISHED"
      /\ Fresh("FINISHED").blocks = 0
  BY FreshFacts DEF Statuses
<1>4. /\ req' \in [Requests -> ReqRec] /\ req'[r] = Fresh("FINISHED")
      /\ \A q \in Requests : q # r => req'[q] = req[q]
  BY <1>1, <1>2, <1>3 DEF Types
<1>5. PICK S \in SUBSET Requests : S = {r}
  OBVIOUS
<1>6. /\ QueuesInv' /\ Len(running') <= Len(running)
      /\ running' \in Seq(Requests) /\ waiting' \in Seq(Requests)
      /\ skipped_waiting' \in Seq(Requests)
  <2>1. \A q \in Requests : IF q \in S THEN req'[q].status = "FINISHED"
                            ELSE req'[q].status = req[q].status
    BY <1>3, <1>4, <1>5
  <2>2. /\ running' = Without(running, S) /\ waiting' = Without(waiting, S)
        /\ skipped_waiting' = Without(skipped_waiting, S) /\ pc # "waiting"
        /\ pc' = pc /\ step' = step
    BY <1>2, <1>5
  <2> QED BY ONLY <1>1, <1>5, <2>1, <2>2, RemoveFromQueues
<1>7. BlocksConserved' /\ free' \in Nat
  <2>1. free' = free + BlocksOf(S)
    BY <1>1, <1>2, <1>5, BlocksOfOne
  <2>2. \A q \in Requests : req'[q].blocks = IF q \in S THEN 0 ELSE req[q].blocks
    BY <1>3, <1>4, <1>5
  <2>3. \A q \in Requests : req'[q].status # "RUNNING" => q \in S \/ req[q].status # "RUNNING"
    BY <1>4, <1>5
  <2> QED BY <1>1, <2>1, <2>2, <2>3, BlocksGive
<1>8. Types'
  BY <1>1, <1>2, <1>4, <1>6, <1>7 DEF Types
<1>9. StepInv'
  <2>1. Len(running') \in Int
    BY <1>6
  <2> QED BY <1>1, <1>2, <1>6, <2>1, IdleStep
<1>10. StaleIsOldest' /\ NewInv'
  <2>1. \A q \in Requests : req'[q].status \in {"WAITING", "RUNNING", "PREEMPTED"}
           => /\ req[q].status \in {"WAITING", "RUNNING", "PREEMPTED"}
              /\ req'[q].in_flight = req[q].in_flight
              /\ req'[q].stale \in {req[q].stale, req[q].in_flight}
    BY <1>3, <1>4
  <2>2. \A q \in Requests : req'[q].status = "NEW" => req[q].status = "NEW"
    BY <1>3, <1>4
  <2> QED BY <1>1, <1>2, <2>1, <2>2, StaleFrame
<1> QED BY <1>6, <1>7, <1>8, <1>9, <1>10 DEF IInv

(* reset_prefix_cache: every running request goes back to the front.       *)
LEMMA ResetStep ==
  ASSUME IInv, ResetPrefixCache
  PROVE  IInv'
<1> USE Constants
<1> DEFINE victims == ToSet(running)
<1>1. Types /\ QueuesInv /\ StepInv /\ BlocksConserved /\ NewInv /\ StaleIsOldest
  BY DEF IInv
<1>2. /\ pc = "idle" /\ free' = free + BlocksOf(victims)
      /\ req' = [r \in Requests |-> IF r \in victims THEN Preempted(req[r], TRUE) ELSE req[r]]
      /\ waiting' = running \o waiting /\ running' = <<>>
      /\ UNCHANGED <<skipped_waiting, pc, step, batches>>
  BY DEF ResetPrefixCache
<1>3. /\ running \in Seq(Requests) /\ waiting \in Seq(Requests)
      /\ victims \in SUBSET Requests
      /\ \A r \in Requests : r \in victims <=> req[r].status = "RUNNING"
  BY <1>1, ToSetType DEF Types, QueuesInv
<1> HIDE DEF victims
<1>4. ASSUME NEW r \in Requests
      PROVE  /\ req'[r] \in ReqRec
             /\ IF r \in victims
                THEN /\ req'[r].status = "PREEMPTED" /\ req'[r].in_flight = req[r].in_flight
                     /\ req'[r].stale = req[r].in_flight /\ req'[r].blocks = 0
                ELSE req'[r] = req[r]
  <2>1. req[r] \in ReqRec
    BY <1>1, ReqFacts
  <2>2. req'[r] = IF r \in victims THEN Preempted(req[r], TRUE) ELSE req[r]
    BY <1>2
  <2> QED BY ONLY <2>1, <2>2, PreemptedFacts
<1>5. req' \in [Requests -> ReqRec]
  BY <1>2, <1>4
<1>6. BlocksConserved' /\ free' \in Nat
  <2>1. \A q \in Requests : req'[q].blocks = IF q \in victims THEN 0 ELSE req[q].blocks
    BY <1>4
  <2>2. \A q \in Requests : req'[q].status # "RUNNING" => q \in victims \/ req[q].status # "RUNNING"
    BY <1>4
  <2> QED BY <1>1, <1>2, <1>3, <2>1, <2>2, BlocksGive
<1>7. /\ running \o waiting \in Seq(Requests)
      /\ ToSet(running \o waiting) = victims \cup ToSet(waiting)
      /\ IsInjective(running) /\ IsInjective(waiting) /\ victims \cap ToSet(waiting) = {}
           => IsInjective(running \o waiting)
  BY ONLY <1>3, ConcatFacts, Zenon DEF victims
<1>8. /\ <<>> \in Seq(Requests) /\ ToSet(<<>>) = {} /\ IsInjective(<<>>)
      /\ Len(<<>>) = 0
  BY DEF ToSet, IsInjective
<1>9. Types'
  BY <1>1, <1>2, <1>5, <1>6, <1>7, <1>8 DEF Types
<1>10. QueuesInv'
  <2>1. /\ IsInjective(running) /\ IsInjective(waiting) /\ IsInjective(skipped_waiting)
        /\ step.skipped = <<>>
        /\ ToSet(waiting) \cap ToSet(skipped_waiting) = {}
        /\ ToSet(waiting) \cup ToSet(skipped_waiting) \cup ToSet(step.skipped) = Parked
    BY <1>1, <1>2 DEF QueuesInv
  <2>2. Parked \cap victims = {}
    BY <1>3 DEF Parked
  <2>3. Parked' = Parked \cup victims
    BY <1>3, <1>4 DEF Parked
  <2>4. {r \in Requests : req'[r].status = "RUNNING"} = {}
    BY <1>3, <1>4
  <2>5. /\ waiting' = running \o waiting /\ running' = <<>>
        /\ UNCHANGED <<skipped_waiting, pc, step>>
    BY <1>2
  <2>6. /\ IsInjective(running \o waiting)
        /\ ToSet(running \o waiting) \cap ToSet(skipped_waiting) = {}
        /\ ToSet(running \o waiting) \cup ToSet(skipped_waiting) \cup ToSet(<<>>)
             = Parked \cup victims
    BY ONLY <1>7, <1>8, <2>1, <2>2
  <2> QED BY ONLY <1>8, <2>1, <2>3, <2>4, <2>5, <2>6 DEF QueuesInv
<1>11. StepInv'
  <2>1. Len(running') \in Int /\ Len(running') <= Len(running)
    BY <1>2, <1>3, <1>8
  <2> QED BY <1>1, <1>2, <2>1, IdleStep
<1>12. StaleIsOldest' /\ NewInv'
  <2>1. \A q \in Requests : req'[q].status \in {"WAITING", "RUNNING", "PREEMPTED"}
           => /\ req[q].status \in {"WAITING", "RUNNING", "PREEMPTED"}
              /\ req'[q].in_flight = req[q].in_flight
              /\ req'[q].stale \in {req[q].stale, req[q].in_flight}
    BY <1>3, <1>4
  <2>2. \A q \in Requests : req'[q].status = "NEW" => req[q].status = "NEW"
    BY <1>4
  <2> QED BY <1>1, <1>2, <2>1, <2>2, StaleFrame
<1> QED BY <1>6, <1>9, <1>10, <1>11, <1>12 DEF IInv

(* Steps that only move pc, or change nothing of this.                     *)
LEMMA PcStep ==
  ASSUME IInv, UNCHANGED <<req, queues, free, step, batches>>,
         \/ pc' = pc
         \/ pc = "running" /\ pc' \in {"waiting", "finish"}
  PROVE  IInv'
<1>1. Types /\ QueuesInv /\ StepInv
  BY DEF IInv
<1>2. pc' # "waiting" => step.skipped = <<>>
  BY <1>1 DEF QueuesInv
<1>3. Types'
  BY <1>1 DEF Types, queues
<1>4. QueuesInv'
  BY <1>1, <1>2, QueuesFrame
<1>5. BlocksConserved' /\ StaleIsOldest' /\ NewInv'
  BY BlocksFrame, StaleFrame DEF IInv
<1>6. StepInv'
  BY <1>1 DEF StepInv, ScheduledStayRunning, queues
<1> QED BY <1>3, <1>4, <1>5, <1>6 DEF IInv

-----------------------------------------------------------------------------
(* Every step preserves the invariant.                                     *)
LEMMA NextInv == IInv /\ [Next]_vars => IInv'
<1> SUFFICES ASSUME IInv, [Next]_vars PROVE IInv'
  OBVIOUS
<1>1. CASE StartSchedule
  BY <1>1, StartStep
<1>2. CASE RunningSkip
  BY <1>2, RunningSkipStep
<1>3. CASE RunningSchedule
  BY <1>3, RunningScheduleStep
<1>4. CASE RunningPreempt
  BY <1>4, RunningPreemptStep
<1>5. CASE RunningDone
  <2>1. /\ UNCHANGED <<req, queues, free, step, batches>> /\ pc = "running"
        /\ pc' \in {"waiting", "finish"}
    BY <1>5 DEF RunningDone
  <2> QED BY <2>1, PcStep
<1>6. CASE WaitingSkip
  BY <1>6, WaitingSkipStep
<1>7. ASSUME NEW hit \in 0 .. max_model_len, Admit(hit) \/ WaitingDone(hit) PROVE IInv'
  <2>1. hit \in Int
    BY Constants
  <2> QED BY <1>7, <2>1, AdmitStep, WaitingDoneStep
<1>8. CASE FinishSchedule
  BY <1>8, FinishStep
<1>9. ASSUME NEW acc \in [Requests -> 0 .. num_spec_tokens],
             NEW eos \in SUBSET Requests, NEW absent \in SUBSET Requests,
             UpdateFromOutput(acc, eos, absent)
      PROVE  IInv'
  BY <1>9, OutputStep
<1>10. ASSUME NEW r \in Requests, AddRequest(r) \/ AbortRequest(r) PROVE IInv'
  BY <1>10, AddStep, AbortStep
<1>11. ASSUME NEW s \in PauseStates, SetPauseState(s) PROVE IInv'
  <2>1. UNCHANGED <<req, queues, free, step, batches>> /\ pc' = pc
    BY <1>11 DEF SetPauseState
  <2> QED BY <2>1, PcStep
<1>12. CASE ResetPrefixCache
  BY <1>12, ResetStep
<1>13. CASE UNCHANGED vars
  <2>1. UNCHANGED <<req, queues, free, step, batches>> /\ pc' = pc
    BY <1>13 DEF vars, queues
  <2> QED BY <2>1, PcStep
<1>14. CASE Schedule
  BY <1>1, <1>2, <1>3, <1>4, <1>5, <1>6, <1>7, <1>8, <1>14 DEF Schedule
<1>15. CASE Output
  BY <1>9, <1>15 DEF Output
<1> QED BY <1>10, <1>11, <1>12, <1>13, <1>14, <1>15 DEF Next

(* The invariant always holds.                                             *)
LEMMA SchedulerInv == Spec => []IInv
<1> QED BY InitInv, NextInv, PTL DEF Spec

(* The queues of the invariant, taken together, are those of QueuesMatch.  *)
LEMMA QueuesTogether ==
  ASSUME Types, QueuesInv
  PROVE  QueuesMatch
<1> DEFINE one == running \o waiting
           two == one \o skipped_waiting
           all == two \o step.skipped
<1>1. /\ running \in Seq(Requests) /\ waiting \in Seq(Requests)
      /\ skipped_waiting \in Seq(Requests) /\ step.skipped \in Seq(Requests)
  BY StepFacts DEF Types
<1>2. /\ IsInjective(running) /\ IsInjective(waiting) /\ IsInjective(skipped_waiting)
      /\ IsInjective(step.skipped)
      /\ ToSet(waiting) \cap ToSet(skipped_waiting) = {}
      /\ ToSet(waiting) \cap ToSet(step.skipped) = {}
      /\ ToSet(skipped_waiting) \cap ToSet(step.skipped) = {}
      /\ ToSet(running) = {r \in Requests : req[r].status = "RUNNING"}
      /\ ToSet(waiting) \cup ToSet(skipped_waiting) \cup ToSet(step.skipped) = Parked
  BY DEF QueuesInv
<1>3. /\ ToSet(running) \cap Parked = {}
      /\ ToSet(running) \cup Parked = {r \in Requests : Live(r)}
  BY <1>2 DEF Parked, Live
<1>4. /\ one \in Seq(Requests) /\ ToSet(one) = ToSet(running) \cup ToSet(waiting)
      /\ IsInjective(running) /\ IsInjective(waiting) /\ ToSet(running) \cap ToSet(waiting) = {}
           => IsInjective(one)
  BY ONLY <1>1, ConcatFacts, Zenon
<1> HIDE DEF one
<1>5. /\ two \in Seq(Requests) /\ ToSet(two) = ToSet(one) \cup ToSet(skipped_waiting)
      /\ IsInjective(one) /\ IsInjective(skipped_waiting) /\ ToSet(one) \cap ToSet(skipped_waiting) = {}
           => IsInjective(two)
  BY ONLY <1>1, <1>4, ConcatFacts, Zenon
<1> HIDE DEF two
<1>6. /\ ToSet(all) = ToSet(two) \cup ToSet(step.skipped)
      /\ IsInjective(two) /\ IsInjective(step.skipped) /\ ToSet(two) \cap ToSet(step.skipped) = {}
           => IsInjective(all)
  <2>1. PICK aside \in Seq(Requests) : aside = step.skipped
    BY <1>1
  <2>2. /\ ToSet(two \o aside) = ToSet(two) \cup ToSet(aside)
        /\ IsInjective(two) /\ IsInjective(aside) /\ ToSet(two) \cap ToSet(aside) = {}
             => IsInjective(two \o aside)
    <3>1. two \in Seq(Requests)
      BY <1>5
    <3> QED BY ONLY <2>1, <3>1, ConcatFacts
  <2> QED BY <2>1, <2>2
<1> HIDE DEF all
<1>7. IsInjective(one)
  BY ONLY <1>2, <1>3, <1>4
<1>8. IsInjective(two)
  BY ONLY <1>2, <1>3, <1>4, <1>5, <1>7
<1>9. IsInjective(all)
  BY ONLY <1>2, <1>3, <1>4, <1>5, <1>6, <1>8
<1>10. ToSet(all) = {r \in Requests : Live(r)}
  BY ONLY <1>2, <1>3, <1>4, <1>5, <1>6
<1> QED BY <1>2, <1>9, <1>10 DEF QueuesMatch, all, two, one

(* A live request is in exactly one queue, the one its status says,        *)
(* whatever schedule(), update_from_output(), finish_requests() and        *)
(* reset_prefix_cache() do with it and however many batches are in flight. *)
THEOREM QueuesTheorem == Spec => []QueuesMatch
<1>1. IInv => QueuesMatch
  BY QueuesTogether DEF IInv
<1> QED BY <1>1, SchedulerInv, PTL

(* No KV block is lost or held twice, for every pool and every number of   *)
(* requests.                                                               *)
THEOREM BlocksTheorem == Spec => []BlocksConserved
<1>1. IInv => BlocksConserved
  BY DEF IInv
<1> QED BY <1>1, SchedulerInv, PTL

(* Preemption never hits a request that has tokens of this step.           *)
THEOREM StayTheorem == Spec => []ScheduledStayRunning
<1>1. IInv => ScheduledStayRunning
  BY DEF IInv, StepInv
<1> QED BY <1>1, SchedulerInv, PTL

(* The assertions at the end of schedule(): the token budget, the prefill  *)
(* budget and the limit of running requests hold in every step.            *)
THEOREM BudgetTheorem == Spec => []StepWithinBudget
<1>1. IInv => StepWithinBudget
  <2> SUFFICES ASSUME IInv PROVE StepWithinBudget
    OBVIOUS
  <2>1. Types /\ StepInv
    BY DEF IInv
  <2>2. step.budget \in Nat /\ step.n \in [Requests -> Int]
    BY <2>1, StepFacts
  <2>3. SumFunctionOnSet(step.n, Requests) \in Int
    BY <2>2, SumType, Constants
  <2>4. SumFunctionOnSet(step.n, Requests) <= max_num_scheduled_tokens
    BY <2>1, <2>2, <2>3, Constants DEF StepInv
  <2> QED BY <2>1, <2>2, <2>4 DEF StepInv, StepWithinBudget
<1> QED BY <1>1, SchedulerInv, PTL

(* The stale tokens of a request are the shares of its oldest batches in   *)
(* flight, so update_from_output() never takes a current output for a      *)
(* stale one.                                                              *)
THEOREM StaleTheorem == Spec => []StaleIsOldest
<1>1. IInv => StaleIsOldest
  BY DEF IInv
<1> QED BY <1>1, SchedulerInv, PTL
=============================================================================
