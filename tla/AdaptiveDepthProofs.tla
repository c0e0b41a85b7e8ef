------------------------ MODULE AdaptiveDepthProofs ------------------------
(***************************************************************************)
(* Proofs about AdaptiveDepth, for every ladder, every number of requests  *)
(* and of steps in flight: the types, DecodeReplaysGraph, PinHolds, and    *)
(* VerdictSeesItsDepth for probes longer than the pipeline.                *)
(*                                                                         *)
(* None of the three is inductive.  A step replays a graph because all     *)
(* running requests carry the same number of drafts (Uniform), whatever    *)
(* the controller did in between, and the engine only starts with a graph  *)
(* for each such shape (Captured) up to the sizes CaptureHolds names; in   *)
(* an Ample configuration there are no others.  The pin holds because every sample of   *)
(* the window was drafted at depth 2 or is a placeholder, which is never   *)
(* accepted (PinInv).  A verdict has samples of its depth because the      *)
(* steps drafted before the depth was chosen are a prefix of the pipeline  *)
(* whose length, with the samples already taken, is at most MaxInFlight    *)
(* (ProbeInv).                                                             *)
(***************************************************************************)
EXTENDS AdaptiveDepth, LibraryLemmas

Depths == 0 .. max_num_spec_tokens

StepRec ==
  [spec : UNION {[S -> Depths] : S \in SUBSET Requests},
   admitted : SUBSET Requests, padded : SUBSET Requests,
   held : BOOLEAN, full : BOOLEAN]

WindowRec ==
  [steps : Nat, drafts : Nat, draft_tokens : Nat, accepted : Nat,
   tail_23 : Nat, position_4 : Nat, own : BOOLEAN, placeholder : BOOLEAN]

Types ==
  /\ depth_ladder \subseteq 1 .. max_num_spec_tokens
  /\ max_num_spec_tokens \in depth_ladder
  /\ num_spec_tokens \in depth_ladder
  /\ window \in WindowRec
  /\ drafts \in UNION {[S -> depth_ladder] : S \in SUBSET Requests}
  /\ flight \in Seq(StepRec) /\ Len(flight) <= MaxInFlight
  /\ quality \in Depths

(* The engine started with the graphs of its setting.                      *)
Captured ==
  /\ setting \in Settings /\ GraphCoverage
  /\ graphs = [adaptive |-> AdaptiveDescs, base |-> FixedDescs \cup MixedDescs]

(* Settings whose capture holds every batch of verifications.              *)
Ample ==
  \A s \in Settings :
    IF s.cudagraph_mode = "FULL"
    THEN decode_query_len * max_num_reqs <= Max(s.cudagraph_capture_sizes)
    ELSE max_num_reqs <= 32

AmpleInv == Ample => \A i \in DOMAIN flight : flight[i].admitted = {} => flight[i].held

(* The counters of a window that is not full yet.                          *)
Counts ==
  /\ window.steps < effective_observation_window
  /\ window.tail_23 + window.position_4 <= window.accepted
  /\ window.accepted <= window.draft_tokens
  /\ window.draft_tokens <= max_num_spec_tokens * window.drafts

(* All running requests carry the same number of drafts.                   *)
Uniform == \A r, q \in Running : drafts[r] = drafts[q]

(* The samples that can be accepted were drafted at a depth of at most d.  *)
DraftedAt(step, d) == \A r \in DOMAIN step.spec \ step.padded : step.spec[r] <= d

(* With the pin nothing was ever drafted at the maximum.                   *)
PinInv ==
  depth_ladder = {2, 5} =>
    /\ num_spec_tokens = 2 /\ \A r \in Running : drafts[r] = 2
    /\ \A i \in DOMAIN flight : DraftedAt(flight[i], 2)
    /\ window.accepted <= 2 * window.drafts

(* All samples of the step were drafted at the current depth or are        *)
(* placeholders.                                                           *)
Fresh(step) ==
  \A r \in DOMAIN step.spec \ step.padded : step.spec[r] \in {0, num_spec_tokens}

(* The steps drafted before the current depth was chosen are the first k   *)
(* in flight; the last of them may be the one the running requests carry.  *)
ProbeInv ==
  ~ window.own /\ ~ window.placeholder =>
    \E k \in Nat :
      /\ window.steps + k <= MaxInFlight
      /\ \A i \in DOMAIN flight : i > k => Fresh(flight[i])
      /\ k <= Len(flight) => \A r \in Running : drafts[r] = num_spec_tokens

IInv ==
  /\ Types /\ Captured /\ Counts /\ Uniform
  /\ DecodeReplaysGraph /\ AmpleInv /\ PinInv /\ ProbeInv
-----------------------------------------------------------------------------
(* The constants as the provers need them.                                 *)
LEMMA Constants ==
  /\ max_num_spec_tokens \in Nat \ {0} /\ observation_window \in Nat \ {0}
  /\ MaxInFlight \in Nat \ {0} /\ Qualities \subseteq Depths /\ IsFiniteSet(Requests)
  /\ max_num_reqs \in Nat \ {0} /\ prompt_tokens \in Nat \ {0}
BY DepthAssumption DEF Depths

(* Of the positions 3, 4 and 5, at most all accepted ones were reached:    *)
(* the tail counters never exceed the accepted tokens.                     *)
LEMMA ReachedBelowSum ==
  ASSUME NEW f, NEW S, IsFiniteSet(S), \A x \in S : f[x] \in Nat
  PROVE  Cardinality({x \in S : f[x] >= 3}) + Cardinality({x \in S : f[x] >= 4})
           + Cardinality({x \in S : f[x] >= 5}) <= SumFunctionOnSet(f, S)
<1> DEFINE C(s, p) == Cardinality({x \in s : f[x] >= p})
           P == {s \in SUBSET S : C(s, 3) + C(s, 4) + C(s, 5) <= SumFunctionOnSet(f, s)}
<1>1. {} \in P
  <2>1. \A p : {x \in {} : f[x] >= p} = {}
    OBVIOUS
  <2> QED BY <2>1, SumEmpty, FS_EmptySet
<1>2. ASSUME NEW s \in SUBSET S, NEW y \in S \ s, s \in P PROVE s \cup {y} \in P
  <2>1. IsFiniteSet(s)
    BY FS_Subset
  <2>2. SumFunctionOnSet(f, s \cup {y}) = f[y] + SumFunctionOnSet(f, s)
    BY <2>1, SumAdd
  <2>3. SumFunctionOnSet(f, s) \in Nat /\ f[y] \in Nat
    BY <2>1, SumNat
  <2>4. ASSUME NEW p \in Nat
        PROVE  C(s, p) \in Nat /\ C(s \cup {y}, p) = C(s, p) + (IF f[y] >= p THEN 1 ELSE 0)
    <3> DEFINE T == {x \in s : f[x] >= p}
    <3>1. IsFiniteSet(T) /\ y \notin T
      BY <2>1, FS_Subset
    <3>2. CASE f[y] >= p
      <4>1. {x \in s \cup {y} : f[x] >= p} = T \cup {y}
        BY <3>2
      <4> HIDE DEF T
      <4>2. Cardinality(T \cup {y}) = Cardinality(T) + 1 /\ Cardinality(T) \in Nat
        BY <3>1, FS_AddElement, FS_CardinalityType
      <4> QED BY <3>2, <4>1, <4>2 DEF T
    <3>3. CASE ~ (f[y] >= p)
      <4>1. {x \in s \cup {y} : f[x] >= p} = T
        BY <3>3
      <4>2. Cardinality(T) \in Nat
        BY <3>1, FS_CardinalityType
      <4> QED BY <3>3, <4>1, <4>2
    <3> QED BY <3>2, <3>3
  <2>5. C(s, 3) + C(s, 4) + C(s, 5) <= SumFunctionOnSet(f, s)
    BY <1>2
  <2> HIDE DEF C
  <2>6. C(s, 3) \in Nat /\ C(s, 4) \in Nat /\ C(s, 5) \in Nat
        /\ C(s \cup {y}, 3) = C(s, 3) + (IF f[y] >= 3 THEN 1 ELSE 0)
        /\ C(s \cup {y}, 4) = C(s, 4) + (IF f[y] >= 4 THEN 1 ELSE 0)
        /\ C(s \cup {y}, 5) = C(s, 5) + (IF f[y] >= 5 THEN 1 ELSE 0)
    BY <2>4
  <2>7. C(s \cup {y}, 3) + C(s \cup {y}, 4) + C(s \cup {y}, 5)
          <= SumFunctionOnSet(f, s \cup {y})
    BY <2>2, <2>3, <2>5, <2>6
  <2> QED BY <2>7
<1> HIDE DEF P
<1>3. S \in P
  BY <1>1, <1>2, FiniteSetInduction
<1> QED BY <1>3 DEF P

-----------------------------------------------------------------------------
(* A step of the pipeline: its requests are finitely many and their drafts *)
(* are numbers.                                                            *)
LEMMA StepFacts ==
  ASSUME NEW step \in StepRec
  PROVE  /\ DOMAIN step.spec \subseteq Requests /\ IsFiniteSet(DOMAIN step.spec)
         /\ \A r \in DOMAIN step.spec : step.spec[r] \in Depths
         /\ step.spec \in [DOMAIN step.spec -> Depths]
<1>1. PICK S \in SUBSET Requests : step.spec \in [S -> Depths]
  BY DEF StepRec
<1>2. DOMAIN step.spec = S /\ IsFiniteSet(S)
  BY <1>1, Constants, FS_Subset
<1> QED BY <1>1, <1>2

(* What one step adds to the window.                                       *)
LEMMA ObservedFacts ==
  ASSUME Types, NEW step \in StepRec
  PROVE  LET w == Observed(step)
             sampled == {r \in DOMAIN step.spec : step.spec[r] > 0}
         IN  /\ w \in WindowRec /\ w.steps = window.steps + 1
             /\ w.drafts >= window.drafts
             /\ w.drafts = window.drafts <=> sampled = {}
             /\ w.own <=> window.own \/ \E r \in sampled \ step.padded :
                                         step.spec[r] = num_spec_tokens
             /\ w.placeholder <=> window.placeholder \/ sampled \cap step.padded # {}
             /\ \E n, offered, accepted, tail, last \in Nat :
                  /\ tail + last <= accepted /\ accepted <= offered
                  /\ offered <= max_num_spec_tokens * n
                  /\ DraftedAt(step, 2) => accepted <= 2 * n
                  /\ w.drafts = window.drafts + n
                  /\ w.draft_tokens = window.draft_tokens + offered
                  /\ w.accepted = window.accepted + accepted
                  /\ w.tail_23 = window.tail_23 + tail
                  /\ w.position_4 = window.position_4 + last
<1> DEFINE sampled == {r \in DOMAIN step.spec : step.spec[r] > 0}
           matched == [r \in sampled |-> Accepted(step, r)]
           reached(p) == Cardinality({r \in sampled : matched[r] >= p})
           w == Observed(step)
           n == Cardinality(sampled)
           offered == SumFunctionOnSet(step.spec, sampled)
           accepted == SumFunctionOnSet(matched, sampled)
<1> USE Constants
<1>1. IsFiniteSet(sampled) /\ n \in Nat /\ (n = 0 <=> sampled = {})
  BY StepFacts, FS_Subset, FS_CardinalityType, FS_EmptySet
<1>2. \A r \in sampled : step.spec[r] \in Depths
  BY StepFacts
<1>3. ASSUME NEW r \in sampled
      PROVE  /\ matched[r] \in Nat /\ matched[r] <= step.spec[r]
             /\ DraftedAt(step, 2) => matched[r] <= 2
  <2>1. quality \in Nat /\ step.spec[r] \in Nat
    BY <1>2 DEF Types, Depths
  <2>2. matched[r] = IF r \in step.padded THEN 0 ELSE Min({quality, step.spec[r]})
    BY DEF Accepted
  <2>3. Min({quality, step.spec[r]}) = IF quality <= step.spec[r] THEN quality ELSE step.spec[r]
    BY <2>1, MinPair
  <2>4. DraftedAt(step, 2) => r \in step.padded \/ step.spec[r] <= 2
    BY DEF DraftedAt
  <2> HIDE DEF matched, sampled
  <2> QED BY <2>1, <2>2, <2>3, <2>4
<1>4. w = [steps |-> window.steps + 1, drafts |-> window.drafts + n,
           draft_tokens |-> window.draft_tokens + offered,
           accepted |-> window.accepted + accepted,
           tail_23 |-> window.tail_23 + reached(3) + reached(4),
           position_4 |-> window.position_4 + reached(5),
           own |-> window.own \/ \E r \in sampled \ step.padded :
                                   step.spec[r] = num_spec_tokens,
           placeholder |-> window.placeholder \/ sampled \cap step.padded # {}]
  BY DEF Observed
<1> HIDE DEF matched, w
<1>5. \A p \in Nat : reached(p) \in Nat
  BY <1>1, FS_Subset, FS_CardinalityType
<1>6. reached(3) + reached(4) + reached(5) <= accepted
  BY <1>1, <1>3, ReachedBelowSum
<1>7. accepted \in Nat /\ offered \in Nat
  <2>1. \A r \in sampled : step.spec[r] \in Nat
    BY <1>2 DEF Depths
  <2> QED BY <1>1, <1>3, <2>1, SumNat
<1>8. accepted <= offered
  <2>1. \A r \in sampled : step.spec[r] \in Int /\ matched[r] \in Int
                            /\ matched[r] <= step.spec[r]
    BY <1>2, <1>3 DEF Depths
  <2> QED BY <1>1, <2>1, SumMonotone
<1>9. offered <= max_num_spec_tokens * n
  <2>1. \A r \in sampled : step.spec[r] \in Int /\ step.spec[r] <= max_num_spec_tokens
    BY <1>2 DEF Depths
  <2> QED BY <1>1, <2>1, SumBound
<1>10. DraftedAt(step, 2) => accepted <= 2 * n
  <2> SUFFICES ASSUME DraftedAt(step, 2) PROVE accepted <= 2 * n
    OBVIOUS
  <2>1. \A r \in sampled : matched[r] \in Int /\ matched[r] <= 2
    BY <1>3
  <2> QED BY <1>1, <2>1, SumBound
<1> HIDE DEF sampled, n, offered, accepted, reached
<1>11. window \in WindowRec /\ reached(3) \in Nat /\ reached(4) \in Nat /\ reached(5) \in Nat
  BY <1>5 DEF Types
<1>12. w \in WindowRec
  BY <1>1, <1>4, <1>7, <1>11 DEF WindowRec
<1>13. /\ w.steps = window.steps + 1 /\ w.drafts = window.drafts + n
       /\ w.draft_tokens = window.draft_tokens + offered
       /\ w.accepted = window.accepted + accepted
       /\ w.tail_23 = window.tail_23 + (reached(3) + reached(4))
       /\ w.position_4 = window.position_4 + reached(5)
  BY <1>4, <1>11 DEF WindowRec
<1>14. /\ w.own <=> window.own \/ \E r \in sampled \ step.padded :
                                   step.spec[r] = num_spec_tokens
       /\ w.placeholder <=> window.placeholder \/ sampled \cap step.padded # {}
  BY <1>4, <1>11 DEF WindowRec
<1>15. w.drafts >= window.drafts /\ (w.drafts = window.drafts <=> sampled = {})
  BY <1>1, <1>11, <1>13 DEF WindowRec
<1>16. \E i, off, acc, tail, lst \in Nat :
         /\ tail + lst <= acc /\ acc <= off /\ off <= max_num_spec_tokens * i
         /\ DraftedAt(step, 2) => acc <= 2 * i
         /\ w.drafts = window.drafts + i
         /\ w.draft_tokens = window.draft_tokens + off
         /\ w.accepted = window.accepted + acc
         /\ w.tail_23 = window.tail_23 + tail
         /\ w.position_4 = window.position_4 + lst
  <2>1. reached(3) + reached(4) \in Nat
        /\ (reached(3) + reached(4)) + reached(5) <= accepted
    BY <1>6, <1>11
  <2> USE <1>1, <1>7, <1>11, <2>1
  <2> WITNESS n \in Nat, offered \in Nat, accepted \in Nat,
              reached(3) + reached(4) \in Nat, reached(5) \in Nat
  <2> QED BY <1>8, <1>9, <1>10, <1>13, <2>1
<1> QED BY <1>12, <1>13, <1>14, <1>15, <1>16 DEF sampled, w

-----------------------------------------------------------------------------
(* The rungs are positive numbers, and the first of them is a rung.        *)
LEMMA LadderFacts ==
  ASSUME depth_ladder \subseteq 1 .. max_num_spec_tokens,
         max_num_spec_tokens \in depth_ladder
  PROVE  /\ Min(depth_ladder) \in depth_ladder
         /\ \A d \in depth_ladder : d \in Nat /\ d \in Depths /\ d > 0
<1>1. \A d \in depth_ladder : d \in Nat /\ d \in Depths /\ d > 0
  BY Constants DEF Depths
<1>2. depth_ladder \subseteq Nat /\ depth_ladder # {}
  BY <1>1
<1> QED BY <1>1, <1>2, MinNat

(* The lengths of the two windows.                                         *)
LEMMA WindowLength ==
  /\ effective_observation_window \in Nat \ {0}
  /\ num_spec_tokens # Min(depth_ladder)
       => effective_observation_window >= observation_window \div 2
<1>1. observation_window \div 2 \in Nat
  BY Constants, DivMod
<1>2. Max({1, observation_window \div 2})
        = IF 1 >= observation_window \div 2 THEN 1 ELSE observation_window \div 2
  BY <1>1, MaxPair
<1> QED BY <1>1, <1>2, Constants DEF effective_observation_window

(* floor(mean accepted + 1.5) of drafts of depth 2 is at most 3.           *)
LEMMA PinnedFormula ==
  ASSUME NEW acc \in Nat, NEW n \in Nat \ {0}, acc <= 2 * n
  PROVE  /\ (2 * acc + 3 * n) \div (2 * n) \in Nat
         /\ (2 * acc + 3 * n) \div (2 * n) <= 3
<1> DEFINE x == 2 * acc + 3 * n
           y == 2 * n
<1>1. x \in Nat /\ y \in Nat \ {0} /\ x < 4 * y
  OBVIOUS
<1> HIDE DEF x, y
<1> DEFINE q == x \div y
<1>2. q \in Nat /\ x = y * q + (x % y) /\ x % y \in Nat
  BY <1>1, DivMod
<1> HIDE DEF q
<1>3. ASSUME q >= 4 PROVE FALSE
  <2>1. y * q >= y * 4
    BY <1>1, <1>2, <1>3
  <2> QED BY <1>1, <1>2, <2>1
<1> QED BY <1>2, <1>3 DEF q, x, y

(* The new depth is a rung, and with the pin it is 2.                      *)
LEMMA TargetFacts ==
  ASSUME Types, NEW w \in WindowRec, w.drafts > 0
  PROVE  /\ Target(w) \in depth_ladder
         /\ depth_ladder = {2, 5} /\ w.accepted <= 2 * w.drafts => Target(w) = 2
<1> USE Constants
<1>1. w.drafts \in Nat \ {0} /\ w.accepted \in Nat
  BY DEF WindowRec
<1>2. CASE depth_ladder \in {{2, 4}, {2, 4, 5}}
  <2>1. Target(w) = LadderTarget(w)
    BY <1>2 DEF Target
  <2>2. num_spec_tokens \in {2, 4, 5}
    BY <1>2 DEF Types
  <2>3. CASE num_spec_tokens = 2
    BY <1>2, <2>1, <2>3 DEF LadderTarget, Types
  <2>4. CASE num_spec_tokens = 4
    BY <1>2, <2>1, <2>4 DEF LadderTarget, Types
  <2>5. CASE num_spec_tokens = 5
    <3>1. depth_ladder = {2, 4, 5}
      BY <1>2, <2>5 DEF Types
    <3> QED BY <2>1, <2>5, <3>1 DEF LadderTarget
  <2>6. Target(w) \in depth_ladder
    BY <2>2, <2>3, <2>4, <2>5
  <2>7. depth_ladder # {2, 5}
    <3>1. 4 \in depth_ladder
      BY <1>2
    <3> QED BY <3>1
  <2> QED BY <2>6, <2>7
<1>3. CASE depth_ladder \notin {{2, 4}, {2, 4, 5}}
  <2> DEFINE x == (2 * w.accepted + 3 * w.drafts) \div (2 * w.drafts)
             formula == Min({max_num_spec_tokens, x})
             T == {depth \in depth_ladder : depth <= formula} \cup {Min(depth_ladder)}
  <2>1. Target(w) = Max(T)
    BY <1>3 DEF Target, FormulaTarget
  <2>2. T \subseteq depth_ladder /\ T # {}
    BY LadderFacts DEF Types
  <2>3. T \subseteq Nat /\ \A d \in T : d <= max_num_spec_tokens
    <3> HIDE DEF T
    <3>1. \A d \in depth_ladder : d \in Nat /\ d <= max_num_spec_tokens
      BY DEF Types
    <3> QED BY <2>2, <3>1
  <2> HIDE DEF T
  <2>4. Max(T) \in T
    BY <2>2, <2>3, MaxNat
  <2>5. ASSUME depth_ladder = {2, 5}, w.accepted <= 2 * w.drafts
        PROVE  Max(T) = 2
    <3>1. x \in Nat /\ x <= 3
      BY <1>1, <2>5, PinnedFormula
    <3>2. formula \in Nat /\ formula <= 3
      <4> HIDE DEF x
      <4> QED BY <3>1, MinPair
    <3>3. Min({2, 5}) = 2
      BY MinPair
    <3> HIDE DEF formula
    <3> QED BY <2>4, <2>5, <3>2, <3>3 DEF T
  <2> QED BY <2>1, <2>2, <2>4, <2>5
<1> QED BY <1>2, <1>3

-----------------------------------------------------------------------------
(* The graphs                                                              *)

(* n equal query lengths.                                                  *)
LEMMA SumConstant ==
  ASSUME NEW f, NEW S, IsFiniteSet(S), NEW c \in Nat, \A x \in S : f[x] = c
  PROVE  SumFunctionOnSet(f, S) = c * Cardinality(S)
<1> DEFINE P == {s \in SUBSET S : SumFunctionOnSet(f, s) = c * Cardinality(s)}
<1>1. {} \in P
  BY SumEmpty, FS_EmptySet
<1>2. ASSUME NEW s \in SUBSET S, NEW x \in S \ s, s \in P PROVE s \cup {x} \in P
  <2>1. IsFiniteSet(s) /\ \A y \in s \cup {x} : f[y] \in Int
    BY FS_Subset
  <2>2. SumFunctionOnSet(f, s \cup {x}) = f[x] + SumFunctionOnSet(f, s)
    BY <2>1, SumAdd
  <2>3. Cardinality(s) \in Nat /\ Cardinality(s \cup {x}) = Cardinality(s) + 1
    BY <2>1, FS_AddElement, FS_CardinalityType
  <2>4. SumFunctionOnSet(f, s) = c * Cardinality(s)
    BY <1>2
  <2>5. c * (Cardinality(s) + 1) = c + c * Cardinality(s)
    BY <2>3
  <2>6. SumFunctionOnSet(f, s \cup {x}) = c * Cardinality(s \cup {x})
    BY <2>2, <2>3, <2>4, <2>5
  <2> QED BY <2>6
<1> HIDE DEF P
<1>3. S \in P
  BY <1>1, <1>2, FiniteSetInduction
<1> QED BY <1>3 DEF P

(* A finite set of numbers has a bound.                                    *)
LEMMA FiniteBound ==
  ASSUME NEW S, IsFiniteSet(S), S \subseteq Nat
  PROVE  \E m \in Nat : \A y \in S : y <= m
<1> DEFINE P == {s \in SUBSET S : \E m \in Nat : \A y \in s : y <= m}
<1>1. {} \in P
  OBVIOUS
<1>2. ASSUME NEW s \in SUBSET S, NEW x \in S \ s, s \in P PROVE s \cup {x} \in P
  <2>1. PICK m \in Nat : \A y \in s : y <= m
    BY <1>2
  <2>2. x \in Nat /\ m + x \in Nat /\ \A y \in s \cup {x} : y <= m + x
    BY <2>1
  <2> QED BY <2>2
<1> HIDE DEF P
<1>3. S \in P
  BY <1>1, <1>2, FiniteSetInduction
<1> QED BY <1>3 DEF P

(* The largest capture size is one of them.                                *)
LEMMA CaptureSizes ==
  ASSUME setting \in Settings
  PROVE  /\ setting.cudagraph_capture_sizes \subseteq Nat \ {0}
         /\ max_cudagraph_capture_size \in setting.cudagraph_capture_sizes
<1> DEFINE S == setting.cudagraph_capture_sizes
<1>1. IsFiniteSet(S) /\ S # {} /\ S \subseteq Nat \ {0}
  BY DepthAssumption
<1> HIDE DEF S
<1>2. S \subseteq Nat
  BY <1>1
<1>3. PICK m \in Nat : \A y \in S : y <= m
  BY <1>1, <1>2, FiniteBound
<1>4. Max(S) \in S
  BY <1>1, <1>2, <1>3, MaxNat
<1> QED BY <1>1, <1>4 DEF S, max_cudagraph_capture_size

(* A uniform batch at a rung finds a graph if the capture holds it: with a *)
(* separate decode routine the one of its exact shape, in mode FULL the    *)
(* smallest capture size that has room for it.                             *)
LEMMA GraphFound ==
  ASSUME Captured, NEW d \in depth_ladder, d \in Nat,
         NEW n \in Nat \ {0}, n <= max_num_reqs, NEW t \in Nat, t = (d + 1) * n,
         CaptureHolds(n, t)
  PROVE  FullGraph(n, t, d + 1)
<1> USE Constants
<1>1. graphs.adaptive = AdaptiveDescs /\ graphs.base = FixedDescs \cup MixedDescs
  BY DEF Captured
<1>2. CASE separate_decode_routine
  <2>1. n \in 1 .. max_captured_reqs
    <3>1. n <= 32
      BY <1>2 DEF CaptureHolds
    <3>2. max_captured_reqs = IF max_num_reqs <= 32 THEN max_num_reqs ELSE 32
      BY MinPair DEF max_captured_reqs
    <3> QED BY <3>1, <3>2
  <2>2. d + 1 \in adaptive_spec_decode_query_lens
    BY DEF adaptive_spec_decode_query_lens
  <2>3. PICK desc \in graphs.base \cup graphs.adaptive : desc = DecodeDesc(d + 1, n)
    BY <1>2, <2>1, <2>2 DEF Captured, GraphCoverage
  <2>4. /\ desc.cg_mode = "FULL" /\ desc.num_tokens = t /\ desc.num_reqs = n
        /\ desc.uniform_token_count = d + 1
    BY <2>3 DEF DecodeDesc
  <2>5. IsCompatible(desc, n, t, d + 1)
    BY <2>4 DEF IsCompatible
  <2>6. \A X : desc \in X => desc \in Candidates(X, t)
    BY <2>4 DEF Candidates
  <2> QED BY <2>3, <2>4, <2>5, <2>6 DEF FullGraph
<1>3. CASE ~ separate_decode_routine
  <2> DEFINE sizes == setting.cudagraph_capture_sizes
             fitting == {c \in sizes : t <= c}
             Mixed(c) == [cg_mode |-> "FULL", num_tokens |-> c,
                          num_reqs |-> Min({c, max_num_reqs}), uniform_token_count |-> 0]
  <2>1. sizes \subseteq Nat \ {0} /\ max_cudagraph_capture_size \in sizes
    BY CaptureSizes DEF Captured
  <2>2. t <= max_cudagraph_capture_size
    BY <1>3 DEF CaptureHolds
  <2>3. PICK c \in fitting : \A y \in fitting : c <= y
    <3>1. fitting \subseteq Nat /\ fitting # {}
      BY <2>1, <2>2
    <3> HIDE DEF fitting
    <3> QED BY <3>1, MinNat
  <2>4. graphs.base = {Mixed(x) : x \in sizes}
    <3>1. setting.cudagraph_mode = "FULL"
      BY <1>3 DEF separate_decode_routine
    <3>2. FixedDescs = {}
      BY <1>3 DEF FixedDescs, Capturable
    <3>3. {x \in sizes : setting.cudagraph_mode # "FULL_DECODE_ONLY"} = sizes
      BY <3>1
    <3>4. MixedDescs = {Mixed(x) : x \in sizes}
      BY <1>3, <3>3 DEF MixedDescs
    <3> QED BY <1>1, <3>2, <3>4
  <2>5. Mixed(c) \in graphs.base /\ c \in Nat /\ t <= c
    BY <2>1, <2>3, <2>4
  <2>6. n <= t
    BY d * n >= 0
  <2>7. Min({c, max_num_reqs}) >= n
    BY <2>5, <2>6, MinPair
  <2>8. IsCompatible(Mixed(c), n, t, d + 1)
    BY <2>5, <2>7 DEF IsCompatible
  <2>9. Mixed(c) \in Candidates(graphs.base, t)
    <3>1. ASSUME NEW other \in graphs.base, t <= other.num_tokens
          PROVE  c <= other.num_tokens
      <4>1. PICK x \in sizes : other = Mixed(x)
        BY <2>4
      <4>2. other.num_tokens = x
        BY <4>1
      <4> QED BY <2>3, <3>1, <4>2
    <3> QED BY <2>5, <3>1 DEF Candidates
  <2> QED BY <2>8, <2>9 DEF FullGraph
<1> QED BY <1>2, <1>3

(* Where the settings are ample, the capture holds any such batch.         *)
LEMMA AmpleHolds ==
  ASSUME Ample, Captured, NEW d \in Depths,
         NEW n \in Nat, n <= max_num_reqs, NEW t \in Nat, t = (d + 1) * n
  PROVE  CaptureHolds(n, t)
<1> USE Constants
<1>1. setting \in Settings
  BY DEF Captured
<1>2. CASE separate_decode_routine
  BY <1>1, <1>2 DEF Ample, CaptureHolds, separate_decode_routine
<1>3. CASE ~ separate_decode_routine
  <2>1. /\ max_cudagraph_capture_size \in Nat
        /\ decode_query_len * max_num_reqs <= max_cudagraph_capture_size
    BY <1>1, <1>3, CaptureSizes DEF Ample, separate_decode_routine, max_cudagraph_capture_size
  <2>2. d + 1 \in Nat /\ decode_query_len \in Nat /\ d + 1 <= decode_query_len
    BY DEF Depths, decode_query_len
  <2>3. (d + 1) * n <= decode_query_len * n
    BY <2>2
  <2>4. decode_query_len * n <= decode_query_len * max_num_reqs
    BY <2>2
  <2> QED BY <1>3, <2>1, <2>2, <2>3, <2>4 DEF CaptureHolds
<1> QED BY <1>2, <1>3

(* The graphs are fixed at the start.                                      *)
LEMMA CapturedFrame ==
  ASSUME Captured, UNCHANGED <<setting, depth_ladder, graphs>>
  PROVE  Captured'
<1>1. separate_decode_routine' = separate_decode_routine
  BY DEF separate_decode_routine
<1>2. max_cudagraph_capture_size' = max_cudagraph_capture_size
  BY DEF max_cudagraph_capture_size
<1>3. adaptive_spec_decode_query_lens' = adaptive_spec_decode_query_lens
  BY DEF adaptive_spec_decode_query_lens
<1>4. FixedDescs' = FixedDescs
  BY <1>1, <1>2 DEF FixedDescs, Capturable
<1>5. MixedDescs' = MixedDescs
  BY <1>1 DEF MixedDescs
<1>6. AdaptiveDescs' = AdaptiveDescs
  BY <1>1, <1>2, <1>3, <1>4 DEF AdaptiveDescs, Capturable
<1>7. GraphCoverage' = GraphCoverage
  BY <1>1, <1>3 DEF GraphCoverage
<1> QED BY <1>4, <1>5, <1>6, <1>7 DEF Captured

-----------------------------------------------------------------------------
(* Init satisfies the invariant.                                           *)
LEMMA InitInv == Init => IInv
<1> SUFFICES ASSUME Init PROVE IInv
  OBVIOUS
<1> USE Constants
<1>1. depth_ladder \subseteq 1 .. max_num_spec_tokens /\ max_num_spec_tokens \in depth_ladder
  <2>1. depth_ladder = parse_adaptive_spec_depth_ladder(setting.depths)
    BY DEF Init
  <2>2. setting.depths \subseteq Nat
    BY DepthAssumption DEF Init
  <2>3. \A d \in depth_ladder : d \in 1 .. max_num_spec_tokens
    BY <2>1, <2>2 DEF parse_adaptive_spec_depth_ladder
  <2>4. max_num_spec_tokens \in depth_ladder
    BY <2>1 DEF parse_adaptive_spec_depth_ladder
  <2> QED BY <2>3, <2>4
<1>2. num_spec_tokens \in depth_ladder
  BY <1>1, LadderFacts DEF Init
<1>3. window = NoWindow /\ window \in WindowRec
  BY DEF Init, NoWindow, WindowRec
<1>4. drafts = <<>> /\ flight = <<>> /\ DOMAIN flight = {} /\ Running = {}
  BY DEF Init, Running
<1>5. drafts \in [{} -> depth_ladder]
  BY <1>4
<1>6. Types
  <2>1. drafts \in UNION {[S -> depth_ladder] : S \in SUBSET Requests}
    BY <1>5
  <2>2. flight \in Seq(StepRec) /\ Len(flight) <= MaxInFlight
    BY <1>4
  <2>3. quality \in Depths
    BY DEF Init
  <2> QED BY <1>1, <1>2, <1>3, <2>1, <2>2, <2>3 DEF Types
<1>7. Counts
  BY <1>3, WindowLength DEF Counts, NoWindow
<1>8. Uniform /\ DecodeReplaysGraph /\ AmpleInv
  BY <1>4 DEF Uniform, DecodeReplaysGraph, AmpleInv
<1>9. PinInv
  <2>1. Min({2, 5}) = 2
    BY MinPair
  <2> QED BY <1>3, <1>4, <2>1 DEF PinInv, Init, NoWindow
<1>10. ProbeInv
  BY <1>3, <1>4 DEF ProbeInv, NoWindow
<1>11. Captured
  BY DEF Init, Captured
<1> QED BY <1>6, <1>7, <1>8, <1>9, <1>10, <1>11 DEF IInv

(* schedule() keeps the invariant: it drafts for everybody at one depth.   *)
LEMMA ScheduleStep ==
  ASSUME IInv, NEW prefills \in SUBSET (Requests \ Running),
         NEW ones \in SUBSET ((Requests \ Running) \ prefills),
         Schedule(prefills, ones)
  PROVE  IInv'
<1> USE Constants
<1> DEFINE pad == IF PadSpecDecode THEN max_num_spec_tokens ELSE 0
           admitted == prefills \cup ones
           all == Running \cup admitted
           spec == [r \in all |-> IF r \in Running THEN drafts[r]
                                   ELSE IF r \in ones THEN pad ELSE 0]
           query_len == [r \in all |-> IF r \in prefills THEN prompt_tokens ELSE spec[r] + 1]
           num_reqs == Cardinality(all)
           num_tokens == SumFunctionOnSet(query_len, all)
           uniform == get_uniform_token_count(num_reqs, num_tokens, Max(Range(query_len)))
           new == [spec |-> spec, admitted |-> admitted,
                   padded |-> IF pad > 0 THEN ones ELSE {},
                   held |-> CaptureHolds(num_reqs, num_tokens),
                   full |-> FullGraph(num_reqs, num_tokens, uniform)]
<1>1. /\ Len(flight) < MaxInFlight /\ all # {} /\ num_reqs <= max_num_reqs
      /\ flight' = Append(flight, new)
      /\ drafts' = [r \in all |-> num_spec_tokens]
      /\ UNCHANGED <<setting, depth_ladder, graphs, num_spec_tokens, window, quality>>
  BY DEF Schedule
<1>2. Types
  BY DEF IInv
<1>3. /\ Running \subseteq Requests /\ \A r \in Running : drafts[r] \in depth_ladder
      /\ all \subseteq Requests
  BY <1>2 DEF Types, Running
<1>4. \A d \in depth_ladder : d \in Depths /\ d \in Nat /\ d > 0
  BY <1>2, LadderFacts DEF Types
<1>5. pad \in Depths
  BY DEF Depths
<1>6. new \in StepRec
  <2>1. spec \in [all -> Depths]
    BY <1>3, <1>4, <1>5 DEF Depths
  <2>2. FullGraph(num_reqs, num_tokens, uniform) \in BOOLEAN
    BY DEF FullGraph
  <2>3. CaptureHolds(num_reqs, num_tokens) \in BOOLEAN
    BY DEF CaptureHolds
  <2> HIDE DEF spec, num_reqs, num_tokens, uniform
  <2> QED BY <1>3, <2>1, <2>2, <2>3 DEF StepRec
<1> HIDE DEF query_len, num_reqs, num_tokens, uniform
<1>7. /\ flight' \in Seq(StepRec) /\ Len(flight') = Len(flight) + 1
      /\ DOMAIN flight = 1 .. Len(flight) /\ DOMAIN flight' = 1 .. Len(flight) + 1
      /\ Len(flight) \in Nat
      /\ \A i \in DOMAIN flight : flight'[i] = flight[i]
      /\ flight'[Len(flight) + 1] = new
  <2> HIDE DEF new
  <2> QED BY <1>1, <1>2, <1>6 DEF Types
<1>8. Types'
  <2>1. drafts' \in [all -> depth_ladder]
    BY <1>1, <1>2 DEF Types
  <2> HIDE DEF all
  <2> QED BY <1>1, <1>2, <1>3, <1>7, <2>1 DEF Types
<1>9. Counts'
  BY <1>1 DEF IInv, Counts, effective_observation_window
<1>10. Running' = all /\ \A r \in Running' : drafts'[r] = num_spec_tokens
  BY <1>1 DEF Running
<1>11. Uniform'
  BY <1>10 DEF Uniform
<1>12. new.admitted = {} => (new.held => new.full) /\ (Ample => new.held)
  <2> SUFFICES ASSUME admitted = {}
               PROVE  /\ CaptureHolds(num_reqs, num_tokens)
                           => FullGraph(num_reqs, num_tokens, uniform)
                      /\ Ample => CaptureHolds(num_reqs, num_tokens)
    OBVIOUS
  <2>1. PICK d \in depth_ladder : \A r \in all : drafts[r] = d /\ r \in Running
    <3>1. PICK q \in Running : TRUE
      BY <1>1
    <3>2. \A r \in all : drafts[r] = drafts[q] /\ r \in Running
      BY DEF IInv, Uniform
    <3> QED BY <1>3, <3>1, <3>2
  <2>2. d \in Nat /\ d \in Depths /\ Captured
    BY <1>4 DEF IInv
  <2>3. DOMAIN query_len = all /\ \A r \in all : query_len[r] = d + 1
    BY <2>1 DEF query_len
  <2>4. IsFiniteSet(all)
    BY <1>3, FS_Subset
  <2>5. num_reqs \in Nat \ {0}
    BY <1>1, <2>4, FS_CardinalityType, FS_EmptySet DEF num_reqs
  <2>6. num_tokens = (d + 1) * num_reqs
    BY <2>2, <2>3, <2>4, SumConstant DEF num_tokens, num_reqs
  <2>7. Max(Range(query_len)) = d + 1
    <3>1. Range(query_len) = {d + 1, d + 1}
      BY <1>1, <2>3 DEF Range
    <3>2. Max({d + 1, d + 1}) = d + 1
      BY <2>2, MaxPair
    <3> QED BY <3>1, <3>2
  <2>8. uniform = d + 1
    BY <2>6, <2>7 DEF uniform, get_uniform_token_count
  <2>9. num_tokens \in Nat
    BY <2>2, <2>5, <2>6
  <2>10. CaptureHolds(num_reqs, num_tokens) => FullGraph(num_reqs, num_tokens, uniform)
    BY ONLY <1>1, <2>2, <2>5, <2>6, <2>8, <2>9, GraphFound
  <2>11. Ample => CaptureHolds(num_reqs, num_tokens)
    BY ONLY <1>1, <2>2, <2>5, <2>6, <2>9, AmpleHolds
  <2> QED BY <2>10, <2>11
<1>13. DecodeReplaysGraph' /\ AmpleInv'
  <2> HIDE DEF new
  <2> SUFFICES ASSUME NEW i \in DOMAIN flight', flight'[i].admitted = {}
               PROVE  (flight'[i].held => flight'[i].full) /\ (Ample => flight'[i].held)
    BY DEF DecodeReplaysGraph, AmpleInv, Ample, decode_query_len
  <2>1. CASE i \in DOMAIN flight
    BY <1>7, <2>1 DEF IInv, DecodeReplaysGraph, AmpleInv
  <2>2. CASE i \notin DOMAIN flight
    <3>1. i = Len(flight) + 1
      BY <1>7, <2>2
    <3>2. flight'[i] = new
      BY <1>7, <3>1, Zenon
    <3> QED BY <1>12, <3>2
  <2> QED BY <2>1, <2>2
<1>14. DOMAIN new.spec = all
       /\ \A r \in all \ new.padded : new.spec[r] = IF r \in Running THEN drafts[r] ELSE 0
  BY DEF Depths
<1>15. PinInv'
  <2> SUFFICES ASSUME depth_ladder = {2, 5} PROVE PinInv'
    BY <1>1 DEF PinInv
  <2>1. DraftedAt(new, 2)
    BY <1>14 DEF DraftedAt, IInv, PinInv
  <2> HIDE DEF new, all
  <2> QED BY <1>1, <1>7, <1>10, <2>1 DEF IInv, PinInv
<1>16. ProbeInv'
  <2> SUFFICES ASSUME ~ window.own, ~ window.placeholder PROVE ProbeInv'
    BY <1>1 DEF ProbeInv
  <2>1. PICK k \in Nat :
          /\ window.steps + k <= MaxInFlight
          /\ \A i \in DOMAIN flight : i > k => Fresh(flight[i])
          /\ k <= Len(flight) => \A r \in Running : drafts[r] = num_spec_tokens
    BY DEF IInv, ProbeInv
  <2>2. k <= Len(flight) => Fresh(new)
    BY <1>14, <2>1 DEF Fresh
  <2> HIDE DEF new, all
  <2>3. ASSUME NEW i \in DOMAIN flight', i > k PROVE Fresh(flight'[i])
    <3>1. CASE i \in DOMAIN flight
      BY <1>7, <2>1, <2>3, <3>1
    <3>2. CASE i \notin DOMAIN flight
      <4>1. i = Len(flight) + 1
        BY <1>7, <3>2
      <4>2. flight'[i] = new
        BY <1>7, <4>1, Zenon
      <4>3. k <= Len(flight)
        BY <1>7, <2>3, <4>1
      <4> QED BY <2>2, <4>2, <4>3
    <3> QED BY <3>1, <3>2
  <2>4. \A i \in DOMAIN flight' : i > k =>
          \A r \in DOMAIN flight'[i].spec \ flight'[i].padded :
            flight'[i].spec[r] \in {0, num_spec_tokens'}
    BY <1>1, <2>3 DEF Fresh
  <2> HIDE DEF spec
  <2> QED BY <1>1, <1>10, <2>1, <2>4 DEF ProbeInv, Fresh
<1>17. Captured'
  BY <1>1, CapturedFrame DEF IInv
<1> QED BY <1>8, <1>9, <1>11, <1>13, <1>15, <1>16, <1>17 DEF IInv

(* A request that leaves takes samples away and adds none.                 *)
LEMMA LeaveStep ==
  ASSUME IInv, NEW r \in Requests, Leave(r)
  PROVE  IInv'
<1> USE Constants
<1>1. /\ UNCHANGED <<setting, depth_ladder, graphs, num_spec_tokens, window, quality>>
      /\ drafts' = [q \in Running \ {r} |-> drafts[q]]
      /\ flight' = [i \in DOMAIN flight |->
           [flight[i] EXCEPT !.spec = [q \in DOMAIN flight[i].spec \ {r} |-> flight[i].spec[q]]]]
  BY DEF Leave, Restrict
<1>2. Types
  BY DEF IInv
<1>3. /\ Running \subseteq Requests /\ \A q \in Running : drafts[q] \in depth_ladder
      /\ Running' = Running \ {r} /\ \A q \in Running' : drafts'[q] = drafts[q]
  BY <1>1, <1>2 DEF Types, Running
<1>4. /\ Len(flight) \in Nat /\ DOMAIN flight = 1 .. Len(flight) /\ DOMAIN flight' = DOMAIN flight
      /\ \A i \in DOMAIN flight : flight[i] \in StepRec
  BY <1>1, <1>2 DEF Types
<1>5. ASSUME NEW i \in DOMAIN flight
      PROVE  /\ flight'[i] \in StepRec
             /\ flight'[i].admitted = flight[i].admitted /\ flight'[i].full = flight[i].full
             /\ flight'[i].held = flight[i].held
             /\ flight'[i].padded = flight[i].padded
             /\ DOMAIN flight'[i].spec \subseteq DOMAIN flight[i].spec
             /\ \A q \in DOMAIN flight'[i].spec : flight'[i].spec[q] = flight[i].spec[q]
  <2> DEFINE old == flight[i]
             rest == [q \in DOMAIN old.spec \ {r} |-> old.spec[q]]
  <2>1. old \in StepRec /\ flight'[i] = [old EXCEPT !.spec = rest]
    BY <1>1, <1>4
  <2>2. /\ DOMAIN rest \subseteq DOMAIN old.spec /\ DOMAIN rest \subseteq Requests
        /\ rest \in [DOMAIN rest -> Depths]
        /\ \A q \in DOMAIN rest : rest[q] = old.spec[q]
    BY <2>1, StepFacts
  <2> HIDE DEF old, rest
  <2>3. rest \in UNION {[S -> Depths] : S \in SUBSET Requests}
    BY <2>2
  <2>4. [old EXCEPT !.spec = rest] \in StepRec
    BY <2>1, <2>3 DEF StepRec
  <2>5. /\ [old EXCEPT !.spec = rest].spec = rest
        /\ [old EXCEPT !.spec = rest].admitted = old.admitted
        /\ [old EXCEPT !.spec = rest].full = old.full
        /\ [old EXCEPT !.spec = rest].held = old.held
        /\ [old EXCEPT !.spec = rest].padded = old.padded
    BY <2>1 DEF StepRec
  <2> QED BY <2>1, <2>2, <2>4, <2>5 DEF old
<1>6. Types'
  <2>1. drafts' \in [Running \ {r} -> depth_ladder]
    BY <1>1, <1>3
  <2>2. drafts' \in UNION {[S -> depth_ladder'] : S \in SUBSET Requests}
    BY <1>1, <1>3, <2>1
  <2>3. flight' = [i \in 1 .. Len(flight) |-> flight'[i]]
    BY <1>1, <1>4
  <2>4. flight' \in Seq(StepRec) /\ Len(flight') = Len(flight)
    BY <1>4, <1>5, <2>3
  <2> QED BY <1>1, <1>2, <2>2, <2>4 DEF Types
<1>7. Counts'
  BY <1>1 DEF IInv, Counts, effective_observation_window
<1>8. Uniform'
  BY <1>3 DEF IInv, Uniform
<1>9. DecodeReplaysGraph' /\ AmpleInv' /\ Captured'
  <2>1. DecodeReplaysGraph'
    BY <1>4, <1>5 DEF IInv, DecodeReplaysGraph
  <2>2. AmpleInv'
    BY <1>4, <1>5 DEF IInv, AmpleInv, Ample, decode_query_len
  <2> QED BY <1>1, <2>1, <2>2, CapturedFrame DEF IInv
<1>10. PinInv'
  <2> SUFFICES ASSUME depth_ladder = {2, 5} PROVE PinInv'
    BY <1>1 DEF PinInv
  <2>1. \A i \in DOMAIN flight' : DraftedAt(flight'[i], 2)
    BY <1>4, <1>5 DEF IInv, PinInv, DraftedAt
  <2> QED BY <1>1, <1>3, <2>1 DEF IInv, PinInv
<1>11. ProbeInv'
  <2> SUFFICES ASSUME ~ window.own, ~ window.placeholder PROVE ProbeInv'
    BY <1>1 DEF ProbeInv
  <2>1. PICK k \in Nat :
          /\ window.steps + k <= MaxInFlight
          /\ \A i \in DOMAIN flight : i > k => Fresh(flight[i])
          /\ k <= Len(flight) => \A q \in Running : drafts[q] = num_spec_tokens
    BY DEF IInv, ProbeInv
  <2>2. \A i \in DOMAIN flight' : i > k =>
          \A q \in DOMAIN flight'[i].spec \ flight'[i].padded :
            flight'[i].spec[q] \in {0, num_spec_tokens'}
    <3> SUFFICES ASSUME NEW i \in DOMAIN flight', i > k,
                        NEW q \in DOMAIN flight'[i].spec \ flight'[i].padded
                 PROVE  flight'[i].spec[q] \in {0, num_spec_tokens'}
      OBVIOUS
    <3>1. i \in DOMAIN flight /\ Fresh(flight[i])
      BY <1>4, <2>1
    <3>2. q \in DOMAIN flight[i].spec \ flight[i].padded
          /\ flight'[i].spec[q] = flight[i].spec[q]
      BY <1>5, <3>1
    <3>3. flight[i].spec[q] \in {0, num_spec_tokens}
      BY <3>1, <3>2 DEF Fresh
    <3> QED BY <1>1, <3>2, <3>3
  <2>3. Len(flight') = Len(flight)
    <3>1. flight' = [i \in 1 .. Len(flight) |-> flight'[i]]
      BY <1>1, <1>4
    <3> QED BY <1>4, <3>1
  <2>4. \A i \in DOMAIN flight' : i > k => Fresh(flight[i])'
    BY <2>2 DEF Fresh
  <2>5. window' = window /\ window'.steps + k <= MaxInFlight
    BY <1>1, <2>1
  <2>6. k <= Len(flight') => \A q \in Running' : drafts'[q] = num_spec_tokens'
    BY <1>1, <1>3, <2>1, <2>3
  <2> QED BY ONLY <2>4, <2>5, <2>6, k \in Nat DEF ProbeInv
<1> QED BY <1>6, <1>7, <1>8, <1>9, <1>10, <1>11 DEF IInv

(* The step whose output comes back, and the pipeline without it.          *)
LEMMA OutputFacts ==
  ASSUME Types, UpdateFromOutput
  PROVE  /\ Head(flight) \in StepRec /\ Head(flight) = flight[1] /\ 1 \in DOMAIN flight
         /\ flight' \in Seq(StepRec) /\ Len(flight') = Len(flight) - 1
         /\ Len(flight') \in Nat
         /\ DOMAIN flight = 1 .. Len(flight) /\ DOMAIN flight' = 1 .. Len(flight')
         /\ \A i \in DOMAIN flight' : i + 1 \in DOMAIN flight /\ flight'[i] = flight[i + 1]
         /\ UNCHANGED <<setting, depth_ladder, graphs, drafts, quality>>
<1>1. flight \in Seq(StepRec) /\ flight # <<>> /\ flight' = Tail(flight)
  BY DEF Types, UpdateFromOutput
<1>2. UNCHANGED <<setting, depth_ladder, graphs, drafts, quality>>
  BY DEF UpdateFromOutput
<1>3. Len(flight) \in Nat \ {0} /\ DOMAIN flight = 1 .. Len(flight)
  BY <1>1
<1> QED BY <1>1, <1>2, <1>3

(* The three things an output may do to the controller: nothing, a longer  *)
(* window, a verdict.                                                      *)
LEMMA OutputCases ==
  ASSUME UpdateFromOutput
  PROVE  LET w == Observed(Head(flight)) IN
         \/ /\ w.drafts = window.drafts
            /\ UNCHANGED <<num_spec_tokens, window, verdict>>
         \/ /\ w.drafts # window.drafts /\ w.steps < effective_observation_window
            /\ window' = w /\ UNCHANGED <<num_spec_tokens, verdict>>
         \/ /\ w.drafts # window.drafts /\ ~ (w.steps < effective_observation_window)
            /\ num_spec_tokens' = Target(w) /\ window' = NoWindow
            /\ verdict' = [depth |-> num_spec_tokens, own |-> w.own,
                           placeholder |-> w.placeholder]
BY DEF UpdateFromOutput

(* update_from_output() keeps the invariant.                               *)
LEMMA UpdateStep ==
  ASSUME IInv, UpdateFromOutput
  PROVE  IInv'
<1> USE Constants
<1> DEFINE step == Head(flight)
           w == Observed(step)
           sampled == {r \in DOMAIN step.spec : step.spec[r] > 0}
           same == w.drafts = window.drafts /\ window' = window
                   /\ num_spec_tokens' = num_spec_tokens
           longer == w.drafts # window.drafts /\ w.steps < effective_observation_window
                     /\ window' = w /\ num_spec_tokens' = num_spec_tokens
           judged == w.drafts # window.drafts /\ window' = NoWindow
                     /\ num_spec_tokens' = Target(w)
<1>1. Types
  BY DEF IInv
<1>2. /\ step \in StepRec /\ step = flight[1] /\ 1 \in DOMAIN flight
      /\ flight' \in Seq(StepRec) /\ Len(flight') = Len(flight) - 1
      /\ Len(flight') \in Nat
      /\ DOMAIN flight = 1 .. Len(flight) /\ DOMAIN flight' = 1 .. Len(flight')
      /\ \A i \in DOMAIN flight' : i + 1 \in DOMAIN flight /\ flight'[i] = flight[i + 1]
  BY <1>1, OutputFacts
<1>3. UNCHANGED <<setting, depth_ladder, graphs, drafts, quality>> /\ Running' = Running
  BY <1>1, OutputFacts DEF Running
<1>4. same \/ longer \/ judged
  BY OutputCases
<1> HIDE DEF step
<1>5. /\ w \in WindowRec /\ w.steps = window.steps + 1 /\ w.drafts >= window.drafts
      /\ w.drafts = window.drafts <=> sampled = {}
      /\ w.own <=> window.own \/ \E r \in sampled \ step.padded : step.spec[r] = num_spec_tokens
      /\ w.placeholder <=> window.placeholder \/ sampled \cap step.padded # {}
  BY <1>1, <1>2, ObservedFacts
<1>6. PICK n, offered, accepted, tail, lst \in Nat :
        /\ tail + lst <= accepted /\ accepted <= offered
        /\ offered <= max_num_spec_tokens * n
        /\ DraftedAt(step, 2) => accepted <= 2 * n
        /\ w.drafts = window.drafts + n
        /\ w.draft_tokens = window.draft_tokens + offered
        /\ w.accepted = window.accepted + accepted
        /\ w.tail_23 = window.tail_23 + tail
        /\ w.position_4 = window.position_4 + lst
  BY <1>1, <1>2, ObservedFacts
<1> HIDE DEF w, sampled
<1>7. window \in WindowRec
  BY <1>1 DEF Types
<1>8. /\ w.tail_23 + w.position_4 <= w.accepted /\ w.accepted <= w.draft_tokens
      /\ w.draft_tokens <= max_num_spec_tokens * w.drafts
  <2>1. /\ window.tail_23 \in Nat /\ window.position_4 \in Nat /\ window.accepted \in Nat
        /\ window.draft_tokens \in Nat /\ window.drafts \in Nat
    BY <1>7 DEF WindowRec
  <2>2. /\ window.tail_23 + window.position_4 <= window.accepted
        /\ window.accepted <= window.draft_tokens
        /\ window.draft_tokens <= max_num_spec_tokens * window.drafts
    BY DEF IInv, Counts
  <2>3. max_num_spec_tokens * (window.drafts + n)
          = max_num_spec_tokens * window.drafts + max_num_spec_tokens * n
        /\ max_num_spec_tokens * window.drafts \in Nat /\ max_num_spec_tokens * n \in Nat
    BY <2>1
  <2> QED BY <1>6, <2>1, <2>2, <2>3
<1>9. depth_ladder = {2, 5} => w.accepted <= 2 * w.drafts
  <2> SUFFICES ASSUME depth_ladder = {2, 5} PROVE w.accepted <= 2 * w.drafts
    OBVIOUS
  <2>1. window.accepted <= 2 * window.drafts /\ accepted <= 2 * n
    BY <1>2, <1>6 DEF IInv, PinInv
  <2>2. window.accepted \in Nat /\ window.drafts \in Nat
    BY <1>7 DEF WindowRec
  <2> QED BY <1>6, <2>1, <2>2
<1>10. judged => Target(w) \in depth_ladder
                 /\ (depth_ladder = {2, 5} => Target(w) = 2)
  <2>1. judged => w.drafts > 0
    BY <1>5, <1>7 DEF WindowRec
  <2> QED BY <1>1, <1>5, <1>9, <2>1, TargetFacts
<1>11. NoWindow \in WindowRec
  BY DEF NoWindow, WindowRec
<1>12. Types'
  <2>1. num_spec_tokens' \in depth_ladder'
    BY <1>1, <1>3, <1>4, <1>10 DEF Types
  <2>2. window' \in WindowRec
    BY <1>4, <1>5, <1>7, <1>11
  <2>3. Len(flight') <= MaxInFlight
    BY <1>1, <1>2 DEF Types
  <2> HIDE DEF same, longer, judged
  <2> QED BY <1>1, <1>2, <1>3, <2>1, <2>2, <2>3 DEF Types
<1>13. Counts'
  <2>1. CASE same
    BY <1>3, <2>1 DEF IInv, Counts, effective_observation_window
  <2>2. CASE longer
    <3>1. effective_observation_window' = effective_observation_window
      BY <1>3, <2>2 DEF effective_observation_window
    <3> QED BY <1>8, <2>2, <3>1 DEF Counts
  <2>3. CASE judged
    <3>1. effective_observation_window' \in Nat \ {0}
      <4>1. observation_window \div 2 \in Nat
        BY DivMod
      <4>2. Max({1, observation_window \div 2})
              = IF 1 >= observation_window \div 2 THEN 1 ELSE observation_window \div 2
        BY <4>1, MaxPair
      <4> QED BY <4>1, <4>2 DEF effective_observation_window
    <3> QED BY <2>3, <3>1 DEF Counts, NoWindow
  <2> QED BY <1>4, <2>1, <2>2, <2>3
<1>14. Uniform'
  BY <1>3 DEF IInv, Uniform
<1>15. DecodeReplaysGraph' /\ AmpleInv' /\ Captured'
  <2>1. DecodeReplaysGraph'
    BY <1>2 DEF IInv, DecodeReplaysGraph
  <2>2. AmpleInv'
    BY <1>2 DEF IInv, AmpleInv, Ample, decode_query_len
  <2> QED BY <1>3, <2>1, <2>2, CapturedFrame DEF IInv
<1>16. PinInv'
  <2> SUFFICES ASSUME depth_ladder = {2, 5} PROVE PinInv'
    BY <1>3 DEF PinInv
  <2>1. num_spec_tokens' = 2
    BY <1>4, <1>10 DEF IInv, PinInv
  <2>2. window'.accepted <= 2 * window'.drafts
    BY <1>4, <1>9 DEF IInv, PinInv, NoWindow
  <2>3. \A i \in DOMAIN flight' : DraftedAt(flight'[i], 2)
    BY <1>2 DEF IInv, PinInv
  <2> QED BY <1>3, <2>1, <2>2, <2>3 DEF IInv, PinInv
<1>17. ProbeInv'
  <2>1. CASE judged
    <3>1. /\ window'.steps + (Len(flight') + 1) <= MaxInFlight /\ Len(flight') + 1 \in Nat
          /\ \A i \in DOMAIN flight' : ~ (i > Len(flight') + 1)
          /\ ~ (Len(flight') + 1 <= Len(flight'))
      BY <1>1, <1>2, <2>1 DEF NoWindow, Types
    <3> HIDE DEF judged
    <3> QED BY <3>1 DEF ProbeInv
  <2>2. CASE same \/ longer
    <3> SUFFICES ASSUME ~ window'.own, ~ window'.placeholder PROVE ProbeInv'
      BY DEF ProbeInv
    <3>1. ~ window.own /\ ~ window.placeholder
      BY <1>5, <2>2
    <3>2. PICK k \in Nat :
            /\ window.steps + k <= MaxInFlight
            /\ \A i \in DOMAIN flight : i > k => Fresh(flight[i])
            /\ k <= Len(flight) => \A r \in Running : drafts[r] = num_spec_tokens
      BY <3>1 DEF IInv, ProbeInv
    <3>3. num_spec_tokens' = num_spec_tokens
      BY <2>2
    <3>4. window.steps \in Nat
      BY <1>7 DEF WindowRec
    <3>5. CASE k = 0
      <4>1. Fresh(step)
        BY <1>2, <3>2, <3>5
      <4>2. sampled = {}
        <5> SUFFICES ASSUME NEW r \in sampled PROVE FALSE
          OBVIOUS
        <5>1. CASE longer
          <6>1. ~ w.own /\ ~ w.placeholder
            BY <5>1
          <6>2. r \notin step.padded
            BY <1>5, <6>1
          <6>3. step.spec[r] > 0 /\ r \in DOMAIN step.spec /\ step.spec[r] \in Nat
            BY <1>2, StepFacts DEF sampled, Depths
          <6>4. step.spec[r] = num_spec_tokens
            BY <4>1, <6>2, <6>3 DEF Fresh
          <6> QED BY <1>5, <6>1, <6>2, <6>4
        <5>2. CASE same
          BY <1>5, <5>2
        <5> QED BY <2>2, <5>1, <5>2
      <4>3. window' = window
        BY <1>5, <2>2, <4>2
      <4>4. \A i \in DOMAIN flight' : i > k => Fresh(flight'[i])
        BY <1>2, <3>2, <3>5
      <4> QED BY <1>2, <1>3, <3>2, <3>3, <3>5, <4>3, <4>4 DEF ProbeInv, Fresh
    <3>6. CASE k # 0
      <4>1. k - 1 \in Nat /\ window'.steps + (k - 1) <= MaxInFlight
        BY <1>5, <2>2, <3>2, <3>4, <3>6
      <4>2. \A i \in DOMAIN flight' : i > k - 1 => Fresh(flight'[i])
        BY <1>2, <3>2
      <4>3. k - 1 <= Len(flight') => \A r \in Running' : drafts'[r] = num_spec_tokens'
        BY <1>2, <1>3, <3>2, <3>3
      <4> HIDE DEF same, longer
      <4> QED BY <3>3, <4>1, <4>2, <4>3 DEF ProbeInv, Fresh
    <3> QED BY <3>5, <3>6
  <2> QED BY <1>4, <2>1, <2>2
<1> QED BY <1>12, <1>13, <1>14, <1>15, <1>16, <1>17 DEF IInv

(* Every step keeps the invariant.                                         *)
LEMMA NextInv == IInv /\ [Next]_vars => IInv'
<1> SUFFICES ASSUME IInv, [Next]_vars PROVE IInv'
  OBVIOUS
<1>1. CASE ScheduleSome
  BY <1>1, ScheduleStep DEF ScheduleSome
<1>2. ASSUME NEW r \in Requests, Leave(r) PROVE IInv'
  BY <1>2, LeaveStep
<1>3. CASE UpdateFromOutput
  BY <1>3, UpdateStep
<1>4. CASE UNCHANGED <<setting, depth_ladder, graphs, num_spec_tokens, window, drafts, flight>>
           /\ quality' \in Depths
  <2>1. Captured'
    BY <1>4, CapturedFrame DEF IInv
  <2>2. AmpleInv'
    BY <1>4 DEF IInv, AmpleInv, Ample, decode_query_len
  <2>3. (Types /\ Counts /\ Uniform /\ DecodeReplaysGraph /\ PinInv /\ ProbeInv)'
    BY <1>4 DEF IInv, Types, Counts, Uniform, DecodeReplaysGraph, PinInv, ProbeInv, Running,
       DraftedAt, Fresh, effective_observation_window
  <2> QED BY <2>1, <2>2, <2>3 DEF IInv
<1>5. CASE Shift
  BY <1>4, <1>5, Constants DEF Shift
<1>6. CASE UNCHANGED vars
  BY <1>4, <1>6 DEF vars, IInv, Types
<1> QED BY <1>1, <1>2, <1>3, <1>5, <1>6 DEF Next

-----------------------------------------------------------------------------
(* The controller's depth is a rung and its counters stay ordered, for     *)
(* every ladder and every window (AcceptanceLengthController).             *)
THEOREM DepthTypes == Spec => []TypeOK
<1>1. IInv => TypeOK
  <2>1. Types => \A r \in Running : drafts[r] \in depth_ladder
    BY DEF Types, Running
  <2> QED BY <2>1 DEF IInv, Types, Counts, TypeOK
<1> QED BY <1>1, InitInv, NextInv, PTL DEF Spec

(* A step that admits nobody replays a graph, if it has at most 32         *)
(* requests, or in mode FULL at most as many tokens as the largest capture *)
(* size, however many steps are in flight when the depth changes.          *)
THEOREM GraphTheorem == Spec => []DecodeReplaysGraph
<1>1. IInv => DecodeReplaysGraph
  BY DEF IInv
<1> QED BY <1>1, InitInv, NextInv, PTL DEF Spec

(* Where max_num_seqs is at most 32, and in mode FULL the largest capture  *)
(* size has room for max_num_seqs verifications of the maximum depth,      *)
(* every step that admits nobody replays a graph.                          *)
THEOREM AmpleTheorem ==
  ASSUME Ample
  PROVE  Spec => [](\A i \in DOMAIN flight : flight[i].admitted = {} => flight[i].full)
<1>1. IInv => \A i \in DOMAIN flight : flight[i].admitted = {} => flight[i].full
  BY DEF IInv, DecodeReplaysGraph, AmpleInv
<1> QED BY <1>1, InitInv, NextInv, PTL DEF Spec

(* The setting 2 pins the depth although the maximum stays a rung.         *)
THEOREM PinTheorem == Spec => []PinHolds
<1>1. IInv => PinHolds
  BY DEF IInv, PinInv, PinHolds
<1> QED BY <1>1, InitInv, NextInv, PTL DEF Spec

(* A probe longer than the pipeline is judged on samples of its own depth: *)
(* half the observation window must exceed the number of steps in flight.  *)
THEOREM VerdictTheorem ==
  ASSUME observation_window \div 2 > MaxInFlight
  PROVE  Spec => []VerdictSeesItsDepth
<1> USE Constants
<1>1. Init => VerdictSeesItsDepth
  BY DEF Init, VerdictSeesItsDepth
<1>2. ASSUME IInv, VerdictSeesItsDepth, [Next]_vars
      PROVE  VerdictSeesItsDepth'
  <2>1. CASE UpdateFromOutput
    <3> DEFINE step == Head(flight)
               w == Observed(step)
               sampled == {r \in DOMAIN step.spec : step.spec[r] > 0}
    <3>1. Types
      BY <1>2 DEF IInv
    <3>2. depth_ladder' = depth_ladder /\ step \in StepRec /\ step = flight[1]
          /\ 1 \in DOMAIN flight
      BY <2>1, <3>1, OutputFacts
    <3>3. CASE verdict' = verdict
      BY <1>2, <3>2, <3>3 DEF VerdictSeesItsDepth
    <3>4. CASE /\ w.drafts # window.drafts /\ ~ (w.steps < effective_observation_window)
               /\ verdict' = [depth |-> num_spec_tokens, own |-> w.own,
                              placeholder |-> w.placeholder]
      <4> SUFFICES ASSUME num_spec_tokens # Min(depth_ladder), ~ w.own, ~ w.placeholder
                   PROVE  FALSE
        BY <3>2, <3>4 DEF VerdictSeesItsDepth
      <4> HIDE DEF step
      <4>1. /\ w.steps = window.steps + 1
            /\ w.drafts = window.drafts <=> sampled = {}
            /\ w.own <=> window.own \/ \E r \in sampled \ step.padded :
                                        step.spec[r] = num_spec_tokens
            /\ w.placeholder <=> window.placeholder \/ sampled \cap step.padded # {}
        BY <3>1, <3>2, ObservedFacts
      <4> HIDE DEF w
      <4>2. PICK k \in Nat :
              /\ window.steps + k <= MaxInFlight
              /\ \A i \in DOMAIN flight : i > k => Fresh(flight[i])
        BY <1>2, <4>1 DEF IInv, ProbeInv
      <4>3. window.steps \in Nat
        BY <3>1 DEF Types, WindowRec
      <4>4. effective_observation_window \in Nat
            /\ effective_observation_window >= observation_window \div 2
            /\ observation_window \div 2 \in Nat
        BY WindowLength, DivMod
      <4>5. k = 0
        BY <3>4, <4>1, <4>2, <4>3, <4>4
      <4>6. Fresh(step)
        BY <3>2, <4>2, <4>5
      <4>7. PICK r \in sampled : r \notin step.padded
        BY <3>4, <4>1
      <4>8. step.spec[r] = num_spec_tokens
        <5>1. step.spec[r] > 0 /\ step.spec[r] \in Nat /\ r \in DOMAIN step.spec
          BY <3>2, StepFacts DEF Depths
        <5> QED BY <4>6, <4>7, <5>1 DEF Fresh
      <4> QED BY <4>1, <4>7, <4>8
    <3> QED BY <2>1, <3>3, <3>4, OutputCases
  <2>2. CASE UNCHANGED <<depth_ladder, verdict>>
    BY <1>2, <2>2 DEF VerdictSeesItsDepth
  <2> QED BY <1>2, <2>1, <2>2 DEF Next, ScheduleSome, Schedule, Leave, Shift, vars
<1> QED BY <1>1, <1>2, InitInv, NextInv, PTL DEF Spec
=============================================================================
