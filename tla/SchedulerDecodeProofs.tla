------------------------ MODULE SchedulerDecodeProofs ------------------------
(***************************************************************************)
(* Proofs about the token accounting of Scheduler: TypeOK,                 *)
(* DecodeAccounting and OutputContiguous.                                  *)
(*                                                                         *)
(* They hold as long as a padded decode gets all the tokens it was padded  *)
(* to, and no request a negative share (PadsFit).  schedule() breaks both  *)
(* (the runs sched_pad and sched_edge); PadSafe states for which           *)
(* configurations it cannot, and there the hypothesis is proved.           *)
(***************************************************************************)
EXTENDS SchedulerProofs

(* What schedule() gave out so far: all the draft tokens it lists, and no  *)
(* negative share.                                                         *)
PadsFit ==
  /\ DraftsScheduled
  /\ \A r \in Requests : step.n[r] >= 0

(* No draft tokens, or nothing that cuts a padded decode short: no prefill *)
(* budget, no threshold below its length, and no sequence that ends at     *)
(* max_model_len.                                                          *)
PadSafe ==
  \/ num_spec_tokens = 0
  \/ /\ ~ enable_decode_aware_prefill
     /\ long_prefill_token_threshold = 0 \/ long_prefill_token_threshold > num_spec_tokens
     /\ \A r \in Requests : num_prompt_tokens[r] + max_tokens + num_spec_tokens <= max_model_len

-----------------------------------------------------------------------------
(* The batches in flight                                                   *)

BatchOK(b) ==
  \A r \in Requests :
    /\ b.n[r] >= 0 /\ b.resumed[r] >= 0
    /\ r \in b.samples => b.n[r] > 0 /\ b.spec[r] >= 0
    /\ b.n[r] = 0 => b.resumed[r] = 0
BatchesOK(B) == \A j \in 1 .. Len(B) : BatchOK(B[j])

(* The tokens that the output of a batch may bring, and those of the first *)
(* i batches.                                                              *)
Owed(b, r) == IF r \in b.samples THEN 1 + b.spec[r] ELSE 0
OwedOf(B, r, i) == SumFunctionOnSet([j \in DOMAIN B |-> Owed(B[j], r)], 1 .. i)
SharesOf(B, r, i) == SumFunctionOnSet([j \in DOMAIN B |-> B[j].n[r]], 1 .. i)

(* The batches S have no share of r; they did not resume it.               *)
Quiet(B, r, S) == \A m \in S : B[m].n[r] = 0
Joined(B, r, S) == \A m \in S : B[m].resumed[r] = 0

(* The runner goes on from the tokens of r with the first of the batches   *)
(* after k that has a share of it: because that batch resumed r with its   *)
(* tokens, or because the runner stands there.                             *)
Anchored(B, w, r, tokens, k) ==
  \/ \E j \in k + 1 .. Len(B) :
       /\ B[j].n[r] # 0 /\ B[j].resumed[r] = tokens
       /\ Quiet(B, r, k + 1 .. j - 1) /\ Joined(B, r, j + 1 .. Len(B))
  \/ /\ w = tokens
     /\ Quiet(B, r, 1 .. k) /\ Joined(B, r, k + 1 .. Len(B))

(* The batch b behind the others, and the first one gone.                  *)
LEMMA BatchTypes ==
  ASSUME NEW B \in Seq(BatchRec), NEW r \in Requests
  PROVE  /\ Len(B) \in Nat /\ DOMAIN B = 1 .. Len(B)
         /\ \A j \in 1 .. Len(B) : /\ B[j] \in BatchRec /\ B[j].n[r] \in Int
                                   /\ B[j].spec[r] \in Int /\ B[j].resumed[r] \in Int
                                   /\ Owed(B[j], r) \in Int
<1>1. Len(B) \in Nat /\ DOMAIN B = 1 .. Len(B) /\ \A j \in 1 .. Len(B) : B[j] \in BatchRec
  OBVIOUS
<1>2. \A b \in BatchRec : /\ b.n[r] \in Int /\ b.spec[r] \in Int /\ b.resumed[r] \in Int
                          /\ Owed(b, r) \in Int
  BY DEF BatchRec, Owed
<1> QED BY <1>1, <1>2

(* The sums over the first batches, when no share is negative.             *)
LEMMA BatchSums ==
  ASSUME NEW B \in Seq(BatchRec), BatchesOK(B), NEW r \in Requests
  PROVE  /\ SharesOf(B, r, 0) = 0 /\ OwedOf(B, r, 0) = 0
         /\ \A i \in 0 .. Len(B) :
              /\ SharesOf(B, r, i) \in Nat /\ OwedOf(B, r, i) \in Nat
              /\ OwedOf(B, r, i) <= OwedOf(B, r, Len(B))
              /\ \A j \in 1 .. i : /\ B[j].n[r] <= SharesOf(B, r, i)
                                   /\ Owed(B[j], r) <= OwedOf(B, r, i)
<1> DEFINE f == [j \in DOMAIN B |-> B[j].n[r]]
           g == [j \in DOMAIN B |-> Owed(B[j], r)]
<1>1. PICK m \in Nat : m = Len(B) /\ DOMAIN B = 1 .. m
  BY BatchTypes
<1>2. \A j \in 1 .. m : f[j] = B[j].n[r] /\ g[j] = Owed(B[j], r)
  BY <1>1
<1>3. \A j \in 1 .. m : f[j] \in Nat /\ g[j] \in Nat
  <2>1. \A j \in 1 .. m : B[j].n[r] >= 0 /\ (r \in B[j].samples => B[j].spec[r] >= 0)
    BY <1>1 DEF BatchesOK, BatchOK
  <2>2. \A j \in 1 .. m : B[j].n[r] \in Int /\ B[j].spec[r] \in Int
    BY <1>1, BatchTypes
  <2>3. \A j \in 1 .. m : B[j].n[r] \in Nat /\ Owed(B[j], r) \in Nat
    BY <2>1, <2>2 DEF Owed
  <2> QED BY ONLY <1>2, <2>3
<1>4. \A i : SharesOf(B, r, i) = SumFunctionOnSet(f, 1 .. i)
             /\ OwedOf(B, r, i) = SumFunctionOnSet(g, 1 .. i)
  BY DEF SharesOf, OwedOf
<1> HIDE DEF f, g
<1>5. /\ SumFunctionOnSet(f, 1 .. 0) = 0
      /\ \A i \in 0 .. m :
           /\ SumFunctionOnSet(f, 1 .. i) \in Nat
           /\ \A j \in 1 .. i : f[j] <= SumFunctionOnSet(f, 1 .. i)
  BY <1>3, PrefixSums
<1>6. /\ SumFunctionOnSet(g, 1 .. 0) = 0
      /\ \A i \in 0 .. m :
           /\ SumFunctionOnSet(g, 1 .. i) \in Nat
           /\ SumFunctionOnSet(g, 1 .. i) <= SumFunctionOnSet(g, 1 .. m)
           /\ \A j \in 1 .. i : g[j] <= SumFunctionOnSet(g, 1 .. i)
  BY <1>3, PrefixSums
<1>7. ASSUME NEW i \in 0 .. m
      PROVE  /\ SharesOf(B, r, i) \in Nat /\ OwedOf(B, r, i) \in Nat
             /\ OwedOf(B, r, i) <= OwedOf(B, r, m)
             /\ \A j \in 1 .. i : /\ B[j].n[r] <= SharesOf(B, r, i)
                                  /\ Owed(B[j], r) <= OwedOf(B, r, i)
  <2>1. \A j \in 1 .. i : j \in 1 .. m
    OBVIOUS
  <2> QED BY <1>2, <1>4, <1>5, <1>6, <2>1
<1> QED BY <1>1, <1>4, <1>5, <1>6, <1>7

(* The same sums when the batch b is put behind the others.                *)
LEMMA BatchSumsAppend ==
  ASSUME NEW B \in Seq(BatchRec), BatchesOK(B), NEW r \in Requests,
         NEW b \in BatchRec, BatchOK(b), NEW m \in Nat, m = Len(B)
  PROVE  /\ Append(B, b) \in Seq(BatchRec) /\ Len(Append(B, b)) = m + 1
         /\ BatchesOK(Append(B, b)) /\ Append(B, b)[m + 1] = b
         /\ \A j \in 1 .. m : Append(B, b)[j] = B[j]
         /\ \A i \in 0 .. m : /\ SharesOf(Append(B, b), r, i) = SharesOf(B, r, i)
                              /\ OwedOf(Append(B, b), r, i) = OwedOf(B, r, i)
         /\ OwedOf(Append(B, b), r, m + 1) = Owed(b, r) + OwedOf(B, r, m)
<1>0. PICK A : A = Append(B, b)
  OBVIOUS
<1> DEFINE f == [j \in DOMAIN B |-> B[j].n[r]]
           g == [j \in DOMAIN B |-> Owed(B[j], r)]
           ff == [j \in DOMAIN A |-> A[j].n[r]]
           gg == [j \in DOMAIN A |-> Owed(A[j], r)]
<1>1. /\ A \in Seq(BatchRec) /\ Len(A) = m + 1 /\ A[m + 1] = b
      /\ \A j \in 1 .. m : A[j] = B[j]
      /\ DOMAIN B = 1 .. m /\ DOMAIN A = 1 .. m + 1
  BY <1>0
<1>2. BatchesOK(A)
  <2>1. \A j \in 1 .. m + 1 : j \in 1 .. m \/ j = m + 1
    OBVIOUS
  <2> QED BY <1>1, <2>1 DEF BatchesOK
<1>3. /\ \A j \in 1 .. m : B[j].n[r] \in Nat /\ Owed(B[j], r) \in Nat
      /\ b.n[r] \in Nat /\ Owed(b, r) \in Nat
  <2>1. /\ \A j \in 1 .. m : B[j].n[r] >= 0 /\ (r \in B[j].samples => B[j].spec[r] >= 0)
        /\ b.n[r] >= 0 /\ (r \in b.samples => b.spec[r] >= 0)
    BY DEF BatchesOK, BatchOK
  <2>2. /\ \A j \in 1 .. m : B[j].n[r] \in Int /\ B[j].spec[r] \in Int
        /\ b.n[r] \in Int /\ b.spec[r] \in Int
    BY BatchTypes DEF BatchRec
  <2> QED BY <2>1, <2>2 DEF Owed
<1>4. /\ \A j \in 1 .. m : f[j] \in Nat /\ g[j] \in Nat /\ ff[j] = f[j] /\ gg[j] = g[j]
      /\ ff[m + 1] = b.n[r] /\ gg[m + 1] = Owed(b, r)
  BY <1>1, <1>3
<1>5. \A i : /\ SharesOf(B, r, i) = SumFunctionOnSet(f, 1 .. i)
             /\ OwedOf(B, r, i) = SumFunctionOnSet(g, 1 .. i)
             /\ SharesOf(A, r, i) = SumFunctionOnSet(ff, 1 .. i)
             /\ OwedOf(A, r, i) = SumFunctionOnSet(gg, 1 .. i)
  BY DEF SharesOf, OwedOf
<1> HIDE DEF f, g, ff, gg
<1>6. \A i \in 0 .. m : SumFunctionOnSet(ff, 1 .. i) = SumFunctionOnSet(f, 1 .. i)
  <2>1. /\ \A j \in 1 .. m : f[j] \in Nat
        /\ \A j \in 1 .. m : ff[j] = f[j]
        /\ ff[m + 1] \in Nat
    BY <1>3, <1>4
  <2> QED BY ONLY <2>1, m \in Nat, PrefixSumsAppend
<1>7. /\ \A i \in 0 .. m : SumFunctionOnSet(gg, 1 .. i) = SumFunctionOnSet(g, 1 .. i)
      /\ SumFunctionOnSet(gg, 1 .. m + 1) = gg[m + 1] + SumFunctionOnSet(g, 1 .. m)
  <2>1. /\ \A j \in 1 .. m : g[j] \in Nat
        /\ \A j \in 1 .. m : gg[j] = g[j]
        /\ gg[m + 1] \in Nat
    BY <1>3, <1>4
  <2> QED BY ONLY <2>1, m \in Nat, PrefixSumsAppend
<1> QED BY <1>0, <1>1, <1>2, <1>4, <1>5, <1>6, <1>7

(* The same sums when the first batch is gone.                             *)
LEMMA BatchSumsTail ==
  ASSUME NEW B \in Seq(BatchRec), B # <<>>, BatchesOK(B), NEW r \in Requests,
         NEW m \in Nat, m = Len(B) - 1
  PROVE  /\ Tail(B) \in Seq(BatchRec) /\ Len(Tail(B)) = m /\ BatchesOK(Tail(B))
         /\ \A j \in 1 .. m : Tail(B)[j] = B[j + 1]
         /\ \A i \in 0 .. m :
              /\ SharesOf(B, r, i + 1) = B[1].n[r] + SharesOf(Tail(B), r, i)
              /\ OwedOf(B, r, i + 1) = Owed(B[1], r) + OwedOf(Tail(B), r, i)
<1>0. PICK A : A = Tail(B)
  OBVIOUS
<1> DEFINE f == [j \in DOMAIN B |-> B[j].n[r]]
           g == [j \in DOMAIN B |-> Owed(B[j], r)]
           ff == [j \in DOMAIN A |-> A[j].n[r]]
           gg == [j \in DOMAIN A |-> Owed(A[j], r)]
<1>1. /\ A \in Seq(BatchRec) /\ Len(A) = m /\ Len(B) = m + 1
      /\ \A j \in 1 .. m : A[j] = B[j + 1]
      /\ DOMAIN B = 1 .. m + 1 /\ DOMAIN A = 1 .. m
  BY <1>0
<1>2. BatchesOK(A)
  <2>1. \A j \in 1 .. m : j + 1 \in 1 .. m + 1
    OBVIOUS
  <2> QED BY <1>1, <2>1 DEF BatchesOK
<1>3. \A j \in 1 .. m + 1 : B[j].n[r] \in Int /\ Owed(B[j], r) \in Int
  BY <1>1, BatchTypes
<1>4. /\ \A j \in 1 .. m + 1 : /\ f[j] \in Int /\ g[j] \in Int
                               /\ f[j] = B[j].n[r] /\ g[j] = Owed(B[j], r)
      /\ \A j \in 1 .. m : ff[j] = f[j + 1] /\ gg[j] = g[j + 1]
  BY <1>1, <1>3
<1>5. \A i : /\ SharesOf(B, r, i) = SumFunctionOnSet(f, 1 .. i)
             /\ OwedOf(B, r, i) = SumFunctionOnSet(g, 1 .. i)
             /\ SharesOf(A, r, i) = SumFunctionOnSet(ff, 1 .. i)
             /\ OwedOf(A, r, i) = SumFunctionOnSet(gg, 1 .. i)
  BY DEF SharesOf, OwedOf
<1> HIDE DEF f, g, ff, gg
<1>6. IsShift(f, ff, m) /\ IsShift(g, gg, m)
  BY <1>4 DEF IsShift
<1>7. \A i \in 0 .. m : /\ SumFunctionOnSet(f, 1 .. i + 1) = f[1] + SumFunctionOnSet(ff, 1 .. i)
                        /\ SumFunctionOnSet(g, 1 .. i + 1) = g[1] + SumFunctionOnSet(gg, 1 .. i)
  BY <1>6, SumShift
<1>8. f[1] = B[1].n[r] /\ g[1] = Owed(B[1], r)
  BY <1>4
<1> QED BY <1>0, <1>1, <1>2, <1>5, <1>7, <1>8
(* A batch that did not resume r, behind the others.                       *)
LEMMA AnchoredAppend ==
  ASSUME NEW B \in Seq(BatchRec), NEW b \in BatchRec, NEW w, NEW r, NEW tokens,
         NEW i \in 0 .. Len(B), Anchored(B, w, r, tokens, i), b.resumed[r] = 0
  PROVE  Anchored(Append(B, b), w, r, tokens, i)
<1>0. PICK A \in Seq(BatchRec), m \in Nat : A = Append(B, b) /\ m = Len(B)
  <2>1. Append(B, b) \in Seq(BatchRec) /\ Len(B) \in Nat
    OBVIOUS
  <2> QED BY ONLY <2>1, Zenon
<1>1. Len(A) = m + 1 /\ A[m + 1] = b /\ \A j \in 1 .. m : A[j] = B[j]
  BY <1>0
<1>2. A[m + 1].resumed[r] = 0 /\ i \in 0 .. m
  BY <1>0, <1>1
<1>3. CASE \E j \in i + 1 .. m :
             /\ B[j].n[r] # 0 /\ B[j].resumed[r] = tokens
             /\ Quiet(B, r, i + 1 .. j - 1) /\ Joined(B, r, j + 1 .. m)
  <2>1. PICK j \in i + 1 .. m :
             /\ B[j].n[r] # 0 /\ B[j].resumed[r] = tokens
             /\ Quiet(B, r, i + 1 .. j - 1) /\ Joined(B, r, j + 1 .. m)
    BY <1>3
  <2>2. j \in i + 1 .. Len(A) /\ A[j] = B[j] /\ j \in 1 .. m
    BY <1>1, <1>2
  <2>3. Quiet(A, r, i + 1 .. j - 1)
    <3>1. \A k \in i + 1 .. j - 1 : k \in 1 .. m
      BY <1>2, <2>2
    <3> QED BY <1>1, <2>1, <3>1 DEF Quiet
  <2>4. Joined(A, r, j + 1 .. Len(A))
    <3>1. \A k \in j + 1 .. m + 1 : k = m + 1 \/ (k \in j + 1 .. m /\ k \in 1 .. m)
      BY <2>2
    <3> QED BY <1>1, <1>2, <2>1, <3>1 DEF Joined
  <2>5. Anchored(A, w, r, tokens, i)
    BY <2>1, <2>2, <2>3, <2>4 DEF Anchored
  <2> QED BY <1>0, <2>5
<1>4. CASE w = tokens /\ Quiet(B, r, 1 .. i) /\ Joined(B, r, i + 1 .. m)
  <2>1. Quiet(A, r, 1 .. i)
    <3>1. \A k \in 1 .. i : k \in 1 .. m
      BY <1>2
    <3> QED BY <1>1, <1>4, <3>1 DEF Quiet
  <2>2. Joined(A, r, i + 1 .. Len(A))
    <3>1. \A k \in i + 1 .. m + 1 : k = m + 1 \/ (k \in i + 1 .. m /\ k \in 1 .. m)
      BY <1>2
    <3> QED BY <1>1, <1>2, <1>4, <3>1 DEF Joined
  <2>3. Anchored(A, w, r, tokens, i)
    BY <1>4, <2>1, <2>2 DEF Anchored
  <2> QED BY <1>0, <2>3
<1> QED BY <1>0, <1>3, <1>4 DEF Anchored

(* The first batch is gone, and it was not the one r goes on with: it had  *)
(* no share of r, or a stale one.                                          *)
LEMMA AnchoredTail ==
  ASSUME NEW B \in Seq(BatchRec), B # <<>>, NEW w, NEW v, NEW r, NEW tokens,
         NEW i \in 0 .. Len(B), Anchored(B, w, r, tokens, i),
         NEW k \in 0 .. Len(B) - 1, i = k + 1 \/ (i = 0 /\ k = 0 /\ B[1].n[r] = 0),
         B[1].n[r] = 0 => v = w
  PROVE  Anchored(Tail(B), v, r, tokens, k)
<1>0. PICK A \in Seq(BatchRec), m \in Nat : A = Tail(B) /\ m + 1 = Len(B)
  <2>1. Tail(B) \in Seq(BatchRec) /\ Len(B) - 1 \in Nat /\ (Len(B) - 1) + 1 = Len(B)
    OBVIOUS
  <2> QED BY ONLY <2>1, Zenon
<1>1. Len(A) = m /\ \A j \in 1 .. m : A[j] = B[j + 1]
  BY <1>0
<1>2. k \in 0 .. m /\ i \in 0 .. m + 1
  BY <1>0
<1>3. ASSUME NEW j \in i + 1 .. m + 1, j # 1,
             B[j].n[r] # 0, B[j].resumed[r] = tokens,
             Quiet(B, r, i + 1 .. j - 1), Joined(B, r, j + 1 .. m + 1)
      PROVE  Anchored(A, v, r, tokens, k)
  <2>1. PICK h \in k + 1 .. m : h + 1 = j
    <3>1. j - 1 \in k + 1 .. m /\ (j - 1) + 1 = j
      BY <1>2, <1>3
    <3> QED BY ONLY <3>1, Zenon
  <2>0. k \in Nat /\ k <= m /\ h \in Int /\ k + 1 <= h /\ h <= m /\ i <= k + 1 /\ i \in Int
    BY <1>2
  <2>2. h \in 1 .. m /\ A[h] = B[j]
    <3>1. h \in 1 .. m
      BY ONLY <2>0, m \in Nat
    <3> QED BY <1>1, <2>1, <3>1
  <2>3. Quiet(A, r, k + 1 .. h - 1)
    <3>1. \A l \in k + 1 .. h - 1 : l \in 1 .. m /\ l + 1 \in i + 1 .. (h + 1) - 1
      BY ONLY <2>0, m \in Nat
    <3>2. ASSUME NEW l \in k + 1 .. h - 1 PROVE A[l].n[r] = 0
      <4>1. A[l] = B[l + 1] /\ l + 1 \in i + 1 .. j - 1
        BY <1>1, <2>1, <3>1
      <4> QED BY <1>3, <4>1 DEF Quiet
    <3> QED BY <3>2 DEF Quiet
  <2>4. Joined(A, r, h + 1 .. Len(A))
    <3>1. \A l \in h + 1 .. m : l \in 1 .. m /\ l + 1 \in j + 1 .. m + 1
      BY <1>2, <2>1
    <3> QED BY <1>1, <1>3, <3>1 DEF Joined
  <2> QED BY <1>1, <1>3, <2>1, <2>2, <2>3, <2>4 DEF Anchored
<1>4. CASE \E j \in i + 1 .. m + 1 :
             /\ B[j].n[r] # 0 /\ B[j].resumed[r] = tokens
             /\ Quiet(B, r, i + 1 .. j - 1) /\ Joined(B, r, j + 1 .. m + 1)
  <2>1. PICK j \in i + 1 .. m + 1 :
             /\ B[j].n[r] # 0 /\ B[j].resumed[r] = tokens
             /\ Quiet(B, r, i + 1 .. j - 1) /\ Joined(B, r, j + 1 .. m + 1)
    BY <1>4
  <2>2. j # 1
    <3>1. CASE i = k + 1
      BY <1>2, <2>1, <3>1
    <3>2. CASE i = 0 /\ B[1].n[r] = 0
      BY <2>1, <3>2
    <3> QED BY <3>1, <3>2
  <2> QED BY <1>0, <1>3, <2>1, <2>2
<1>5. CASE w = tokens /\ Quiet(B, r, 1 .. i) /\ Joined(B, r, i + 1 .. m + 1)
  <2>1. B[1].n[r] = 0
    <3>1. CASE i = k + 1
      <4>1. 1 \in 1 .. i
        BY <1>2, <3>1
      <4> QED BY <1>5, <4>1 DEF Quiet
    <3>2. CASE i = 0 /\ B[1].n[r] = 0
      BY <3>2
    <3> QED BY <3>1, <3>2
  <2>2. Quiet(A, r, 1 .. k)
    <3>1. ASSUME NEW l \in 1 .. k PROVE A[l].n[r] = 0
      <4>1. l \in 1 .. m /\ l + 1 \in 1 .. i
        BY <1>2
      <4>2. A[l] = B[l + 1]
        BY <1>1, <4>1
      <4> QED BY <1>5, <4>1, <4>2 DEF Quiet
    <3> QED BY <3>1 DEF Quiet
  <2>3. Joined(A, r, k + 1 .. Len(A))
    <3>1. \A l \in k + 1 .. m : l \in 1 .. m /\ l + 1 \in i + 1 .. m + 1
      BY <1>2
    <3> QED BY <1>1, <1>5, <3>1 DEF Joined
  <2>4. v = tokens
    BY <1>5, <2>1
  <2>5. Anchored(A, v, r, tokens, k)
    BY <2>2, <2>3, <2>4 DEF Anchored
  <2> QED BY <1>0, <2>5
<1> QED BY <1>0, <1>4, <1>5 DEF Anchored

(* The first batch is the one r goes on with: it starts at the tokens of r,*)
(* and what comes after it goes on from where the runner is then.          *)
LEMMA AnchoredHead ==
  ASSUME NEW B \in Seq(BatchRec), B # <<>>, NEW w, NEW v, NEW r, NEW tokens,
         Anchored(B, w, r, tokens, 0), B[1].n[r] # 0, tokens # 0
  PROVE  /\ (IF B[1].resumed[r] # 0 THEN B[1].resumed[r] ELSE w) = tokens
         /\ Anchored(Tail(B), v, r, v, 0)
<1>0. PICK A \in Seq(BatchRec), m \in Nat : A = Tail(B) /\ m + 1 = Len(B)
  <2>1. Tail(B) \in Seq(BatchRec) /\ Len(B) - 1 \in Nat /\ (Len(B) - 1) + 1 = Len(B)
    OBVIOUS
  <2> QED BY ONLY <2>1, Zenon
<1>1. Len(A) = m /\ \A j \in 1 .. m : A[j] = B[j + 1]
  BY <1>0
<1>2. ASSUME Joined(B, r, 2 .. m + 1)
      PROVE  Anchored(A, v, r, v, 0)
  <2>1. Joined(A, r, 0 + 1 .. Len(A))
    <3>1. \A l \in 0 + 1 .. m : l \in 1 .. m /\ l + 1 \in 2 .. m + 1
      OBVIOUS
    <3> QED BY <1>1, <1>2, <3>1 DEF Joined
  <2>2. Quiet(A, r, 1 .. 0)
    BY DEF Quiet
  <2> QED BY <2>1, <2>2 DEF Anchored
<1>3. CASE \E j \in 0 + 1 .. m + 1 :
             /\ B[j].n[r] # 0 /\ B[j].resumed[r] = tokens
             /\ Quiet(B, r, 0 + 1 .. j - 1) /\ Joined(B, r, j + 1 .. m + 1)
  <2>1. PICK j \in 0 + 1 .. m + 1 :
             /\ B[j].n[r] # 0 /\ B[j].resumed[r] = tokens
             /\ Quiet(B, r, 0 + 1 .. j - 1) /\ Joined(B, r, j + 1 .. m + 1)
    BY <1>3
  <2>2. j = 1
    <3>1. ASSUME j # 1 PROVE B[1].n[r] = 0
      <4>1. 1 \in 0 + 1 .. j - 1
        BY <3>1
      <4> QED BY <2>1, <4>1 DEF Quiet
    <3> QED BY <3>1
  <2>3. Joined(B, r, 2 .. m + 1) /\ B[1].resumed[r] = tokens
    BY <2>1, <2>2
  <2> QED BY <1>0, <1>2, <2>3
<1>4. CASE w = tokens /\ Joined(B, r, 0 + 1 .. m + 1)
  <2>1. 1 \in 0 + 1 .. m + 1 /\ \A l \in 2 .. m + 1 : l \in 0 + 1 .. m + 1
    OBVIOUS
  <2>2. Joined(B, r, 2 .. m + 1) /\ B[1].resumed[r] = 0
    BY <1>4, <2>1 DEF Joined
  <2> QED BY <1>0, <1>2, <1>4, <2>2
<1> QED BY <1>0, <1>3, <1>4 DEF Anchored

-----------------------------------------------------------------------------
(* A request                                                               *)

Limit(r) == Lesser(num_prompt_tokens[r] + max_tokens, max_model_len)
LiveStatus == {"WAITING", "RUNNING", "PREEMPTED"}

(* The counters of a live request q; x: it was admitted in this step.      *)
(* Stale output of a running request is dropped.  In its prefill a request *)
(* owes no output; past it, its KV is short of exactly its last token.     *)
Counted(r, q, x) ==
  /\ q.tokens >= 1 /\ q.tokens < Limit(r)
  /\ q.spec \in 0 .. num_spec_tokens /\ q.computed \in 0 .. max_model_len
  /\ q.status # "RUNNING" => q.computed = 0 /\ q.placeholders = 0 /\ q.spec = 0
  /\ q.status = "RUNNING" /\ q.stale > 0 => q.drop
  /\ q.status = "RUNNING" /\ (q.chunk \/ x) =>
       q.placeholders = 0 /\ q.spec = 0 /\ q.computed < q.tokens
  /\ q.status = "RUNNING" /\ ~ x /\ ~ q.chunk =>
       q.computed = q.tokens + q.placeholders - 1

(* The first i batches in flight are the stale ones: they hold the stale   *)
(* tokens, the others owe the placeholders.  The others go on from the     *)
(* tokens of a running request; of any other request they have nothing.    *)
Split(B, w, r, q, x, i) ==
  /\ q.stale = SharesOf(B, r, i)
  /\ q.placeholders = OwedOf(B, r, Len(B)) - OwedOf(B, r, i)
  /\ IF q.status = "RUNNING" /\ ~ x THEN Anchored(B, w, r, q.tokens, i)
     ELSE Quiet(B, r, i + 1 .. Len(B))

Tracked(r, q, x, B, w) ==
  IF q.status \in LiveStatus
  THEN Counted(r, q, x) /\ \E i \in 0 .. Len(B) : Split(B, w, r, q, x, i)
  ELSE q = Fresh(q.status)

(* A share of n tokens, d of them drafts, ends in the prefill of q or      *)
(* takes it from its last token to the last draft.                         *)
Granted(q, n, d) ==
  /\ n > 0 /\ d >= 0 /\ q.spec = 0 /\ q.computed + n <= max_model_len
  /\ \/ q.placeholders = 0 /\ d = 0 /\ q.computed + n <= q.tokens
     \/ n = 1 + d /\ q.computed = q.tokens + q.placeholders - 1

(* The fields of a request.                                                *)
LEMMA Fields ==
  ASSUME NEW q \in ReqRec
  PROVE  /\ q.status \in Statuses /\ q.computed \in Int /\ q.tokens \in Int /\ q.spec \in Int
         /\ q.placeholders \in Int /\ q.in_flight \in Int /\ q.stale \in Int
         /\ q.drop \in BOOLEAN /\ q.chunk \in BOOLEAN
BY DEF ReqRec

(* The limit of a request.                                                 *)
LEMMA LimitFacts ==
  ASSUME NEW r \in Requests
  PROVE  /\ Limit(r) \in Nat /\ Limit(r) <= max_model_len
         /\ num_prompt_tokens[r] >= 1 /\ num_prompt_tokens[r] < Limit(r)
         /\ Limit(r) <= num_prompt_tokens[r] + max_tokens
BY Constants, PromptAssumption, CountsAssumption DEF Limit, Lesser

(* u is q after the step that gave it n tokens, d of them drafts, as       *)
(* _update_after_schedule leaves it.                                       *)
Scheduled(q, u, n, d) ==
  /\ u.status = q.status /\ u.stale = q.stale /\ u.tokens = q.tokens /\ u.drop = q.drop
  /\ u.computed = q.computed + n
  /\ u.chunk = (q.computed + n < q.tokens + q.placeholders)
  /\ u.spec = IF u.chunk THEN q.spec ELSE num_spec_tokens
  /\ u.placeholders = IF u.chunk THEN q.placeholders ELSE q.placeholders + 1 + d

(* Its counters are right again.                                           *)
LEMMA ScheduledCounted ==
  ASSUME NEW r \in Requests, NEW q \in ReqRec, NEW u \in ReqRec, NEW x \in BOOLEAN,
         NEW n \in Int, NEW d \in Int, q.status = "RUNNING", Counted(r, q, x),
         Granted(q, n, d), Scheduled(q, u, n, d)
  PROVE  Counted(r, u, FALSE)
<1>1. /\ q.computed \in Int /\ q.tokens \in Int /\ q.placeholders \in Int /\ q.spec \in Int
      /\ u.chunk \in BOOLEAN
  BY Fields
<1>2. q.computed >= 0 /\ q.tokens >= 1
  BY <1>1, Constants DEF Counted
<1>3. u.computed \in 0 .. max_model_len /\ u.tokens >= 1 /\ u.tokens < Limit(r)
  BY <1>1, <1>2, Constants DEF Counted, Granted, Scheduled
<1>4. CASE u.chunk
  <2>1. q.computed + n < q.tokens + q.placeholders
    BY <1>4 DEF Scheduled
  <2>2. q.placeholders = 0 /\ q.computed + n < q.tokens
    BY <1>1, <2>1 DEF Granted
  <2>3. u.placeholders = 0 /\ u.spec = 0 /\ u.computed < u.tokens
    BY <1>4, <2>2 DEF Scheduled, Granted
  <2> QED BY <1>3, <1>4, <2>3, Constants DEF Counted, Scheduled
<1>5. CASE ~ u.chunk
  <2>1. ~ (q.computed + n < q.tokens + q.placeholders)
    BY <1>5 DEF Scheduled
  <2>2. u.placeholders = q.placeholders + 1 + d /\ u.spec = num_spec_tokens
    BY <1>5 DEF Scheduled
  <2>3. q.computed + n = q.tokens + (q.placeholders + 1 + d) - 1
    <3>1. PICK c \in Int, k \in Int, p \in Int :
            c = q.computed /\ k = q.tokens /\ p = q.placeholders
      BY <1>1
    <3>2. (p = 0 /\ d = 0 /\ c + n <= k) \/ (n = 1 + d /\ c = k + p - 1)
      BY <3>1 DEF Granted
    <3>3. c + n >= k + p
      BY <2>1, <3>1
    <3>4. c + n = k + (p + 1 + d) - 1
      BY ONLY <3>2, <3>3, c \in Int, k \in Int, p \in Int, n \in Int, d \in Int
    <3> QED BY <3>1, <3>4
  <2>4. u.computed = u.tokens + u.placeholders - 1
    BY <2>2, <2>3 DEF Scheduled
  <2> QED BY <1>3, <1>5, <2>2, <2>4, Constants DEF Counted, Scheduled
<1> QED BY <1>1, <1>4, <1>5

(* The batch of the step is the newest: it carries the tokens of a request *)
(* that was admitted in it.                                                *)
LEMMA ScheduledTracked ==
  ASSUME NEW r \in Requests, NEW q \in ReqRec, NEW u \in ReqRec, NEW x \in BOOLEAN,
         NEW n \in Int, NEW d \in Int, q.status = "RUNNING",
         NEW B \in Seq(BatchRec), BatchesOK(B), NEW w, Tracked(r, q, x, B, w),
         Granted(q, n, d), Scheduled(q, u, n, d),
         NEW b \in BatchRec, BatchOK(b), b.n[r] = n, b.spec[r] = d,
         r \in b.samples <=> ~ u.chunk, b.resumed[r] = IF x THEN q.tokens ELSE 0
  PROVE  Tracked(r, u, FALSE, Append(B, b), w)
<1>0. PICK A \in Seq(BatchRec), m \in Nat : A = Append(B, b) /\ m = Len(B)
  <2>1. Append(B, b) \in Seq(BatchRec) /\ Len(B) \in Nat
    OBVIOUS
  <2> QED BY ONLY <2>1, Zenon
<1>1. Counted(r, q, x) /\ \E i \in 0 .. m : Split(B, w, r, q, x, i)
  BY <1>0 DEF Tracked, LiveStatus
<1>2. Counted(r, u, FALSE) /\ u.status = "RUNNING"
  <2>1. u.status = "RUNNING"
    BY DEF Scheduled
  <2>2. Counted(r, q, x)
    BY <1>1
  <2>3. /\ r \in Requests /\ q \in ReqRec /\ u \in ReqRec /\ x \in BOOLEAN /\ n \in Int
        /\ d \in Int /\ q.status = "RUNNING" /\ Granted(q, n, d) /\ Scheduled(q, u, n, d)
    OBVIOUS
  <2> QED BY ONLY <2>1, <2>2, <2>3, ScheduledCounted
<1>3. PICK i \in 0 .. m : Split(B, w, r, q, x, i)
  BY <1>1
<1>4. /\ Len(A) = m + 1 /\ A[m + 1] = b /\ \A j \in 1 .. m : A[j] = B[j]
      /\ SharesOf(A, r, i) = SharesOf(B, r, i) /\ OwedOf(A, r, i) = OwedOf(B, r, i)
      /\ OwedOf(A, r, m + 1) = Owed(b, r) + OwedOf(B, r, m)
  BY <1>0, BatchSumsAppend
<1>5. OwedOf(B, r, i) \in Int /\ OwedOf(B, r, m) \in Int /\ q.placeholders \in Int
  BY <1>0, BatchSums, Fields
<1>6. /\ u.stale = SharesOf(A, r, i)
  BY <1>3, <1>4 DEF Split, Scheduled
<1>7. u.placeholders = OwedOf(A, r, Len(A)) - OwedOf(A, r, i)
  <2>1. u.placeholders = q.placeholders + Owed(b, r)
    BY <1>5 DEF Scheduled, Owed
  <2>2. q.placeholders = OwedOf(B, r, m) - OwedOf(B, r, i)
    BY <1>0, <1>3 DEF Split
  <2>3. Owed(b, r) \in Int
    BY DEF Owed
  <2> QED BY <1>4, <1>5, <2>1, <2>2, <2>3
<1>8. Anchored(A, w, r, u.tokens, i)
  <2>0. u.tokens = q.tokens /\ n # 0
    BY DEF Scheduled, Granted
  <2>1. CASE x
    <3>1. Quiet(B, r, i + 1 .. m)
      BY <1>0, <1>3, <2>1 DEF Split
    <3>2. A[m + 1].n[r] # 0 /\ A[m + 1].resumed[r] = u.tokens /\ m + 1 \in i + 1 .. Len(A)
      BY <1>4, <2>0, <2>1
    <3>3. Quiet(A, r, i + 1 .. (m + 1) - 1)
      BY <1>4, <3>1 DEF Quiet
    <3>4. Joined(A, r, (m + 1) + 1 .. Len(A))
      BY <1>4 DEF Joined
    <3> QED BY <3>2, <3>3, <3>4 DEF Anchored
  <2>2. CASE ~ x
    <3>1. Anchored(B, w, r, q.tokens, i) /\ b.resumed[r] = 0
      BY <1>3, <2>2 DEF Split
    <3>2. Anchored(Append(B, b), w, r, q.tokens, i)
      BY ONLY <1>0, <1>3, <3>1, B \in Seq(BatchRec), b \in BatchRec, AnchoredAppend
    <3> QED BY <1>0, <2>0, <3>2
  <2> QED BY <2>1, <2>2
<1>9. i \in 0 .. Len(A)
  BY <1>4
<1>10. Split(A, w, r, u, FALSE, i)
  BY <1>2, <1>6, <1>7, <1>8 DEF Split
<1> QED BY <1>0, <1>2, <1>9, <1>10 DEF Tracked, LiveStatus

(* Batches that have no share of r stay so when one more comes or the      *)
(* first one goes.                                                         *)
LEMMA QuietAppend ==
  ASSUME NEW B \in Seq(BatchRec), NEW b \in BatchRec, NEW r, NEW i \in 0 .. Len(B),
         Quiet(B, r, i + 1 .. Len(B)), b.n[r] = 0
  PROVE  Quiet(Append(B, b), r, i + 1 .. Len(Append(B, b)))
<1>0. PICK A \in Seq(BatchRec), m \in Nat : A = Append(B, b) /\ m = Len(B)
  <2>1. Append(B, b) \in Seq(BatchRec) /\ Len(B) \in Nat
    OBVIOUS
  <2> QED BY ONLY <2>1, Zenon
<1>1. Len(A) = m + 1 /\ A[m + 1] = b /\ \A j \in 1 .. m : A[j] = B[j]
  BY <1>0
<1>2. ASSUME NEW j \in i + 1 .. m + 1 PROVE A[j].n[r] = 0
  <2>1. i \in 0 .. m
    BY <1>0
  <2>2. j = m + 1 \/ (j \in i + 1 .. m /\ j \in 1 .. m)
    BY <2>1
  <2> QED BY <1>0, <1>1, <2>2 DEF Quiet
<1>3. Quiet(A, r, i + 1 .. Len(A))
  BY <1>1, <1>2 DEF Quiet
<1> QED BY <1>0, <1>3

LEMMA QuietTail ==
  ASSUME NEW B \in Seq(BatchRec), B # <<>>, NEW r, NEW i \in 0 .. Len(B),
         Quiet(B, r, i + 1 .. Len(B)), NEW k \in 0 .. Len(B) - 1, i <= k + 1
  PROVE  Quiet(Tail(B), r, k + 1 .. Len(Tail(B)))
<1>0. PICK A \in Seq(BatchRec), m \in Nat : A = Tail(B) /\ m + 1 = Len(B)
  <2>1. Tail(B) \in Seq(BatchRec) /\ Len(B) - 1 \in Nat /\ (Len(B) - 1) + 1 = Len(B)
    OBVIOUS
  <2> QED BY ONLY <2>1, Zenon
<1>1. Len(A) = m /\ \A j \in 1 .. m : A[j] = B[j + 1]
  BY <1>0
<1>2. ASSUME NEW j \in k + 1 .. m PROVE A[j].n[r] = 0
  <2>1. i \in Nat /\ k \in Nat /\ i <= k + 1
    OBVIOUS
  <2>2. j \in 1 .. m /\ j + 1 \in i + 1 .. m + 1
    BY <2>1
  <2>3. Quiet(B, r, i + 1 .. m + 1) /\ A[j] = B[j + 1]
    BY <1>0, <1>1, <2>2
  <2> QED BY <2>2, <2>3 DEF Quiet
<1>3. Quiet(A, r, k + 1 .. Len(A))
  BY <1>1, <1>2 DEF Quiet
<1> QED BY <1>0, <1>3

(* A step that gave r nothing.                                             *)
LEMMA UnscheduledTracked ==
  ASSUME NEW r \in Requests, NEW q \in ReqRec, NEW w,
         NEW B \in Seq(BatchRec), BatchesOK(B), Tracked(r, q, FALSE, B, w),
         NEW b \in BatchRec, BatchOK(b), b.n[r] = 0
  PROVE  Tracked(r, q, FALSE, Append(B, b), w)
<1>0. PICK A \in Seq(BatchRec), m \in Nat : A = Append(B, b) /\ m = Len(B)
  <2>1. Append(B, b) \in Seq(BatchRec) /\ Len(B) \in Nat
    OBVIOUS
  <2> QED BY ONLY <2>1, Zenon
<1>1. CASE q.status \notin LiveStatus
  BY <1>1 DEF Tracked
<1>2. CASE q.status \in LiveStatus
  <2>1. Counted(r, q, FALSE) /\ \E i \in 0 .. m : Split(B, w, r, q, FALSE, i)
    BY <1>0, <1>2 DEF Tracked
  <2>2. PICK i \in 0 .. m : Split(B, w, r, q, FALSE, i)
    BY <2>1
  <2>3. /\ Len(A) = m + 1
        /\ SharesOf(A, r, i) = SharesOf(B, r, i) /\ OwedOf(A, r, i) = OwedOf(B, r, i)
        /\ OwedOf(A, r, m + 1) = Owed(b, r) + OwedOf(B, r, m)
    BY <1>0, BatchSumsAppend
  <2>4. Owed(b, r) = 0 /\ b.resumed[r] = 0
    BY DEF BatchOK, Owed
  <2>5. OwedOf(B, r, m) \in Int
    BY <1>0, BatchSums
  <2>6. q.stale = SharesOf(A, r, i) /\ q.placeholders = OwedOf(A, r, Len(A)) - OwedOf(A, r, i)
    BY <1>0, <2>2, <2>3, <2>4, <2>5 DEF Split
  <2>7. IF q.status = "RUNNING" THEN Anchored(A, w, r, q.tokens, i)
        ELSE Quiet(A, r, i + 1 .. Len(A))
    <3>1. /\ B \in Seq(BatchRec) /\ b \in BatchRec /\ i \in 0 .. Len(B)
          /\ b.n[r] = 0 /\ b.resumed[r] = 0
      BY <1>0, <2>4
    <3>2. CASE q.status = "RUNNING"
      <4>1. Anchored(B, w, r, q.tokens, i)
        BY <2>2, <3>2 DEF Split
      <4> QED BY ONLY <1>0, <3>1, <3>2, <4>1, AnchoredAppend
    <3>3. CASE q.status # "RUNNING"
      <4>1. Quiet(B, r, i + 1 .. Len(B))
        BY <2>2, <3>3 DEF Split
      <4> QED BY ONLY <1>0, <3>1, <3>3, <4>1, QuietAppend
    <3> QED BY <3>2, <3>3
  <2>8. Split(A, w, r, q, FALSE, i) /\ i \in 0 .. Len(A)
    BY <2>3, <2>6, <2>7 DEF Split
  <2> QED BY <1>0, <1>2, <2>1, <2>8 DEF Tracked
<1> QED BY <1>1, <1>2

(* p is q after an output that changed no counter but what is stale: the   *)
(* first batch had no share of q, or a stale one.                          *)
Shifted(q, p, n) ==
  /\ p.status = q.status /\ p.stale = q.stale - n /\ p.computed = q.computed
  /\ p.spec = q.spec /\ p.placeholders = q.placeholders /\ p.drop = q.drop
  /\ p.chunk = q.chunk
  /\ p.tokens = q.tokens \/ (q.status # "RUNNING" /\ p.tokens >= q.tokens)

(* p is q after an output that was not stale: g tokens came, rejected      *)
(* drafts were rolled back.                                                *)
Delivered(q, p, g, rejected) ==
  /\ p.status = q.status /\ p.stale = 0 /\ p.spec = q.spec /\ p.drop = q.drop
  /\ p.chunk = q.chunk /\ p.tokens = q.tokens + g
  /\ p.computed = IF q.computed > 0 THEN q.computed - rejected ELSE q.computed
  /\ p.placeholders = (IF q.placeholders > 0 THEN q.placeholders - rejected
                       ELSE q.placeholders) - g

(* The stale batches are the first ones: the oldest output is stale as     *)
(* long as there are any, and drains their shares in lockstep.             *)
LEMMA ShiftedTracked ==
  ASSUME NEW r \in Requests, NEW q \in ReqRec, NEW p \in ReqRec, NEW w, NEW v,
         NEW B \in Seq(BatchRec), B # <<>>, BatchesOK(B), q.status \in LiveStatus,
         Tracked(r, q, FALSE, B, w), NEW n \in Int, n = B[1].n[r],
         Shifted(q, p, n), p.tokens < Limit(r), n = 0 => v = w, n # 0 => q.stale > 0
  PROVE  Tracked(r, p, FALSE, Tail(B), v)
<1>0. PICK A \in Seq(BatchRec), m \in Nat : A = Tail(B) /\ m + 1 = Len(B) /\ m = Len(B) - 1
  <2>1. Tail(B) \in Seq(BatchRec) /\ Len(B) - 1 \in Nat /\ (Len(B) - 1) + 1 = Len(B)
    OBVIOUS
  <2> QED BY ONLY <2>1, Zenon
<1>1. Counted(r, q, FALSE) /\ \E i \in 0 .. m + 1 : Split(B, w, r, q, FALSE, i)
  BY <1>0 DEF Tracked
<1>2. PICK i \in 0 .. m + 1 : Split(B, w, r, q, FALSE, i)
  BY <1>1
<1>3. /\ q.tokens \in Int /\ p.tokens \in Int /\ q.stale \in Int /\ p.stale \in Int
  BY Fields
<1>4. Counted(r, p, FALSE)
  <2>1. p.tokens >= 1
    BY <1>1, <1>3 DEF Counted, Shifted
  <2>2. p.stale > 0 => q.stale > 0
    <3>1. n >= 0
      BY DEF BatchesOK, BatchOK
    <3> QED BY <1>3, <3>1 DEF Shifted
  <2> QED BY <1>1, <2>1, <2>2 DEF Counted, Shifted
<1>5. /\ Len(A) = m /\ SharesOf(B, r, 0) = 0 /\ OwedOf(B, r, 0) = 0
      /\ SharesOf(A, r, 0) = 0 /\ OwedOf(A, r, 0) = 0
      /\ \A k \in 0 .. m : /\ SharesOf(B, r, k + 1) = n + SharesOf(A, r, k)
                           /\ OwedOf(B, r, k + 1) = Owed(B[1], r) + OwedOf(A, r, k)
                           /\ SharesOf(A, r, k) \in Int /\ OwedOf(A, r, k) \in Int
  <2>1. /\ A \in Seq(BatchRec) /\ Len(A) = m /\ BatchesOK(A)
        /\ \A k \in 0 .. m : /\ SharesOf(B, r, k + 1) = B[1].n[r] + SharesOf(A, r, k)
                             /\ OwedOf(B, r, k + 1) = Owed(B[1], r) + OwedOf(A, r, k)
    BY <1>0, BatchSumsTail
  <2>2. SharesOf(B, r, 0) = 0 /\ OwedOf(B, r, 0) = 0
    BY BatchSums
  <2>3. /\ SharesOf(A, r, 0) = 0 /\ OwedOf(A, r, 0) = 0
        /\ \A k \in 0 .. m : SharesOf(A, r, k) \in Int /\ OwedOf(A, r, k) \in Int
    BY <2>1, BatchSums
  <2> QED BY <2>1, <2>2, <2>3
<1>6. Owed(B[1], r) \in Int /\ (n = 0 => Owed(B[1], r) = 0)
  <2>1. 1 \in 1 .. Len(B)
    BY <1>0
  <2>2. BatchOK(B[1]) /\ Owed(B[1], r) \in Int
    BY <2>1, BatchTypes DEF BatchesOK
  <2> QED BY <2>2 DEF BatchOK, Owed
<1>7. PICK k \in 0 .. m : i = k + 1 \/ (i = 0 /\ k = 0 /\ n = 0)
  <2>1. CASE i = 0
    <3>1. q.stale = 0
      BY <1>2, <1>5, <2>1 DEF Split
    <3>2. n = 0 /\ 0 \in 0 .. m
      BY <3>1
    <3> QED BY <2>1, <3>2
  <2>2. CASE i # 0
    <3>1. i - 1 \in 0 .. m /\ i = (i - 1) + 1
      BY <2>2
    <3> QED BY <3>1
  <2> QED BY <2>1, <2>2
<1>8. p.stale = SharesOf(A, r, k) /\ p.placeholders = OwedOf(A, r, Len(A)) - OwedOf(A, r, k)
  <2>1. PICK e \in Int, d \in Int, g \in Int, o \in Int :
          /\ e = Owed(B[1], r) /\ d = SharesOf(A, r, k) /\ g = OwedOf(A, r, k)
          /\ o = OwedOf(A, r, m)
    <3>1. m \in 0 .. m
      OBVIOUS
    <3> QED BY <1>5, <1>6, <3>1
  <2>2. /\ q.stale = SharesOf(B, r, i) /\ q.placeholders = OwedOf(B, r, m + 1) - OwedOf(B, r, i)
        /\ p.stale = q.stale - n /\ p.placeholders = q.placeholders
    BY <1>0, <1>2 DEF Split, Shifted
  <2>3. OwedOf(B, r, m + 1) = e + o
    <3>1. m \in 0 .. m
      OBVIOUS
    <3> QED BY <1>5, <2>1, <3>1
  <2>4. CASE i = k + 1
    <3>1. SharesOf(B, r, i) = n + d /\ OwedOf(B, r, i) = e + g
      BY <1>5, <2>1, <2>4
    <3>2. p.stale = (n + d) - n /\ p.placeholders = (e + o) - (e + g)
      BY <2>2, <2>3, <3>1
    <3>3. (n + d) - n = d /\ (e + o) - (e + g) = o - g
      OBVIOUS
    <3>4. SharesOf(A, r, k) = d /\ OwedOf(A, r, Len(A)) = o /\ OwedOf(A, r, k) = g
      BY <1>5, <2>1
    <3> QED BY ONLY <3>2, <3>3, <3>4
  <2>5. CASE i = 0 /\ k = 0 /\ n = 0
    <3>1. SharesOf(B, r, i) = 0 /\ OwedOf(B, r, i) = 0 /\ e = 0 /\ d = 0 /\ g = 0
      BY <1>5, <1>6, <2>1, <2>5
    <3>2. p.stale = 0 - n /\ p.placeholders = (e + o) - 0
      BY <2>2, <2>3, <3>1
    <3> QED BY <1>5, <2>1, <2>5, <3>1, <3>2
  <2> QED BY <1>7, <2>4, <2>5
<1>9. IF p.status = "RUNNING" THEN Anchored(A, v, r, p.tokens, k)
      ELSE Quiet(A, r, k + 1 .. Len(A))
  <2>0. /\ B \in Seq(BatchRec) /\ B # <<>> /\ i \in 0 .. Len(B) /\ k \in 0 .. Len(B) - 1
        /\ (i = k + 1 \/ (i = 0 /\ k = 0 /\ B[1].n[r] = 0))
        /\ B[1].n[r] = 0 => v = w
    BY <1>0, <1>7
  <2>1. CASE p.status = "RUNNING"
    <3>1. Anchored(B, w, r, p.tokens, i)
      BY <1>2, <2>1 DEF Split, Shifted
    <3>2. Anchored(Tail(B), v, r, p.tokens, k)
      BY ONLY <2>0, <3>1, AnchoredTail
    <3> QED BY <1>0, <2>1, <3>2
  <2>2. CASE p.status # "RUNNING"
    <3>1. Quiet(B, r, i + 1 .. Len(B))
      BY <1>2, <2>2 DEF Split, Shifted
    <3>2. i <= k + 1
      BY <1>7
    <3>3. Quiet(Tail(B), r, k + 1 .. Len(Tail(B)))
      BY ONLY <2>0, <3>1, <3>2, QuietTail
    <3> QED BY <1>0, <2>2, <3>3
  <2> QED BY <2>1, <2>2
<1>10. Split(A, v, r, p, FALSE, k) /\ k \in 0 .. Len(A) /\ p.status \in LiveStatus
  BY <1>5, <1>8, <1>9 DEF Split, Shifted
<1> QED BY <1>0, <1>4, <1>10 DEF Tracked

(* The oldest output is not stale: r runs, its output starts at the tokens *)
(* it has, and rejected drafts are rolled back once.                       *)
LEMMA DeliveredTracked ==
  ASSUME NEW r \in Requests, NEW q \in ReqRec, NEW p \in ReqRec, NEW w, NEW v,
         NEW B \in Seq(BatchRec), B # <<>>, BatchesOK(B), q.status \in LiveStatus,
         Tracked(r, q, FALSE, B, w), B[1].n[r] # 0, ~ (q.stale > 0),
         NEW acc \in Nat, NEW g \in Int, NEW rejected \in Int,
         IF r \in B[1].samples
         THEN acc <= B[1].spec[r] /\ g = 1 + acc /\ rejected = B[1].spec[r] - acc
         ELSE g = 0 /\ rejected = 0,
         Delivered(q, p, g, rejected), p.tokens < Limit(r),
         v = (IF B[1].resumed[r] # 0 THEN B[1].resumed[r] ELSE w) + g
  PROVE  Tracked(r, p, FALSE, Tail(B), v)
<1>0. PICK A \in Seq(BatchRec), m \in Nat : A = Tail(B) /\ m + 1 = Len(B) /\ m = Len(B) - 1
  <2>1. Tail(B) \in Seq(BatchRec) /\ Len(B) - 1 \in Nat /\ (Len(B) - 1) + 1 = Len(B)
    OBVIOUS
  <2> QED BY ONLY <2>1, Zenon
<1>1. Counted(r, q, FALSE) /\ \E i \in 0 .. m + 1 : Split(B, w, r, q, FALSE, i)
  BY <1>0 DEF Tracked
<1>2. PICK i \in 0 .. m + 1 : Split(B, w, r, q, FALSE, i)
  BY <1>1
<1>3. /\ q.tokens \in Int /\ q.stale \in Int /\ q.computed \in Int /\ q.placeholders \in Int
      /\ q.chunk \in BOOLEAN
  BY Fields
<1>4. 1 \in 1 .. m + 1 /\ BatchOK(B[1]) /\ Owed(B[1], r) \in Int /\ B[1].n[r] \in Int
      /\ B[1].spec[r] \in Int
  <2>1. 1 \in 1 .. Len(B)
    BY <1>0
  <2> QED BY <1>0, <2>1, BatchTypes DEF BatchesOK
<1>5. i = 0
  <2> SUFFICES ASSUME i # 0 PROVE FALSE
    OBVIOUS
  <2>1. B[1].n[r] <= SharesOf(B, r, i) /\ SharesOf(B, r, i) \in Nat
    <3>1. i \in 0 .. Len(B) /\ 1 \in 1 .. i
      BY <1>0
    <3> QED BY <3>1, BatchSums
  <2>2. q.stale = SharesOf(B, r, i) /\ B[1].n[r] > 0
    BY <1>2, <1>4 DEF Split, BatchOK
  <2> QED BY <1>4, <2>1, <2>2
<1>6. q.status = "RUNNING"
  <2> SUFFICES ASSUME q.status # "RUNNING" PROVE FALSE
    OBVIOUS
  <2>1. Quiet(B, r, 0 + 1 .. Len(B)) /\ 1 \in 0 + 1 .. Len(B)
    BY <1>0, <1>2, <1>5 DEF Split
  <2> QED BY <2>1 DEF Quiet
<1>7. Anchored(B, w, r, q.tokens, 0) /\ q.tokens >= 1 /\ q.tokens # 0
  BY <1>1, <1>2, <1>3, <1>5, <1>6 DEF Split, Counted
<1>8. /\ Len(A) = m /\ OwedOf(B, r, 0) = 0 /\ SharesOf(A, r, 0) = 0 /\ OwedOf(A, r, 0) = 0
      /\ OwedOf(B, r, m + 1) = Owed(B[1], r) + OwedOf(A, r, m) /\ OwedOf(A, r, m) \in Nat
  <2>1. /\ A \in Seq(BatchRec) /\ Len(A) = m /\ BatchesOK(A)
        /\ \A k \in 0 .. m : OwedOf(B, r, k + 1) = Owed(B[1], r) + OwedOf(A, r, k)
    BY <1>0, BatchSumsTail
  <2>2. OwedOf(B, r, 0) = 0
    BY BatchSums
  <2>3. m \in 0 .. m
    OBVIOUS
  <2>4. SharesOf(A, r, 0) = 0 /\ OwedOf(A, r, 0) = 0 /\ OwedOf(A, r, m) \in Nat
    BY <2>1, <2>3, BatchSums
  <2> QED BY <2>1, <2>2, <2>3, <2>4
<1>9. v = p.tokens /\ Anchored(A, p.tokens, r, p.tokens, 0)
  <2>0. /\ B \in Seq(BatchRec) /\ B # <<>> /\ B[1].n[r] # 0
        /\ Anchored(B, w, r, q.tokens, 0) /\ q.tokens # 0
    BY <1>7
  <2>1. /\ (IF B[1].resumed[r] # 0 THEN B[1].resumed[r] ELSE w) = q.tokens
        /\ Anchored(Tail(B), p.tokens, r, p.tokens, 0)
    BY ONLY <2>0, AnchoredHead
  <2>3. p.tokens = q.tokens + g
    BY DEF Delivered
  <2> QED BY <1>0, <2>1, <2>3
<1>10. PICK c \in Int, k \in Int, h \in Int, o \in Nat :
         /\ c = q.computed /\ k = q.tokens /\ h = q.placeholders /\ o = OwedOf(A, r, m)
  BY <1>3, <1>8
<1>11. h = Owed(B[1], r) + o
  <2>1. q.placeholders = OwedOf(B, r, m + 1) - 0
    BY <1>0, <1>2, <1>5, <1>8 DEF Split
  <2>2. PICK e \in Int : e = Owed(B[1], r)
    BY <1>4
  <2>3. h = (e + o) - 0
    BY <1>8, <1>10, <2>1, <2>2
  <2> QED BY ONLY <2>2, <2>3, h \in Int, o \in Nat
<1>12. c >= 0 /\ c <= max_model_len /\ k >= 1
  BY <1>1, <1>7, <1>10, Constants DEF Counted
<1>13. /\ p.tokens = k + g /\ p.tokens >= 1 /\ p.placeholders = o
       /\ p.computed \in 0 .. max_model_len
       /\ IF q.chunk THEN p.computed < p.tokens /\ o = 0 ELSE p.computed = p.tokens + o - 1
  <2>1. /\ p.tokens = k + g
        /\ p.computed = IF c > 0 THEN c - rejected ELSE c
        /\ p.placeholders = (IF h > 0 THEN h - rejected ELSE h) - g
    BY <1>10 DEF Delivered
  <2>2. q.chunk => h = 0 /\ c < k
    BY <1>1, <1>6, <1>10 DEF Counted
  <2>3. ~ q.chunk => c = k + h - 1
    BY <1>1, <1>6, <1>10 DEF Counted
  <2>4. CASE r \in B[1].samples
    <3>1. PICK d \in Int : d = B[1].spec[r]
      BY <1>4
    <3>2. acc <= d /\ g = 1 + acc /\ rejected = d - acc /\ h = 1 + d + o
      BY <1>11, <2>4, <3>1 DEF Owed
    <3>3. h > 0 /\ ~ q.chunk
      BY ONLY <2>2, <3>2, acc \in Nat, d \in Int, o \in Nat
    <3>4. c = k + h - 1
      BY <2>3, <3>3
    <3>5. c > 0
      BY ONLY <1>12, <3>3, <3>4, c \in Int, k \in Int, h \in Int
    <3>6. p.tokens = k + g /\ p.computed = c - rejected /\ p.placeholders = (h - rejected) - g
      BY <2>1, <3>3, <3>5
    <3>7. /\ k + g >= 1 /\ (h - rejected) - g = o /\ c - rejected = (k + g) + o - 1
          /\ c - rejected >= 0 /\ c - rejected <= c
      BY ONLY <1>12, <3>2, <3>4, acc \in Nat, d \in Int, o \in Nat, c \in Int, k \in Int
    <3>8. c - rejected \in 0 .. max_model_len
      BY <1>12, <3>7, Constants
    <3> QED BY <3>3, <3>6, <3>7, <3>8
  <2>5. CASE r \notin B[1].samples
    <3>1. g = 0 /\ rejected = 0 /\ h = o
      BY <1>11, <2>5 DEF Owed
    <3>2. p.tokens = k /\ p.computed = c /\ p.placeholders = h
      BY <2>1, <3>1
    <3>3. c \in 0 .. max_model_len
      BY <1>12, Constants
    <3>4. CASE q.chunk
      BY <1>12, <2>2, <3>1, <3>2, <3>3, <3>4
    <3>5. CASE ~ q.chunk
      BY <1>12, <2>3, <3>1, <3>2, <3>3, <3>5
    <3> QED BY <1>3, <3>4, <3>5
  <2> QED BY <2>4, <2>5
<1>14. Counted(r, p, FALSE)
  <2>1. /\ p.status = "RUNNING" /\ p.stale = 0 /\ p.spec = q.spec /\ p.chunk = q.chunk
        /\ q.spec \in 0 .. num_spec_tokens /\ (q.chunk => q.spec = 0)
    BY <1>1, <1>6 DEF Counted, Delivered
  <2>2. CASE q.chunk
    BY <1>13, <2>1, <2>2 DEF Counted
  <2>3. CASE ~ q.chunk
    BY <1>13, <2>1, <2>3 DEF Counted
  <2> QED BY <1>3, <2>2, <2>3
<1>15. Split(A, v, r, p, FALSE, 0)
  <2>1. p.stale = 0 /\ p.status = "RUNNING"
    BY <1>6 DEF Delivered
  <2> QED BY <1>8, <1>9, <1>10, <1>13, <2>1 DEF Split
<1>16. 0 \in 0 .. Len(A) /\ p.status \in LiveStatus
  BY <1>6, <1>8 DEF Delivered, LiveStatus
<1> QED BY <1>0, <1>14, <1>15, <1>16 DEF Tracked

(* Frames: what Tracked and Granted read of a request.                     *)
SameCounters(q, u) ==
  /\ u.status = q.status /\ u.tokens = q.tokens /\ u.computed = q.computed
  /\ u.placeholders = q.placeholders /\ u.stale = q.stale /\ u.drop = q.drop
  /\ u.chunk = q.chunk

(* The RUNNING loop: the drafts of a request are taken into the step.      *)
LEMMA HeldTracked ==
  ASSUME NEW r \in Requests, NEW q \in ReqRec, NEW u \in ReqRec, NEW w,
         NEW B \in Seq(BatchRec), q.status = "RUNNING",
         Tracked(r, q, FALSE, B, w), SameCounters(q, u), u.spec = 0
  PROVE  Tracked(r, u, FALSE, B, w)
<1>1. Counted(r, q, FALSE) /\ \E i \in 0 .. Len(B) : Split(B, w, r, q, FALSE, i)
  BY DEF Tracked, LiveStatus
<1>2. 0 \in 0 .. num_spec_tokens
  BY Constants
<1>3. Counted(r, u, FALSE)
  BY <1>1, <1>2 DEF Counted, SameCounters
<1>4. PICK i \in 0 .. Len(B) : Split(B, w, r, q, FALSE, i)
  BY <1>1
<1>5. Split(B, w, r, u, FALSE, i) /\ u.status \in LiveStatus
  BY <1>4 DEF Split, SameCounters, LiveStatus
<1> QED BY <1>3, <1>5 DEF Tracked

(* Its share goes no further than its last token in the prefill, and       *)
(* exactly one token before the drafts past it.                            *)
LEMMA HeldGranted ==
  ASSUME NEW r \in Requests, NEW q \in ReqRec, NEW u \in ReqRec, q.status = "RUNNING",
         Counted(r, q, FALSE), SameCounters(q, u), u.spec = 0,
         NEW n \in Int, NEW d \in Int, n > 0,
         n <= q.tokens + q.spec + q.placeholders - q.computed,
         n <= max_model_len - q.computed - 1,
         d = Greater(0, Lesser(q.spec, n + q.computed - q.tokens - q.placeholders))
  PROVE  Granted(u, n, d)
<1>1. PICK c \in Int, k \in Int, h \in Int, s \in Int, top \in Int :
        /\ c = q.computed /\ k = q.tokens /\ h = q.placeholders /\ s = q.spec
        /\ top = max_model_len
  BY Fields, Constants
<1>2. /\ n <= k + s + h - c /\ n <= top - c - 1 /\ s >= 0
      /\ d = Greater(0, Lesser(s, n + c - k - h))
  BY <1>1, Constants DEF Counted
<1>3. c + n <= top
  BY ONLY <1>2, c \in Int, n \in Int, top \in Int
<1>4. /\ u.computed = c /\ u.tokens = k /\ u.placeholders = h
  BY <1>1 DEF SameCounters
<1>5. CASE q.chunk
  <2>1. h = 0 /\ s = 0
    BY <1>1, <1>5 DEF Counted
  <2>2. d = 0 /\ c + n <= k
    <3>1. n + c - k - h \in Int
      OBVIOUS
    <3> QED BY <1>2, <2>1, <3>1 DEF Greater, Lesser
  <2> QED BY <1>1, <1>3, <1>4, <2>1, <2>2 DEF Granted
<1>6. CASE ~ q.chunk
  <2>1. c = k + h - 1
    BY <1>1, <1>6 DEF Counted
  <2>2. n - 1 <= s /\ n + c - k - h = n - 1 /\ n - 1 \in Nat
    BY <1>2, <2>1
  <2>3. d = n - 1
    BY <1>2, <2>2 DEF Greater, Lesser
  <2>4. n = 1 + d /\ d >= 0
    BY <2>3
  <2> QED BY <1>1, <1>3, <1>4, <2>1, <2>4 DEF Granted
<1> QED BY <1>5, <1>6, Fields

(* The WAITING loop: the request runs from what the cache has of it.       *)
LEMMA AdmittedTracked ==
  ASSUME NEW r \in Requests, NEW q \in ReqRec, NEW u \in ReqRec, NEW w,
         NEW B \in Seq(BatchRec), q.status \in {"WAITING", "PREEMPTED"},
         Tracked(r, q, FALSE, B, w), NEW hit \in Int, 0 <= hit, hit < q.tokens,
         q.stale > 0 => q.drop,
         u.status = "RUNNING", u.tokens = q.tokens, u.computed = hit, u.spec = q.spec,
         u.placeholders = q.placeholders, u.stale = q.stale, u.drop = q.drop
  PROVE  /\ Tracked(r, u, TRUE, B, w)
         /\ q.tokens < Limit(r) /\ u.placeholders = 0 /\ u.spec = 0
<1>1. Counted(r, q, FALSE) /\ \E i \in 0 .. Len(B) : Split(B, w, r, q, FALSE, i)
  BY DEF Tracked, LiveStatus
<1>2. hit \in 0 .. max_model_len
  <2>1. q.tokens < Limit(r) /\ q.tokens \in Int
    BY <1>1, Fields DEF Counted
  <2>2. Limit(r) \in Nat /\ Limit(r) <= max_model_len
    BY LimitFacts
  <2> QED BY <2>1, <2>2, Constants
<1>3. q.placeholders = 0 /\ q.spec = 0
  BY <1>1 DEF Counted
<1>4. Counted(r, u, TRUE)
  BY <1>1, <1>2, <1>3 DEF Counted
<1>5. PICK i \in 0 .. Len(B) : Split(B, w, r, q, FALSE, i)
  BY <1>1
<1>6. Split(B, w, r, u, TRUE, i) /\ u.status \in LiveStatus
  BY <1>5 DEF Split, LiveStatus
<1> QED BY <1>1, <1>3, <1>4, <1>6 DEF Tracked, Counted

(* _preempt_request: all that is in flight is stale.                       *)
LEMMA PreemptedTracked ==
  ASSUME NEW r \in Requests, NEW q \in ReqRec, NEW u \in ReqRec, NEW w,
         NEW B \in Seq(BatchRec), BatchesOK(B), q.status = "RUNNING",
         Tracked(r, q, FALSE, B, w), q.in_flight = SharesOf(B, r, Len(B)),
         u.status = "PREEMPTED", u.tokens = q.tokens, u.computed = 0, u.spec = 0,
         u.placeholders = 0, u.stale = q.in_flight
  PROVE  Tracked(r, u, FALSE, B, w)
<1>1. Counted(r, q, FALSE)
  BY DEF Tracked, LiveStatus
<1>2. 0 \in 0 .. num_spec_tokens /\ 0 \in 0 .. max_model_len
  BY Constants
<1>3. Counted(r, u, FALSE)
  BY <1>1, <1>2 DEF Counted
<1>4. PICK m \in Nat : m = Len(B)
  BY BatchTypes
<1>5. OwedOf(B, r, m) \in Int
  <2>1. m \in 0 .. Len(B)
    BY <1>4
  <2> QED BY <1>4, <2>1, BatchSums
<1>6. Quiet(B, r, m + 1 .. m)
  <2>1. \A j \in m + 1 .. m : FALSE
    OBVIOUS
  <2> QED BY <2>1 DEF Quiet
<1>7. 0 = OwedOf(B, r, m) - OwedOf(B, r, m)
  BY <1>5
<1>8. Split(B, w, r, u, FALSE, m) /\ m \in 0 .. Len(B) /\ u.status \in LiveStatus
  BY <1>4, <1>6, <1>7 DEF Split, LiveStatus
<1> QED BY <1>3, <1>8 DEF Tracked

-----------------------------------------------------------------------------
(* A preempted request whose output in flight will be delivered            *)

(* With at most two batches in flight, one of them has a share of it, and  *)
(* starts at its tokens.                                                   *)
Lone(B, r) == \A j, k \in 1 .. Len(B) : B[j].n[r] # 0 /\ B[k].n[r] # 0 => j = k
Lonely(r, q, B, w) ==
  q.status \in {"WAITING", "PREEMPTED"} /\ ~ q.drop =>
    Quiet(B, r, 0 + 1 .. Len(B)) \/ (Anchored(B, w, r, q.tokens, 0) /\ Lone(B, r))

(* A batch without a share of it comes.                                    *)
LEMMA LonelyAppend ==
  ASSUME NEW r \in Requests, NEW q, NEW w, NEW B \in Seq(BatchRec),
         NEW b \in BatchRec, BatchOK(b), b.n[r] = 0, Lonely(r, q, B, w)
  PROVE  Lonely(r, q, Append(B, b), w)
<1> SUFFICES ASSUME q.status \in {"WAITING", "PREEMPTED"}, ~ q.drop
             PROVE  \/ Quiet(Append(B, b), r, 0 + 1 .. Len(Append(B, b)))
                    \/ Anchored(Append(B, b), w, r, q.tokens, 0) /\ Lone(Append(B, b), r)
  BY DEF Lonely
<1>0. /\ B \in Seq(BatchRec) /\ b \in BatchRec /\ 0 \in 0 .. Len(B) /\ b.n[r] = 0
      /\ b.resumed[r] = 0
  BY DEF BatchOK
<1>1. CASE Quiet(B, r, 0 + 1 .. Len(B))
  BY ONLY <1>0, <1>1, QuietAppend
<1>2. CASE Anchored(B, w, r, q.tokens, 0) /\ Lone(B, r)
  <2>1. Anchored(Append(B, b), w, r, q.tokens, 0)
    BY ONLY <1>0, <1>2, AnchoredAppend
  <2>2. Lone(Append(B, b), r)
    <3>0. PICK A \in Seq(BatchRec), m \in Nat : A = Append(B, b) /\ m = Len(B)
      <4>1. Append(B, b) \in Seq(BatchRec) /\ Len(B) \in Nat
        OBVIOUS
      <4> QED BY ONLY <4>1, Zenon
    <3>1. Len(A) = m + 1 /\ A[m + 1] = b /\ \A j \in 1 .. m : A[j] = B[j]
      BY <3>0
    <3>2. \A j \in 1 .. m + 1 : A[j].n[r] # 0 => j \in 1 .. m
      <4>1. \A j \in 1 .. m + 1 : j \in 1 .. m \/ j = m + 1
        OBVIOUS
      <4> QED BY <3>1, <4>1
    <3>3. \A j, k \in 1 .. m : B[j].n[r] # 0 /\ B[k].n[r] # 0 => j = k
      BY <1>2, <3>0 DEF Lone
    <3>4. \A j, k \in 1 .. m + 1 : A[j].n[r] # 0 /\ A[k].n[r] # 0 => j = k
      BY ONLY <3>1, <3>2, <3>3
    <3> QED BY <3>0, <3>1, <3>4 DEF Lone
  <2> QED BY <2>1, <2>2
<1> QED BY <1>1, <1>2 DEF Lonely

(* The oldest batch goes: after its output there is nothing left, or it    *)
(* had no share.                                                           *)
LEMMA LonelyTail ==
  ASSUME NEW r \in Requests, NEW q, NEW p, NEW w, NEW v,
         NEW B \in Seq(BatchRec), B # <<>>, Lonely(r, q, B, w),
         p.status = q.status, p.drop = q.drop,
         B[1].n[r] = 0 => v = w /\ p.tokens = q.tokens
  PROVE  Lonely(r, p, Tail(B), v)
<1> SUFFICES ASSUME q.status \in {"WAITING", "PREEMPTED"}, ~ q.drop
             PROVE  \/ Quiet(Tail(B), r, 0 + 1 .. Len(Tail(B)))
                    \/ Anchored(Tail(B), v, r, p.tokens, 0) /\ Lone(Tail(B), r)
  BY DEF Lonely
<1>0. PICK A \in Seq(BatchRec), m \in Nat : A = Tail(B) /\ m + 1 = Len(B)
  <2>1. Tail(B) \in Seq(BatchRec) /\ Len(B) - 1 \in Nat /\ (Len(B) - 1) + 1 = Len(B)
    OBVIOUS
  <2> QED BY ONLY <2>1, Zenon
<1>1. Len(A) = m /\ \A j \in 1 .. m : A[j] = B[j + 1]
  BY <1>0
<1>2. /\ B \in Seq(BatchRec) /\ B # <<>> /\ 0 \in 0 .. Len(B) /\ 0 \in 0 .. Len(B) - 1
      /\ 0 <= 0 + 1
  BY <1>0
<1>3. CASE Quiet(B, r, 0 + 1 .. Len(B))
  BY ONLY <1>2, <1>3, QuietTail
<1>4. CASE Anchored(B, w, r, q.tokens, 0) /\ Lone(B, r) /\ B[1].n[r] # 0
  <2>1. ASSUME NEW j \in 0 + 1 .. m PROVE A[j].n[r] = 0
    <3>1. j \in 1 .. m /\ j + 1 \in 1 .. m + 1 /\ 1 \in 1 .. m + 1 /\ j + 1 # 1
      OBVIOUS
    <3>2. B[j + 1].n[r] = 0
      BY <1>0, <1>4, <3>1 DEF Lone
    <3> QED BY <1>1, <3>1, <3>2
  <2>2. Quiet(A, r, 0 + 1 .. Len(A))
    BY <1>1, <2>1 DEF Quiet
  <2> QED BY <1>0, <2>2
<1>5. CASE Anchored(B, w, r, q.tokens, 0) /\ Lone(B, r) /\ B[1].n[r] = 0
  <2>1. p.tokens = q.tokens /\ (B[1].n[r] = 0 => v = w)
        /\ 0 = 0 /\ B[1].n[r] = 0
    BY <1>5
  <2>2. Anchored(Tail(B), v, r, q.tokens, 0)
    BY ONLY <1>2, <1>5, <2>1, AnchoredTail
  <2>3. \A j, k \in 1 .. m : A[j].n[r] # 0 /\ A[k].n[r] # 0 => j = k
    <3> SUFFICES ASSUME NEW j \in 1 .. m, NEW k \in 1 .. m, A[j].n[r] # 0, A[k].n[r] # 0
                 PROVE  j = k
      OBVIOUS
    <3>1. j + 1 \in 1 .. m + 1 /\ k + 1 \in 1 .. m + 1
      OBVIOUS
    <3>2. B[j + 1].n[r] # 0 /\ B[k + 1].n[r] # 0
      BY <1>1
    <3>3. j + 1 = k + 1
      BY <1>0, <1>5, <3>1, <3>2 DEF Lone
    <3> QED BY <3>3
  <2>4. Lone(A, r)
    BY <1>1, <2>3 DEF Lone
  <2> QED BY <1>0, <2>1, <2>2, <2>4
<1> QED BY <1>3, <1>4, <1>5 DEF Lonely

(* A request is preempted and its output in flight is kept: none of it was *)
(* stale, so the first batch with a share goes on from its tokens.         *)
LEMMA LonelyPreempted ==
  ASSUME NEW r \in Requests, NEW q \in ReqRec, NEW u, NEW w,
         NEW B \in Seq(BatchRec), BatchesOK(B), Len(B) <= 1, q.status = "RUNNING",
         Tracked(r, q, FALSE, B, w), u.tokens = q.tokens,
         u.drop = (q.drop /\ q.stale > 0)
  PROVE  Lonely(r, u, B, w)
<1> SUFFICES ASSUME ~ u.drop
             PROVE  Anchored(B, w, r, q.tokens, 0) /\ Lone(B, r)
  BY DEF Lonely
<1>0. PICK m \in Nat : m = Len(B)
  BY BatchTypes
<1>1. Counted(r, q, FALSE) /\ \E i \in 0 .. m : Split(B, w, r, q, FALSE, i)
  BY <1>0 DEF Tracked, LiveStatus
<1>2. PICK i \in 0 .. m : Split(B, w, r, q, FALSE, i)
  BY <1>1
<1>3. ~ (q.stale > 0)
  BY <1>1 DEF Counted
<1>4. q.stale = SharesOf(B, r, i) /\ Anchored(B, w, r, q.tokens, i)
  BY <1>2 DEF Split
<1>5. ASSUME NEW j \in 1 .. i PROVE B[j].n[r] = 0 /\ B[j].resumed[r] = 0
  <2>1. j \in 1 .. m /\ i \in 0 .. Len(B)
    BY <1>0
  <2>2. SharesOf(B, r, i) \in Nat /\ B[j].n[r] <= SharesOf(B, r, i)
    BY <2>1, BatchSums
  <2>3. B[j].n[r] \in Int /\ BatchOK(B[j])
    BY <1>0, <2>1, BatchTypes DEF BatchesOK
  <2>4. B[j].n[r] = 0
    BY <1>3, <1>4, <2>2, <2>3 DEF BatchOK
  <2> QED BY <2>3, <2>4 DEF BatchOK
<1>6. Anchored(B, w, r, q.tokens, 0)
  <2>1. CASE \E j \in i + 1 .. m :
               /\ B[j].n[r] # 0 /\ B[j].resumed[r] = q.tokens
               /\ Quiet(B, r, i + 1 .. j - 1) /\ Joined(B, r, j + 1 .. m)
    <3>1. PICK j \in i + 1 .. m :
               /\ B[j].n[r] # 0 /\ B[j].resumed[r] = q.tokens
               /\ Quiet(B, r, i + 1 .. j - 1) /\ Joined(B, r, j + 1 .. m)
      BY <2>1
    <3>2. j \in 0 + 1 .. m
      OBVIOUS
    <3>3. Quiet(B, r, 0 + 1 .. j - 1)
      <4>1. \A l \in 0 + 1 .. j - 1 : l \in 1 .. i \/ l \in i + 1 .. j - 1
        OBVIOUS
      <4> QED BY <1>5, <3>1, <4>1 DEF Quiet
    <3> QED BY <1>0, <3>1, <3>2, <3>3 DEF Anchored
  <2>2. CASE w = q.tokens /\ Joined(B, r, i + 1 .. m)
    <3>1. Joined(B, r, 0 + 1 .. m)
      <4>1. \A l \in 0 + 1 .. m : l \in 1 .. i \/ l \in i + 1 .. m
        OBVIOUS
      <4> QED BY <1>5, <2>2, <4>1 DEF Joined
    <3>2. Quiet(B, r, 1 .. 0)
      BY DEF Quiet
    <3> QED BY <1>0, <2>2, <3>1, <3>2 DEF Anchored
  <2> QED BY <1>0, <1>4, <2>1, <2>2 DEF Anchored
<1>7. Lone(B, r)
  <2>1. \A j, k \in 1 .. m : j = k
    BY <1>0
  <2> QED BY <1>0, <2>1 DEF Lone
<1> QED BY <1>6, <1>7

-----------------------------------------------------------------------------
(* The state                                                               *)

Fine(r) ==
  /\ IF r \in step.resumed THEN Tracked(r, req[r], TRUE, batches, worker[r])
     ELSE Tracked(r, req[r], FALSE, batches, worker[r])
  /\ step.n[r] # 0 => Granted(req[r], step.n[r], step.spec[r])
  /\ r \in step.resumed => step.n[r] # 0
  /\ MaxInFlight <= 2 => Lonely(r, req[r], batches, worker[r])

OtherInv ==
  /\ last \in [Requests -> -1 .. NumRequests]
  /\ pause \in {"UNPAUSED", "PAUSED_NEW", "PAUSED_ALL"} /\ resets \in 0 .. MaxResets
  /\ worker \in [Requests -> Nat]
  /\ Len(batches) <= MaxInFlight
  /\ pc # "idle" => Len(batches) < MaxInFlight

DInv ==
  /\ BatchesOK(batches)
  /\ \A r \in Requests : Fine(r)
  /\ pc \in {"idle", "running"} => step.resumed = {}
  /\ OtherInv

(* Nothing that Fine reads of r changes.                                   *)
LEMMA FineFrame ==
  ASSUME NEW r, Fine(r), req'[r] = req[r], batches' = batches, worker'[r] = worker[r],
         r \in step'.resumed <=> r \in step.resumed,
         \/ step'.n[r] = 0 /\ r \notin step.resumed
         \/ step'.n[r] = step.n[r] /\ step'.spec[r] = step.spec[r]
  PROVE  Fine(r)'
BY DEF Fine

(* Init satisfies the invariant.                                           *)
LEMMA DecodeInit == Init => DInv
<1> SUFFICES ASSUME Init PROVE DInv
  OBVIOUS
<1>1. /\ step = NoStep /\ pc = "idle" /\ batches = <<>>
      /\ \A r \in Requests : req[r] = Fresh("NEW") /\ worker[r] = 0
  BY DEF Init
<1>2. step.resumed = {} /\ \A r \in Requests : step.n[r] = 0
  BY <1>1, NothingFacts
<1>3. BatchesOK(batches)
  BY <1>1 DEF BatchesOK
<1>4. OtherInv
  BY <1>1, CountsAssumption DEF OtherInv, Init
<1>5. ASSUME NEW r \in Requests PROVE Fine(r)
  <2>1. Fresh("NEW").status = "NEW"
    BY FreshFacts DEF Statuses
  <2>2. Tracked(r, req[r], FALSE, batches, worker[r])
    BY <1>1, <2>1 DEF Tracked, LiveStatus
  <2>3. Lonely(r, req[r], batches, worker[r])
    BY <1>1, <2>1 DEF Lonely
  <2> QED BY <1>2, <2>2, <2>3 DEF Fine
<1> QED BY <1>2, <1>3, <1>4, <1>5 DEF DInv

(* Steps that move neither a request nor a batch.                          *)
LEMMA StillDecode ==
  ASSUME DInv, UNCHANGED <<req, batches, worker>>, step'.n = step.n, step'.spec = step.spec,
         step'.resumed = step.resumed, OtherInv', pc' \in {"idle", "running"} => pc' = pc
  PROVE  DInv'
<1>1. ASSUME NEW r \in Requests PROVE Fine(r)'
  BY FineFrame DEF DInv
<1> QED BY <1>1 DEF DInv

(* The start of schedule().                                                *)
LEMMA StartDecode ==
  ASSUME IInv, DInv, StartSchedule
  PROVE  DInv'
<1> USE Constants, NothingFacts
<1> DEFINE decoding == \E i \in 1 .. Len(running) : ~ req[running[i]].chunk
           configured == IF decoding THEN decode_prefill_token_budget
                         ELSE idle_prefill_token_budget
           budget == IF pause = "PAUSED_ALL" THEN 0 ELSE max_num_scheduled_tokens
           ages == [r \in Requests |-> IF Live(r) THEN last[r] ELSE -1]
<1>1. /\ pc = "idle" /\ pc' = "running" /\ UNCHANGED <<req, pause, resets, batches, worker>>
      /\ Len(batches) < MaxInFlight
      /\ \/ /\ enable_decode_aware_prefill /\ last' = ages
            /\ step' = [NoStep EXCEPT
                 !.budget = budget,
                 !.prefill_budget = Lesser(configured, max_num_scheduled_tokens),
                 !.selected = SelectLongPrefills(ages)]
         \/ /\ ~ enable_decode_aware_prefill /\ last' = last
            /\ step' = [NoStep EXCEPT !.budget = budget, !.prefill_budget = budget]
  BY DEF StartSchedule
<1>2. OtherInv /\ step.resumed = {}
  BY <1>1 DEF DInv
<1>3. budget \in Nat /\ budget \in Int
  OBVIOUS
<1>4. Lesser(configured, max_num_scheduled_tokens) \in Int
  BY DEF Lesser
<1>5. SelectLongPrefills(ages) \in SUBSET Requests
  BY DEF SelectLongPrefills, Oldest
<1>6. ages \in [Requests -> -1 .. NumRequests]
  BY <1>2, CountsAssumption DEF OtherInv
<1> HIDE DEF budget, configured, ages
<1>7. step'.n = Nothing /\ step'.resumed = {}
  <2>1. CASE enable_decode_aware_prefill
    <3>1. step' = Started(budget, Lesser(configured, max_num_scheduled_tokens),
                          SelectLongPrefills(ages))
      BY <1>1, <2>1 DEF Started
    <3> QED BY <1>3, <1>4, <1>5, <3>1, StartedFacts
  <2>2. CASE ~ enable_decode_aware_prefill
    <3>1. step' = StartedPlain(budget, budget)
      BY <1>1, <2>2 DEF StartedPlain
    <3> QED BY <1>3, <3>1, StartedPlainFacts
  <2> QED BY <2>1, <2>2
<1>8. ASSUME NEW r \in Requests PROVE Fine(r)'
  <2>1. Fine(r) /\ step'.n[r] = 0 /\ r \notin step.resumed /\ r \notin step'.resumed
    BY <1>2, <1>7 DEF DInv
  <2> QED BY <1>1, <2>1, FineFrame
<1>9. OtherInv'
  BY <1>1, <1>2, <1>6 DEF OtherInv
<1> QED BY <1>1, <1>7, <1>8, <1>9 DEF DInv

(* A running request is passed over.                                       *)
LEMMA RunningSkipDecode ==
  ASSUME IInv, DInv, RunningSkip
  PROVE  DInv'
<1>1. /\ step' = [step EXCEPT !.index = @ + 1]
      /\ UNCHANGED <<req, last, pause, resets, pc, batches, worker>>
  BY DEF RunningSkip
<1>2. step \in StepRec /\ step.index + 1 \in Nat \ {0}
  BY StepFacts DEF IInv, Types
<1>3. step' = Advanced(step, step.index + 1)
  BY <1>1, Zenon DEF Advanced
<1>4. step'.n = step.n /\ step'.spec = step.spec /\ step'.resumed = step.resumed
  BY <1>2, <1>3, AdvancedFacts
<1>5. OtherInv'
  BY <1>1 DEF DInv, OtherInv
<1> QED BY <1>1, <1>4, <1>5, StillDecode

(* A waiting request is passed over, or the WAITING loop ends.             *)
LEMMA WaitingDecode ==
  ASSUME IInv, IInv', DInv, NEW hit, WaitingSkip \/ WaitingDone(hit)
  PROVE  DInv'
<1>1. /\ UNCHANGED <<req, last, pause, resets, batches, worker>>
      /\ pc = "waiting" /\ pc' \in {"waiting", "finish"}
      /\ \/ step' = [step EXCEPT !.skipped = Append(@, NextWaiting)]
         \/ step' = [step EXCEPT !.skipped = <<>>]
  BY DEF WaitingSkip, WaitingDone, InWaitingLoop
<1>2. step \in StepRec /\ step' \in StepRec
  BY DEF IInv, Types
<1>3. step'.n = step.n /\ step'.spec = step.spec /\ step'.resumed = step.resumed
  BY <1>1, <1>2 DEF StepRec
<1>4. OtherInv'
  BY <1>1 DEF DInv, OtherInv
<1> QED BY <1>1, <1>3, <1>4, StillDecode

(* The RUNNING loop ends, the pause state changes, or nothing happens.     *)
LEMMA OutsideDecode ==
  ASSUME DInv, \/ RunningDone
               \/ \E s \in PauseStates : SetPauseState(s)
               \/ UNCHANGED vars
  PROVE  DInv'
<1>1. /\ UNCHANGED <<req, last, resets, step, batches, worker>>
      /\ pc' = pc \/ (pc = "running" /\ pc' \in {"waiting", "finish"})
  BY DEF RunningDone, SetPauseState, vars, queues
<1>2. pause' = pause \/ pause' \in PauseStates
  BY DEF RunningDone, SetPauseState, vars
<1>3. OtherInv'
  BY <1>1, <1>2, FlagsAssumption DEF DInv, OtherInv
<1> QED BY <1>1, <1>3, StillDecode

(* A running request is given no more than it lacks, and stays below       *)
(* max_model_len.                                                          *)
LEMMA RunningTokensBound ==
  ASSUME Types, NEW r \in Requests
  PROVE  /\ RunningTokens(r) <= req[r].tokens + req[r].spec + req[r].placeholders - req[r].computed
         /\ RunningTokens(r) <= max_model_len - req[r].computed - 1
<1> USE Constants
<1> DEFINE all == req[r].tokens + req[r].spec + req[r].placeholders - req[r].computed
           capped == IF AwarePrefill(r) THEN Lesser(all, RemainingPrefill) ELSE Truncated(all)
           top == max_model_len - req[r].computed - 1
<1>1. all \in Int /\ top \in Int
  BY ReqFacts
<1>2. RemainingPrefill \in Int /\ step.budget \in Int
  BY StepFacts DEF RemainingPrefill
<1>3. RunningTokens(r) = Lesser(Lesser(capped, step.budget), top)
  BY DEF RunningTokens
<1> HIDE DEF all, top
<1>4. capped \in Int /\ capped <= all
  BY <1>1, <1>2 DEF Truncated, Lesser
<1> HIDE DEF capped
<1>5. Lesser(capped, step.budget) \in Int /\ Lesser(capped, step.budget) <= capped
  BY <1>2, <1>4, LesserFacts
<1>6. /\ RunningTokens(r) \in Int /\ RunningTokens(r) <= Lesser(capped, step.budget)
      /\ RunningTokens(r) <= top
  BY <1>1, <1>3, <1>5, LesserFacts
<1>7. RunningTokens(r) <= all
  BY <1>1, <1>4, <1>5, <1>6
<1> QED BY <1>6, <1>7 DEF all, top

(* A running request is given tokens.                                      *)
LEMMA RunningScheduleDecode ==
  ASSUME IInv, DInv, PadsFit', RunningSchedule
  PROVE  DInv'
<1> USE Constants
<1>0. PICK r, n, missing : RunningWrites(r, n, missing)
  BY RunningScheduleWrites DEF IInv
<1>1. Types /\ OtherInv /\ BatchesOK(batches)
  BY DEF IInv, DInv
<1>2. /\ r = Current /\ n = RunningTokens(r)
      /\ pc = "running" /\ UNCHANGED <<pc, batches>> /\ r \in Requests
      /\ req[r].status = "RUNNING" /\ n \in Int /\ missing \in Nat
      /\ step'.n = [step.n EXCEPT ![r] = n]
      /\ step'.spec = [step.spec EXCEPT ![r] = DraftsOf(r, n)]
      /\ step'.resumed = step.resumed
      /\ req'[r] = Holding(req[r], req[r].blocks + missing)
      /\ \A q \in Requests : q # r => req'[q] = req[q]
  BY <1>0 DEF RunningWrites
<1>3. /\ UNCHANGED <<pause, resets, worker>> /\ ~ SkipRunning(r)
      /\ last' = IF AwarePrefill(r) /\ IsLongPrefill(r)
                 THEN [last EXCEPT ![r] = current_step] ELSE last
  BY <1>2 DEF RunningSchedule, Current
<1>4. step.n \in [Requests -> Int] /\ step.spec \in [Requests -> Int] /\ step.resumed = {}
  BY <1>1, <1>2, StepFacts DEF DInv
<1>5. OtherInv'
  <2>1. NumRequests \in -1 .. NumRequests
    BY CountsAssumption
  <2>2. last' \in [Requests -> -1 .. NumRequests]
    BY <1>1, <1>3, <2>1 DEF OtherInv, current_step
  <2> QED BY <1>1, <1>2, <1>3, <2>2 DEF OtherInv
<1>6. n > 0
  <2>1. n # 0
    BY <1>2, <1>3 DEF SkipRunning
  <2>2. step'.n[r] = n
    BY <1>2, <1>4
  <2>3. n >= 0
    BY <1>2, <2>2 DEF PadsFit
  <2> QED BY <1>2, <2>1, <2>3
<1>7. ASSUME NEW q \in Requests, q # r PROVE Fine(q)'
  <2>1. /\ Fine(q) /\ req'[q] = req[q] /\ step'.n[q] = step.n[q] /\ step'.spec[q] = step.spec[q]
        /\ batches' = batches /\ worker'[q] = worker[q] /\ step'.resumed = step.resumed
    BY <1>2, <1>3, <1>4, <1>7 DEF DInv
  <2> QED BY <2>1, FineFrame
<1>8. Fine(r)'
  <2>1. PICK old \in ReqRec, new \in ReqRec : old = req[r] /\ new = req'[r]
    <3>1. req[r] \in ReqRec /\ req'[r] \in ReqRec
      BY <1>0, <1>1, <1>2, ReqFacts DEF RunningWrites
    <3> QED BY ONLY <3>1, Zenon
  <2>2. SameCounters(old, new) /\ new.spec = 0
    <3>1. PICK blocks \in Nat : blocks = req[r].blocks + missing
      BY <1>1, <1>2, ReqFacts
    <3>2. new = Holding(old, blocks)
      BY <1>2, <2>1, <3>1
    <3> QED BY <3>2, HoldingFacts DEF SameCounters
  <2>3. PICK d \in Int : d = DraftsOf(r, n)
    <3>1. req[r].spec \in Int /\ n + req[r].computed - req[r].tokens - req[r].placeholders \in Int
      BY <1>1, <1>2, ReqFacts
    <3>2. DraftsOf(r, n) \in Int
      BY <3>1 DEF DraftsOf, Greater, Lesser
    <3> QED BY ONLY <3>2, Zenon
  <2>4. step'.n[r] = n /\ step'.spec[r] = d /\ r \notin step'.resumed
    BY <1>2, <1>4, <2>3
  <2>5. Tracked(r, old, FALSE, batches, worker[r]) /\ old.status = "RUNNING"
    BY <1>2, <1>4, <2>1 DEF DInv, Fine
  <2>6. Counted(r, old, FALSE)
    BY <2>5 DEF Tracked, LiveStatus
  <2>7. Granted(new, n, d)
    <3>1. /\ n <= old.tokens + old.spec + old.placeholders - old.computed
          /\ n <= max_model_len - old.computed - 1
      BY <1>1, <1>2, <2>1, RunningTokensBound
    <3>2. d = Greater(0, Lesser(old.spec, n + old.computed - old.tokens - old.placeholders))
      BY <2>1, <2>3 DEF DraftsOf
    <3>3. r \in Requests /\ old \in ReqRec /\ new \in ReqRec /\ n \in Int /\ d \in Int
      BY <1>2
    <3> QED BY ONLY <1>6, <2>2, <2>5, <2>6, <3>1, <3>2, <3>3, HeldGranted
  <2>8. Tracked(r, new, FALSE, batches, worker[r])
    <3>1. r \in Requests /\ old \in ReqRec /\ new \in ReqRec /\ batches \in Seq(BatchRec)
      BY <1>1, <1>2 DEF Types
    <3> QED BY ONLY <2>2, <2>5, <3>1, HeldTracked
  <2>9. Lonely(r, new, batches, worker[r])
    BY <2>2, <2>5 DEF Lonely, SameCounters
  <2> QED BY <1>2, <1>3, <2>1, <2>4, <2>7, <2>8, <2>9 DEF Fine
<1> QED BY <1>1, <1>2, <1>4, <1>5, <1>7, <1>8 DEF DInv

(* A waiting request is given something, and no more than it lacks or is   *)
(* padded to.                                                              *)
LEMMA WaitingTokensBound ==
  ASSUME Types, NEW r \in Requests, NEW hit \in Int, hit < req[r].tokens, step.budget > 0,
         enable_decode_aware_prefill => RemainingPrefill > 0
  PROVE  /\ WaitingTokens(r, hit) \in Int /\ WaitingTokens(r, hit) >= 1
         /\ WaitingTokens(r, hit)
              <= IF Padded(r, hit) THEN 1 + num_spec_tokens ELSE req[r].tokens - hit
<1> USE Constants
<1> DEFINE all == IF Padded(r, hit) THEN 1 + num_spec_tokens ELSE req[r].tokens - hit
           capped == IF enable_decode_aware_prefill THEN Lesser(all, RemainingPrefill)
                     ELSE Truncated(all)
<1>1. all \in Int /\ all >= 1
  BY ReqFacts
<1>2. RemainingPrefill \in Int /\ step.budget \in Int
  BY StepFacts DEF RemainingPrefill
<1>3. WaitingTokens(r, hit) = Lesser(capped, step.budget)
  BY DEF WaitingTokens
<1> HIDE DEF all
<1>4. capped \in Int /\ capped <= all /\ capped >= 1
  BY <1>1, <1>2 DEF Truncated, Lesser
<1> HIDE DEF capped
<1>5. Lesser(capped, step.budget) \in Int /\ Lesser(capped, step.budget) <= all
      /\ Lesser(capped, step.budget) >= 1
  BY <1>1, <1>2, <1>4 DEF Lesser
<1> QED BY <1>3, <1>5 DEF all

(* A waiting request is admitted.                                          *)
LEMMA AdmitDecode ==
  ASSUME IInv, DInv, PadsFit', NEW hit \in Int, Admit(hit)
  PROVE  DInv'
<1> USE Constants
<1>0. PICK r, n, missing : AdmitWrites(hit, r, n, missing)
  BY AdmitWritesThat DEF IInv
<1>1. Types /\ OtherInv /\ BatchesOK(batches) /\ StepInv
  BY DEF IInv, DInv
<1>2. /\ r = NextWaiting /\ n = WaitingTokens(r, hit)
      /\ pc = "waiting" /\ UNCHANGED <<pc, batches>> /\ r \in Requests
      /\ req[r].status \in {"WAITING", "PREEMPTED"} /\ missing \in Nat
      /\ step'.n = [step.n EXCEPT ![r] = n]
      /\ step'.spec = [step.spec EXCEPT ![r] = IF Padded(r, hit) THEN num_spec_tokens ELSE 0]
      /\ step'.resumed = step.resumed \cup {r}
      /\ req'[r] = Running(req[r], hit, req[r].blocks + missing)
      /\ \A q \in Requests : q # r => req'[q] = req[q]
  BY <1>0 DEF AdmitWrites
<1>3. /\ UNCHANGED <<pause, resets, worker>> /\ ~ MustWait(r) /\ hit \in PrefixHits(r)
      /\ Admissible(r, hit) /\ step.budget > 0
      /\ last' = IF enable_decode_aware_prefill /\ IsLongPrefill(r)
                 THEN [last EXCEPT ![r] = current_step] ELSE last
  BY <1>2 DEF Admit, InWaitingLoop
<1>4. step.n \in [Requests -> Int] /\ step.spec \in [Requests -> Int]
  BY <1>1, StepFacts
<1>5. OtherInv'
  <2>1. NumRequests \in -1 .. NumRequests
    BY CountsAssumption
  <2>2. last' \in [Requests -> -1 .. NumRequests]
    BY <1>1, <1>3, <2>1 DEF OtherInv, current_step
  <2> QED BY <1>1, <1>2, <1>3, <2>2 DEF OtherInv
<1>6. 0 <= hit /\ hit < req[r].tokens
  BY <1>1, <1>2, <1>3, ReqFacts DEF PrefixHits
<1>7. /\ n \in Int /\ n >= 1
      /\ n <= IF Padded(r, hit) THEN 1 + num_spec_tokens ELSE req[r].tokens - hit
  <2>1. enable_decode_aware_prefill => RemainingPrefill > 0
    BY <1>3 DEF Admissible
  <2> QED BY <1>1, <1>2, <1>3, <1>6, <2>1, WaitingTokensBound
<1>8. ASSUME NEW q \in Requests, q # r PROVE Fine(q)'
  <2>1. /\ Fine(q) /\ req'[q] = req[q] /\ step'.n[q] = step.n[q] /\ step'.spec[q] = step.spec[q]
        /\ batches' = batches /\ worker'[q] = worker[q]
        /\ (q \in step'.resumed <=> q \in step.resumed)
    BY <1>2, <1>3, <1>4, <1>8 DEF DInv
  <2> QED BY <2>1, FineFrame
<1>9. Fine(r)'
  <2>1. PICK old \in ReqRec, new \in ReqRec : old = req[r] /\ new = req'[r]
    <3>1. req[r] \in ReqRec /\ req'[r] \in ReqRec
      BY <1>0, <1>1, <1>2, ReqFacts DEF AdmitWrites
    <3> QED BY ONLY <3>1, Zenon
  <2>2. /\ new.status = "RUNNING" /\ new.tokens = old.tokens /\ new.computed = hit
        /\ new.spec = old.spec /\ new.placeholders = old.placeholders
        /\ new.stale = old.stale /\ new.drop = old.drop
    <3>1. PICK blocks \in Nat : blocks = req[r].blocks + missing
      BY <1>1, <1>2, ReqFacts
    <3>2. new = Running(old, hit, blocks)
      BY <1>2, <2>1, <3>1
    <3> QED BY ONLY <3>1, <3>2, hit \in Int, old \in ReqRec, RunningFacts
  <2>3. r \notin step.resumed
    <3>1. step.n[r] = 0
      BY <1>1, <1>2 DEF StepInv, ScheduledStayRunning
    <3> QED BY <1>2, <3>1 DEF DInv, Fine
  <2>4. /\ Tracked(r, old, FALSE, batches, worker[r]) /\ old.status \in {"WAITING", "PREEMPTED"}
        /\ old.stale > 0 => old.drop
    BY <1>2, <1>3, <2>1, <2>3 DEF DInv, Fine, MustWait
  <2>5. /\ Tracked(r, new, TRUE, batches, worker[r])
        /\ old.tokens < Limit(r) /\ new.placeholders = 0 /\ new.spec = 0
    <3>1. /\ r \in Requests /\ old \in ReqRec /\ new \in ReqRec /\ batches \in Seq(BatchRec)
          /\ hit \in Int /\ 0 <= hit /\ hit < old.tokens
      BY <1>1, <1>2, <1>6, <2>1 DEF Types
    <3> QED BY ONLY <2>2, <2>4, <3>1, AdmittedTracked
  <2>6. PICK d \in Int : d = IF Padded(r, hit) THEN num_spec_tokens ELSE 0
    OBVIOUS
  <2>7. step'.n[r] = n /\ step'.spec[r] = d /\ r \in step'.resumed
    BY <1>2, <1>4, <2>6
  <2>8. Granted(new, n, d)
    <3>1. PICK k \in Int : k = old.tokens /\ k < Limit(r) /\ Limit(r) \in Nat
                           /\ Limit(r) <= max_model_len
      BY <1>2, <2>5, Fields, LimitFacts
    <3>2. CASE Padded(r, hit)
      <4>1. d = num_spec_tokens /\ num_spec_tokens > 0 /\ k - hit = 1
            /\ hit + 1 + num_spec_tokens <= max_model_len
        BY <1>3, <2>1, <2>6, <3>1, <3>2 DEF Padded, Admissible, PadFits
      <4>2. n >= 1 + d
        BY <1>2, <2>7, <4>1 DEF PadsFit, DraftsScheduled
      <4>3. n <= 1 + d
        BY <1>7, <3>2, <4>1
      <4>4. n = 1 + d /\ hit = k + 0 - 1 /\ hit + n <= max_model_len /\ d >= 0 /\ n > 0
        BY <1>7, <3>1, <4>1, <4>2, <4>3
      <4> QED BY <2>2, <2>5, <3>1, <4>4 DEF Granted
    <3>3. CASE ~ Padded(r, hit)
      <4>1. d = 0 /\ n <= k - hit
        BY <1>7, <2>1, <2>6, <3>1, <3>3
      <4>2. hit + n <= k /\ hit + n <= max_model_len /\ n > 0
        BY <1>7, <3>1, <4>1
      <4> QED BY <2>2, <2>5, <3>1, <4>1, <4>2 DEF Granted
    <3> QED BY <3>2, <3>3
  <2>9. Lonely(r, new, batches, worker[r])
    BY <2>2 DEF Lonely
  <2>10. n # 0
    BY <1>7
  <2> QED BY <1>2, <1>3, <2>1, <2>5, <2>7, <2>8, <2>9, <2>10 DEF Fine
<1> QED BY <1>1, <1>2, <1>5, <1>8, <1>9 DEF DInv

(* A running request that was not given anything yet is preempted.         *)
LEMMA PreemptedFine ==
  ASSUME IInv, DInv, NEW r \in Requests, req[r].status = "RUNNING", r \notin step.resumed,
         NEW drop \in BOOLEAN, MaxInFlight <= 2 => drop \/ Len(batches) <= 1,
         req'[r] = Preempted(req[r], drop), batches' = batches, worker' = worker,
         step'.n[r] = 0, r \notin step'.resumed
  PROVE  Fine(r)'
<1>1. PICK old \in ReqRec, new \in ReqRec : old = req[r] /\ new = req'[r]
  <2>1. req[r] \in ReqRec /\ req'[r] \in ReqRec
    BY ReqFacts, PreemptedFacts DEF IInv
  <2> QED BY ONLY <2>1, Zenon
<1>2. /\ new.status = "PREEMPTED" /\ new.stale = old.in_flight
      /\ new.computed = 0 /\ new.tokens = old.tokens
      /\ new.spec = 0 /\ new.placeholders = 0
      /\ new.drop = (drop \/ (old.drop /\ old.stale > 0))
  BY <1>1, PreemptedFacts
<1>3. /\ r \in Requests /\ old \in ReqRec /\ new \in ReqRec /\ batches \in Seq(BatchRec)
      /\ BatchesOK(batches) /\ old.status = "RUNNING"
      /\ Tracked(r, old, FALSE, batches, worker[r])
  BY <1>1 DEF IInv, Types, DInv, Fine
<1>4. old.in_flight = SharesOf(batches, r, Len(batches))
  BY <1>1 DEF IInv, StaleIsOldest, Live, Shares, SharesOf
<1>5. Tracked(r, new, FALSE, batches, worker[r])
  BY ONLY <1>2, <1>3, <1>4, PreemptedTracked
<1>6. ASSUME MaxInFlight <= 2 PROVE Lonely(r, new, batches, worker[r])
  <2>1. CASE drop
    BY <1>2, <2>1 DEF Lonely
  <2>2. CASE ~ drop
    <3>1. new.drop = (old.drop /\ old.stale > 0) /\ Len(batches) <= 1 /\ new.tokens = old.tokens
      BY <1>2, <1>6, <2>2
    <3> QED BY ONLY <1>3, <3>1, LonelyPreempted
  <2> QED BY <2>1, <2>2
<1> QED BY <1>1, <1>5, <1>6 DEF Fine

(* The last running request is preempted.                                  *)
LEMMA RunningPreemptDecode ==
  ASSUME IInv, IInv', DInv, RunningPreempt
  PROVE  DInv'
<1> USE Constants
<1>1. PICK v : v = Victim
  OBVIOUS
<1>2. /\ pc = "running" /\ step.index <= Len(running) /\ pc' \in {"finish", "running"}
      /\ req' = [req EXCEPT ![v] = Preempted(@, FALSE)]
      /\ waiting' = <<v>> \o waiting
      /\ step' = [step EXCEPT !.preempted = TRUE]
      /\ UNCHANGED <<last, pause, resets, batches, worker>>
  <2>1. pc = "running" /\ step.index <= Len(running)
    BY DEF RunningPreempt, InRunningLoop
  <2>2. pc' \in {"finish", pc}
    BY DEF RunningPreempt
  <2>3. /\ req' = [req EXCEPT ![v] = Preempted(@, FALSE)]
        /\ waiting' = <<v>> \o waiting
        /\ step' = [step EXCEPT !.preempted = TRUE]
        /\ UNCHANGED <<last, pause, resets, batches, worker>>
    BY <1>1 DEF RunningPreempt
  <2> QED BY <2>1, <2>2, <2>3
<1>3. Types /\ QueuesInv /\ OtherInv /\ StepInv' /\ step.resumed = {}
  BY <1>2 DEF IInv, DInv
<1>4. v \in Requests /\ req[v].status = "RUNNING"
  <2>1. running \in Seq(Requests) /\ step.index \in Nat \ {0} /\ step.index <= Len(running)
    BY <1>2, <1>3, StepFacts DEF Types
  <2>2. Len(running) \in DOMAIN running
    BY ONLY <2>1
  <2>3. v \in ToSet(running)
    BY <1>1, <2>2 DEF ToSet, Victim
  <2> QED BY <1>3, <2>3 DEF QueuesInv
<1>5. step'.n = step.n /\ step'.spec = step.spec /\ step'.resumed = step.resumed
  <2>1. step' = Preempting(step)
    BY <1>2, Zenon DEF Preempting
  <2>2. step \in StepRec
    BY <1>3 DEF Types
  <2> QED BY <2>1, <2>2, PreemptingFacts
<1>6. req'[v] = Preempted(req[v], FALSE) /\ \A q \in Requests : q # v => req'[q] = req[q]
  BY <1>2, <1>3, <1>4 DEF Types
<1>7. step'.n[v] = 0
  <2>0. req[v] \in ReqRec /\ req'[v] = Preempted(req[v], FALSE)
    BY <1>3, <1>4, <1>6, ReqFacts
  <2>1. req'[v].status = "PREEMPTED"
    BY <2>0, PreemptedFacts
  <2> QED BY <1>3, <1>4, <2>1 DEF StepInv, ScheduledStayRunning
<1>8. Fine(v)'
  <2>1. MaxInFlight <= 2 => Len(batches) <= 1
    <3>1. Len(batches) < MaxInFlight /\ Len(batches) \in Nat /\ MaxInFlight \in Nat
      BY <1>2, <1>3, CountsAssumption DEF OtherInv, Types
    <3> QED BY <3>1
  <2>2. FALSE \in BOOLEAN /\ (MaxInFlight <= 2 => FALSE \/ Len(batches) <= 1)
    BY <2>1
  <2>3. /\ v \in Requests /\ req[v].status = "RUNNING" /\ v \notin step.resumed
        /\ req'[v] = Preempted(req[v], FALSE) /\ batches' = batches /\ worker' = worker
        /\ step'.n[v] = 0 /\ v \notin step'.resumed
    BY <1>2, <1>3, <1>4, <1>5, <1>6, <1>7
  <2> QED BY <2>2, <2>3, PreemptedFine
<1>9. ASSUME NEW q \in Requests, q # v PROVE Fine(q)'
  <2>1. Fine(q) /\ req'[q] = req[q] /\ batches' = batches /\ worker'[q] = worker[q]
    BY <1>2, <1>6, <1>9 DEF DInv
  <2> QED BY <1>5, <2>1, FineFrame
<1>10. OtherInv'
  BY <1>2, <1>3 DEF OtherInv
<1> QED BY <1>2, <1>3, <1>5, <1>8, <1>9, <1>10 DEF DInv

(* reset_prefix_cache: every running request is preempted.                 *)
LEMMA ResetDecode ==
  ASSUME IInv, DInv, ResetPrefixCache
  PROVE  DInv'
<1>1. /\ pc = "idle" /\ resets < MaxResets /\ resets' = resets + 1
      /\ req' = [r \in Requests |-> IF r \in ToSet(running) THEN Preempted(req[r], TRUE)
                                    ELSE req[r]]
      /\ UNCHANGED <<last, pause, pc, step, batches, worker>>
  BY DEF ResetPrefixCache
<1>2. Types /\ QueuesInv /\ OtherInv /\ StepInv /\ step.resumed = {}
  BY <1>1 DEF IInv, DInv
<1>3. OtherInv'
  BY <1>1, <1>2, CountsAssumption DEF OtherInv
<1>4. ASSUME NEW r \in Requests PROVE Fine(r)'
  <2>1. step'.n[r] = 0 /\ r \notin step.resumed /\ r \notin step'.resumed
    BY <1>1, <1>2 DEF StepInv
  <2>2. CASE r \in ToSet(running)
    <3>1. req'[r] = Preempted(req[r], TRUE) /\ req[r].status = "RUNNING"
      BY <1>1, <1>2, <2>2 DEF QueuesInv
    <3>2. TRUE \in BOOLEAN /\ (MaxInFlight <= 2 => TRUE \/ Len(batches) <= 1)
      OBVIOUS
    <3>3. batches' = batches /\ worker' = worker
      BY <1>1
    <3> QED BY <2>1, <3>1, <3>2, <3>3, PreemptedFine
  <2>3. CASE r \notin ToSet(running)
    <3>1. req'[r] = req[r] /\ Fine(r)
      BY <1>1, <2>3 DEF DInv
    <3> QED BY <1>1, <2>1, <3>1, FineFrame
  <2> QED BY <2>2, <2>3
<1> QED BY <1>1, <1>2, <1>3, <1>4 DEF DInv

(* The ranks stay below the number of requests.                            *)
LEMMA RankedType ==
  ASSUME NEW ages \in [Requests -> -1 .. NumRequests]
  PROVE  Ranked(ages) \in [Requests -> -1 .. NumRequests]
<1> USE CountsAssumption
<1>1. ASSUME NEW r \in Requests
      PROVE  Cardinality({ages[q] : q \in {q \in Requests : -1 < ages[q] /\ ages[q] < ages[r]}})
               \in 0 .. NumRequests
  <2> DEFINE S == {ages[q] : q \in {q \in Requests : -1 < ages[q] /\ ages[q] < ages[r]}}
  <2>1. S \subseteq 0 .. NumRequests - 1
    <3>1. ages[r] \in -1 .. NumRequests /\ \A q \in Requests : ages[q] \in -1 .. NumRequests
      OBVIOUS
    <3> QED BY <3>1
  <2> HIDE DEF S
  <2>2. IsFiniteSet(0 .. NumRequests - 1) /\ Cardinality(0 .. NumRequests - 1) = NumRequests
    <3>1. 0 \in Int /\ NumRequests - 1 \in Int
      OBVIOUS
    <3>2. IsFiniteSet(0 .. NumRequests - 1)
          /\ Cardinality(0 .. NumRequests - 1)
               = IF 0 > NumRequests - 1 THEN 0 ELSE (NumRequests - 1) - 0 + 1
      BY <3>1, FS_Interval
    <3> QED BY <3>2
  <2>3. IsFiniteSet(S) /\ Cardinality(S) <= NumRequests
    BY <2>1, <2>2, FS_Subset
  <2>4. Cardinality(S) \in Nat
    BY <2>3, FS_CardinalityType
  <2>5. Cardinality(S) \in 0 .. NumRequests
    BY <2>3, <2>4
  <2> QED BY <2>5 DEF S
<1> QED BY <1>1 DEF Ranked

(* The end of schedule() for a request that was given tokens.              *)
LEMMA AfterScheduled ==
  ASSUME NEW q \in ReqRec, NEW n \in Int, NEW d \in Int
  PROVE  /\ AddPlaceholders(UpdateAfterSchedule(q, n), d) \in ReqRec
         /\ Scheduled(q, AddPlaceholders(UpdateAfterSchedule(q, n), d), n, d)
<1> DEFINE one == UpdateAfterSchedule(q, n)
           two == AddPlaceholders(one, d)
<1>1. /\ one \in ReqRec /\ one.status = q.status /\ one.stale = q.stale
      /\ one.computed = q.computed + n /\ one.tokens = q.tokens /\ one.spec = q.spec
      /\ one.placeholders = q.placeholders /\ one.drop = q.drop
      /\ one.chunk = (q.computed + n < q.tokens + q.placeholders)
  BY AfterFacts
<1> HIDE DEF one
<1>2. /\ two \in ReqRec /\ two.status = one.status /\ two.stale = one.stale
      /\ two.computed = one.computed /\ two.tokens = one.tokens /\ two.drop = one.drop
      /\ two.chunk = one.chunk
      /\ two.spec = IF one.chunk THEN one.spec ELSE num_spec_tokens
      /\ two.placeholders = IF one.chunk THEN one.placeholders ELSE one.placeholders + 1 + d
  BY <1>1, PlaceholderFacts
<1> HIDE DEF two
<1>3. Scheduled(q, two, n, d)
  BY <1>1, <1>2 DEF Scheduled
<1> QED BY <1>2, <1>3 DEF two, one

(* The end of schedule().                                                  *)
LEMMA FinishDecode ==
  ASSUME IInv, DInv, FinishSchedule
  PROVE  DInv'
<1> USE Constants, NothingFacts
<1> DEFINE scheduled == {r \in Requests : step.n[r] # 0}
           after == [r \in Requests |->
                       IF r \in scheduled
                       THEN AddPlaceholders(UpdateAfterSchedule(req[r], step.n[r]), step.spec[r])
                       ELSE req[r]]
           resumed == [r \in Requests |-> IF r \in step.resumed THEN req[r].tokens ELSE 0]
           batch == [n |-> step.n, spec |-> step.spec,
                     samples |-> {r \in scheduled : ~ after[r].chunk},
                     resumed |-> resumed]
<1>1. Types /\ StepInv /\ OtherInv /\ BatchesOK(batches)
  BY DEF IInv, DInv
<1>2. /\ pc = "finish" /\ pc' = "idle" /\ step' = NoStep
      /\ UNCHANGED <<pause, resets, worker>>
      /\ req' = after /\ last' = Ranked(DebitUnusedTurns(last))
      /\ batches' = IF scheduled = {} THEN batches ELSE Append(batches, batch)
  BY DEF FinishSchedule
<1>3. /\ req \in [Requests -> ReqRec] /\ batches \in Seq(BatchRec)
      /\ step.n \in [Requests -> Int] /\ step.spec \in [Requests -> Int]
      /\ Len(batches) \in Nat
  BY <1>1, StepFacts DEF Types
<1>4. step'.resumed = {} /\ \A r \in Requests : step'.n[r] = 0
  BY <1>2
<1>5. last' \in [Requests -> -1 .. NumRequests]
  <2>1. NumRequests \in -1 .. NumRequests
    BY CountsAssumption
  <2>2. DebitUnusedTurns(last) \in [Requests -> -1 .. NumRequests]
    BY <1>1, <2>1 DEF DebitUnusedTurns, OtherInv, current_step
  <2> QED BY <1>2, <2>2, RankedType
<1>6. CASE scheduled = {}
  <2>1. \A r \in Requests : step.n[r] = 0 /\ r \notin step.resumed /\ req'[r] = req[r]
    BY <1>2, <1>6 DEF DInv, Fine
  <2>2. batches' = batches
    BY <1>2, <1>6
  <2>3. ASSUME NEW r \in Requests PROVE Fine(r)'
    BY <1>2, <1>4, <2>1, <2>2, FineFrame DEF DInv
  <2>4. OtherInv'
    BY <1>1, <1>2, <1>5, <2>2 DEF OtherInv
  <2> QED BY <1>1, <1>4, <2>2, <2>3, <2>4 DEF DInv
<1>7. CASE scheduled # {}
  <2>1. batches' = Append(batches, batch)
    BY <1>2, <1>7
  <2>2. ASSUME NEW r \in Requests, step.n[r] # 0
        PROVE  /\ req[r].status = "RUNNING" /\ step.n[r] > 0 /\ step.spec[r] >= 0
               /\ req[r].tokens >= 1
    <3>1. req[r].status = "RUNNING" /\ Granted(req[r], step.n[r], step.spec[r])
      BY <1>1, <2>2 DEF StepInv, ScheduledStayRunning, DInv, Fine
    <3>2. Tracked(r, req[r], TRUE, batches, worker[r]) \/ Tracked(r, req[r], FALSE, batches, worker[r])
      BY DEF DInv, Fine
    <3>3. req[r].tokens >= 1
      BY <3>1, <3>2 DEF Tracked, LiveStatus, Counted
    <3> QED BY <3>1, <3>3 DEF Granted
  <2>3. /\ batch \in BatchRec /\ batch.n = step.n /\ batch.spec = step.spec
        /\ \A r \in Requests : /\ r \in batch.samples <=> step.n[r] # 0 /\ ~ after[r].chunk
                               /\ batch.resumed[r] = IF r \in step.resumed THEN req[r].tokens ELSE 0
    <3>1. resumed \in [Requests -> Int]
      BY <1>1, ReqFacts
    <3>2. {r \in scheduled : ~ after[r].chunk} \in SUBSET Requests
      OBVIOUS
    <3>3. batch.samples = {r \in scheduled : ~ after[r].chunk} /\ batch.resumed = resumed
          /\ batch.n = step.n /\ batch.spec = step.spec
      OBVIOUS
    <3>4. batch \in BatchRec
      <4> HIDE DEF after, scheduled, resumed
      <4> QED BY ONLY <1>3, <3>1, <3>2 DEF BatchRec
    <3>5. ASSUME NEW r \in Requests
          PROVE  /\ r \in {q \in scheduled : ~ after[q].chunk} <=> step.n[r] # 0 /\ ~ after[r].chunk
                 /\ resumed[r] = IF r \in step.resumed THEN req[r].tokens ELSE 0
      <4> HIDE DEF after
      <4> QED OBVIOUS
    <3> HIDE DEF batch, after, scheduled, resumed
    <3> QED BY ONLY <3>3, <3>4, <3>5
  <2> HIDE DEF batch
  <2>4. \A r \in Requests : after[r] = IF step.n[r] # 0
            THEN AddPlaceholders(UpdateAfterSchedule(req[r], step.n[r]), step.spec[r])
            ELSE req[r]
    OBVIOUS
  <2> HIDE DEF after
  <2>5. \A r \in Requests : r \in step.resumed => step.n[r] # 0
    BY DEF DInv, Fine
  <2>6. BatchOK(batch)
    <3>1. ASSUME NEW r \in Requests
          PROVE  /\ batch.n[r] >= 0 /\ batch.resumed[r] >= 0
                 /\ r \in batch.samples => batch.n[r] > 0 /\ batch.spec[r] >= 0
                 /\ batch.n[r] = 0 => batch.resumed[r] = 0
      <4>1. CASE step.n[r] = 0
        BY <2>3, <2>5, <4>1
      <4>2. CASE step.n[r] # 0
        <5>1. step.n[r] > 0 /\ step.spec[r] >= 0 /\ req[r].tokens >= 1
              /\ step.n[r] \in Int /\ req[r].tokens \in Int
          BY <1>1, <1>3, <2>2, <4>2, ReqFacts
        <5>2. batch.n[r] >= 0 /\ batch.resumed[r] >= 0
          BY <2>3, <5>1
        <5> QED BY <2>3, <4>2, <5>1, <5>2
      <4> QED BY <4>1, <4>2
    <3> QED BY <3>1 DEF BatchOK
  <2>7. ASSUME NEW r \in Requests PROVE Fine(r)'
    <3>0. Fine(r)
      BY DEF DInv
    <3>1. PICK B \in Seq(BatchRec), b \in BatchRec, w \in {worker[r]} :
            B = batches /\ b = batch /\ w = worker[r]
      BY <1>3, <2>3
    <3>2. BatchesOK(B) /\ BatchOK(b) /\ batches' = Append(B, b) /\ worker'[r] = w
      BY <1>1, <1>2, <2>1, <2>6, <3>1
    <3>3. PICK q \in ReqRec, n \in Int, d \in Int :
            q = req[r] /\ n = step.n[r] /\ d = step.spec[r]
      <4>1. req[r] \in ReqRec /\ step.n[r] \in Int /\ step.spec[r] \in Int
        BY <1>3
      <4> QED BY ONLY <4>1, Zenon
    <3>4. /\ b.n[r] = n /\ b.spec[r] = d
          /\ r \in b.samples <=> n # 0 /\ ~ after[r].chunk
          /\ b.resumed[r] = IF r \in step.resumed THEN q.tokens ELSE 0
      BY <2>3, <3>1, <3>3
    <3>5. CASE n = 0
      <4>1. req'[r] = q /\ r \notin step.resumed
        BY <1>2, <2>4, <2>5, <3>3, <3>5
      <4>2. Tracked(r, q, FALSE, B, w)
        BY <3>0, <3>1, <3>3, <4>1 DEF Fine
      <4>3. /\ r \in Requests /\ q \in ReqRec /\ B \in Seq(BatchRec) /\ b \in BatchRec
            /\ b.n[r] = 0
        BY <3>4, <3>5
      <4>4. Tracked(r, q, FALSE, Append(B, b), w)
        BY ONLY <3>2, <4>2, <4>3, UnscheduledTracked
      <4>5. ASSUME MaxInFlight <= 2 PROVE Lonely(r, q, Append(B, b), w)
        <5>1. Lonely(r, q, B, w)
          BY <3>0, <3>1, <3>3, <4>5 DEF Fine
        <5> QED BY ONLY <3>2, <4>3, <5>1, LonelyAppend
      <4> QED BY <1>4, <3>2, <4>1, <4>4, <4>5 DEF Fine
    <3>6. CASE n # 0
      <4>1. PICK u \in ReqRec : u = after[r] /\ Scheduled(q, u, n, d)
        <5>1. after[r] = AddPlaceholders(UpdateAfterSchedule(q, n), d)
          BY <2>4, <3>3, <3>6
        <5>2. after[r] \in ReqRec /\ Scheduled(q, after[r], n, d)
          BY <5>1, AfterScheduled
        <5> QED BY ONLY <5>2, Zenon
      <4>2. req'[r] = u /\ q.status = "RUNNING" /\ Granted(q, n, d) /\ u.status = "RUNNING"
        BY <1>2, <2>2, <3>0, <3>3, <3>6, <4>1 DEF Fine, Scheduled
      <4>3. /\ r \in Requests /\ q \in ReqRec /\ u \in ReqRec /\ n \in Int /\ d \in Int
            /\ B \in Seq(BatchRec) /\ b \in BatchRec
            /\ b.n[r] = n /\ b.spec[r] = d /\ (r \in b.samples <=> ~ u.chunk)
        BY <3>4, <3>6, <4>1
      <4>4. Tracked(r, u, FALSE, Append(B, b), w)
        <5>1. CASE r \in step.resumed
          <6>1. Tracked(r, q, TRUE, B, w) /\ b.resumed[r] = (IF TRUE THEN q.tokens ELSE 0)
                /\ TRUE \in BOOLEAN
            BY <3>0, <3>1, <3>3, <3>4, <5>1 DEF Fine
          <6> QED BY ONLY <3>2, <4>1, <4>2, <4>3, <6>1, ScheduledTracked
        <5>2. CASE r \notin step.resumed
          <6>1. Tracked(r, q, FALSE, B, w) /\ b.resumed[r] = (IF FALSE THEN q.tokens ELSE 0)
                /\ FALSE \in BOOLEAN
            BY <3>0, <3>1, <3>3, <3>4, <5>2 DEF Fine
          <6> QED BY ONLY <3>2, <4>1, <4>2, <4>3, <6>1, ScheduledTracked
        <5> QED BY <5>1, <5>2
      <4>5. Lonely(r, u, Append(B, b), w)
        BY <4>2 DEF Lonely
      <4> QED BY <1>4, <3>2, <4>2, <4>4, <4>5 DEF Fine
    <3> QED BY <3>5, <3>6
  <2>8. BatchesOK(batches') /\ Len(batches') = Len(batches) + 1
    <3>1. \A j \in 1 .. Len(batches) + 1 : j \in 1 .. Len(batches) \/ j = Len(batches) + 1
      BY <1>3
    <3>2. /\ Len(batches') = Len(batches) + 1 /\ batches'[Len(batches) + 1] = batch
          /\ \A j \in 1 .. Len(batches) : batches'[j] = batches[j]
      BY <1>3, <2>1, <2>3
    <3> QED BY <1>1, <2>6, <3>1, <3>2 DEF BatchesOK
  <2>9. OtherInv'
    <3>1. Len(batches') <= MaxInFlight
      BY <1>1, <1>2, <1>3, <2>8, CountsAssumption DEF OtherInv
    <3> QED BY <1>1, <1>2, <1>5, <3>1 DEF OtherInv
  <2> QED BY <1>4, <2>7, <2>8, <2>9 DEF DInv
<1> QED BY <1>6, <1>7

(* What the output of a batch with a share of r does to its counters.      *)
LEMMA ProcessedOutput ==
  ASSUME Types, NEW r \in Requests, Live(r), NEW b \in BatchRec, b.n[r] # 0,
         NEW acc \in Nat, NEW eos \in BOOLEAN, NEW absent \in BOOLEAN,
         req[r].tokens < Limit(r), req[r].status = "RUNNING" /\ req[r].stale > 0 => req[r].drop,
         NEW g \in Nat, g = IF r \in b.samples THEN 1 + acc ELSE 0,
         NEW rejected \in Int, rejected = IF r \in b.samples THEN b.spec[r] - acc ELSE 0,
         NEW p, p = Processed(r, b, acc, eos, absent)
  PROVE  \/ p = Fresh("FINISHED")
         \/ req[r].stale > 0 /\ Shifted(req[r], p, b.n[r]) /\ p.tokens < Limit(r)
         \/ ~ (req[r].stale > 0) /\ Delivered(req[r], p, g, rejected) /\ p.tokens < Limit(r)
<1> DEFINE stale == req[r].stale > 0
           drained == Drained(req[r], b.n[r])
           rolled == Rollback(drained, stale, rejected)
           out == WithOutput(r, rolled, stale, g)
<1>1. /\ req[r] \in ReqRec /\ b.n[r] \in Int /\ req[r].stale \in Int /\ req[r].tokens \in Int
      /\ req[r].computed \in Int /\ req[r].placeholders \in Int
  BY ReqFacts DEF BatchRec
<1>2. /\ drained \in ReqRec
      /\ drained.status = req[r].status
      /\ drained.stale = IF req[r].stale > 0 THEN req[r].stale - b.n[r] ELSE 0
      /\ drained.computed = req[r].computed /\ drained.tokens = req[r].tokens
      /\ drained.spec = req[r].spec /\ drained.placeholders = req[r].placeholders
      /\ drained.drop = req[r].drop /\ drained.chunk = req[r].chunk
  BY ONLY <1>1, DrainedFacts
<1>3. p = IF stale /\ (req[r].drop \/ absent) THEN drained
          ELSE IF g >= Room(r) \/ (eos /\ g > 0) THEN Fresh("FINISHED")
          ELSE out
  BY DEF Processed
<1> HIDE DEF drained
<1>4. /\ rolled \in ReqRec /\ rolled.status = drained.status
      /\ rolled.stale = drained.stale
      /\ rolled.tokens = drained.tokens /\ rolled.spec = drained.spec
      /\ rolled.drop = drained.drop /\ rolled.chunk = drained.chunk
      /\ rolled.computed = IF ~ stale /\ drained.computed > 0 THEN drained.computed - rejected
                           ELSE drained.computed
      /\ rolled.placeholders = IF ~ stale /\ drained.placeholders > 0
                               THEN drained.placeholders - rejected
                               ELSE drained.placeholders
  <2>1. rejected \in Int
    OBVIOUS
  <2> HIDE DEF stale
  <2> QED BY ONLY <1>2, <2>1, RollbackFacts
<1> HIDE DEF rolled
<1>5. /\ out.status = rolled.status /\ out.stale = rolled.stale
      /\ out.computed = rolled.computed /\ out.spec = rolled.spec
      /\ out.drop = rolled.drop /\ out.chunk = rolled.chunk
      /\ out.tokens = rolled.tokens + Lesser(g, Room(r))
      /\ out.placeholders = IF stale THEN rolled.placeholders
                            ELSE rolled.placeholders - Lesser(g, Room(r))
  <2>1. Types /\ r \in Requests /\ g \in Int
    OBVIOUS
  <2> HIDE DEF stale
  <2> QED BY ONLY <1>4, <2>1, WithOutputFacts
<1> HIDE DEF out
<1>6. PICK room \in Int, limit \in Int, k \in Int :
        room = Room(r) /\ limit = Limit(r) /\ k = req[r].tokens /\ room = limit - k
  <2>1. Limit(r) \in Int /\ Room(r) = Limit(r) - req[r].tokens
    BY LimitFacts DEF Room, Limit
  <2> QED BY <1>1, <2>1
<1>7. CASE stale /\ (req[r].drop \/ absent)
  <2>1. p = drained
    BY <1>3, <1>7
  <2> QED BY <1>2, <1>7, <2>1 DEF Shifted
<1>8. CASE p = Fresh("FINISHED")
  BY <1>8
<1>9. CASE ~ (stale /\ (req[r].drop \/ absent)) /\ ~ (g >= Room(r)) /\ p = out
  <2>1. Lesser(g, Room(r)) = g /\ k + g < limit
    BY <1>6, <1>9 DEF Lesser
  <2>2. p.tokens = k + g /\ p.tokens < Limit(r)
    BY <1>2, <1>4, <1>5, <1>6, <1>9, <2>1
  <2>3. CASE stale
    <3>1. req[r].status # "RUNNING"
      BY <1>9, <2>3
    <3>2. p.tokens >= req[r].tokens
      BY <1>6, <2>2
    <3> QED BY <1>2, <1>4, <1>5, <1>9, <2>2, <2>3, <3>1, <3>2 DEF Shifted
  <2>4. CASE ~ stale
    <3>1. /\ p.status = req[r].status /\ p.stale = 0 /\ p.spec = req[r].spec
          /\ p.drop = req[r].drop /\ p.chunk = req[r].chunk /\ p.tokens = req[r].tokens + g
      BY <1>2, <1>4, <1>5, <1>6, <1>9, <2>2, <2>4
    <3>2. p.computed = IF req[r].computed > 0 THEN req[r].computed - rejected ELSE req[r].computed
      BY <1>2, <1>4, <1>5, <1>9, <2>4
    <3>3. p.placeholders = rolled.placeholders - g
      BY <1>5, <1>9, <2>1, <2>4
    <3>4. rolled.placeholders = IF req[r].placeholders > 0 THEN req[r].placeholders - rejected
                                ELSE req[r].placeholders
      BY <1>2, <1>4, <2>4
    <3> QED BY <2>2, <2>4, <3>1, <3>2, <3>3, <3>4 DEF Delivered
  <2> QED BY <2>3, <2>4
<1> QED BY <1>3, <1>7, <1>8, <1>9

(* The output of the oldest batch, for one request.                        *)
LEMMA OutputFine ==
  ASSUME IInv, DInv, pc = "idle", NEW r \in Requests, batches # <<>>,
         NEW b, b = batches[1], NEW acc \in Nat,
         acc <= IF r \in b.samples THEN b.spec[r] ELSE 0,
         NEW eos \in BOOLEAN, NEW absent \in BOOLEAN,
         NEW p, p = Processed(r, b, acc, eos, absent), NEW v,
         v = IF p.status = "FINISHED" THEN 0
             ELSE IF b.n[r] = 0 THEN worker[r]
             ELSE StartOf(b, r) + (IF r \in b.samples THEN 1 + acc ELSE 0)
  PROVE  /\ v \in Nat
         /\ Tracked(r, p, FALSE, Tail(batches), v)
         /\ MaxInFlight <= 2 => Lonely(r, p, Tail(batches), v)
<1>1. /\ Types /\ batches \in Seq(BatchRec) /\ BatchesOK(batches) /\ Fine(r)
      /\ step.resumed = {} /\ worker[r] \in Nat
  BY DEF IInv, DInv, Types, OtherInv
<1>2. PICK B \in Seq(BatchRec), w \in Nat, q \in ReqRec :
        B = batches /\ w = worker[r] /\ q = req[r]
  <2>1. batches \in Seq(BatchRec) /\ worker[r] \in Nat /\ req[r] \in ReqRec
    BY <1>1, ReqFacts
  <2> QED BY ONLY <2>1, Zenon
<1>3. /\ b \in BatchRec /\ BatchOK(b) /\ b.n[r] \in Int /\ b.spec[r] \in Int
      /\ b.resumed[r] \in Int
  <2>1. 1 \in 1 .. Len(batches)
    BY <1>1
  <2> QED BY <1>1, <2>1, BatchTypes DEF BatchesOK
<1>4. /\ r \in Requests /\ B # <<>> /\ BatchesOK(B) /\ B[1] = b
      /\ Tracked(r, q, FALSE, B, w) /\ (MaxInFlight <= 2 => Lonely(r, q, B, w))
  BY <1>1, <1>2 DEF Fine
<1>5. PICK g \in Nat, rejected \in Int :
        /\ g = IF r \in b.samples THEN 1 + acc ELSE 0
        /\ rejected = IF r \in b.samples THEN b.spec[r] - acc ELSE 0
  <2>1. /\ (IF r \in b.samples THEN 1 + acc ELSE 0) \in Nat
        /\ (IF r \in b.samples THEN b.spec[r] - acc ELSE 0) \in Int
    BY <1>3
  <2> QED BY ONLY <2>1, Zenon
<1>6. PICK s \in Nat : s = StartOf(b, r)
  <2>1. b.resumed[r] >= 0
    BY <1>3 DEF BatchOK
  <2>2. StartOf(b, r) \in Nat
    BY <1>1, <1>3, <2>1 DEF StartOf
  <2> QED BY ONLY <2>2, Zenon
<1>7. v = IF p.status = "FINISHED" THEN 0 ELSE IF b.n[r] = 0 THEN w ELSE s + g
  BY <1>2, <1>5, <1>6
<1>8. v \in Nat
  BY <1>7
<1>9. p \in ReqRec
  <2>1. acc \in Int
    OBVIOUS
  <2> QED BY <1>1, <1>3, <2>1, ProcessedFacts
<1>10. CASE ~ Live(r)
  <2>1. p = q /\ q.status \notin LiveStatus
    BY <1>2, <1>10 DEF Processed, Live, LiveStatus
  <2>2. q = Fresh(q.status)
    BY <1>4, <2>1 DEF Tracked
  <2>3. Tracked(r, p, FALSE, Tail(batches), v)
    BY <2>1, <2>2 DEF Tracked
  <2>4. Lonely(r, p, Tail(batches), v)
    BY <2>1 DEF Lonely, LiveStatus
  <2> QED BY <1>8, <2>3, <2>4
<1>11. CASE p = Fresh("FINISHED")
  <2>1. p.status = "FINISHED"
    BY <1>11, FreshFacts DEF Statuses
  <2>2. Tracked(r, p, FALSE, Tail(batches), v)
    BY <1>11, <2>1 DEF Tracked, LiveStatus
  <2>3. Lonely(r, p, Tail(batches), v)
    BY <2>1 DEF Lonely
  <2> QED BY <1>8, <2>2, <2>3
<1>12. CASE Live(r) /\ p # Fresh("FINISHED")
  <2>1. q.status \in LiveStatus /\ Counted(r, q, FALSE)
    BY <1>2, <1>4, <1>12 DEF Live, LiveStatus, Tracked
  <2>2. q.tokens < Limit(r) /\ (q.status = "RUNNING" /\ q.stale > 0 => q.drop)
        /\ q.stale \in Int
    BY <2>1, Fields DEF Counted
  <2>3. CASE b.n[r] = 0
    <3>1. p = q
      BY <1>2, <2>3 DEF Processed
    <3>2. q.status # "FINISHED"
      BY <2>1 DEF LiveStatus
    <3>3. v = w
      BY <1>7, <2>3, <3>1, <3>2
    <3>4. Shifted(q, p, 0) /\ p.tokens < Limit(r)
      BY <2>2, <3>1 DEF Shifted
    <3>5. /\ q \in ReqRec /\ p \in ReqRec /\ B \in Seq(BatchRec) /\ 0 \in Int
          /\ 0 = B[1].n[r] /\ (0 = 0 => v = w) /\ (0 # 0 => q.stale > 0)
      BY <1>4, <1>9, <2>3, <3>3
    <3>6. Tracked(r, p, FALSE, Tail(B), v)
      BY ONLY <1>4, <2>1, <3>4, <3>5, ShiftedTracked
    <3>7. ASSUME MaxInFlight <= 2 PROVE Lonely(r, p, Tail(B), v)
      <4>1. /\ Lonely(r, q, B, w) /\ p.status = q.status /\ p.drop = q.drop
            /\ B[1].n[r] = 0 => v = w /\ p.tokens = q.tokens
        BY <1>4, <3>1, <3>3, <3>7
      <4> QED BY ONLY <1>4, <3>5, <4>1, LonelyTail
    <3> QED BY <1>2, <1>8, <3>6, <3>7
  <2>4. CASE b.n[r] # 0
    <3>1. \/ q.stale > 0 /\ Shifted(q, p, b.n[r]) /\ p.tokens < Limit(r)
          \/ ~ (q.stale > 0) /\ Delivered(q, p, g, rejected) /\ p.tokens < Limit(r)
      <4>1. /\ Types /\ r \in Requests /\ Live(r) /\ b \in BatchRec /\ b.n[r] # 0
            /\ acc \in Nat /\ eos \in BOOLEAN /\ absent \in BOOLEAN
            /\ req[r].tokens < Limit(r)
            /\ req[r].status = "RUNNING" /\ req[r].stale > 0 => req[r].drop
            /\ g \in Nat /\ g = (IF r \in b.samples THEN 1 + acc ELSE 0)
            /\ rejected \in Int /\ rejected = (IF r \in b.samples THEN b.spec[r] - acc ELSE 0)
            /\ p = Processed(r, b, acc, eos, absent)
        BY <1>1, <1>2, <1>3, <1>5, <1>12, <2>2, <2>4
      <4>2. \/ p = Fresh("FINISHED")
            \/ req[r].stale > 0 /\ Shifted(req[r], p, b.n[r]) /\ p.tokens < Limit(r)
            \/ ~ (req[r].stale > 0) /\ Delivered(req[r], p, g, rejected) /\ p.tokens < Limit(r)
        BY ONLY <4>1, ProcessedOutput
      <4> QED BY ONLY <1>2, <1>12, <4>2
    <3>2. p.status = q.status /\ p.status # "FINISHED" /\ v = s + g
      <4>1. p.status = q.status
        BY <3>1 DEF Shifted, Delivered
      <4>2. q.status # "FINISHED"
        BY <2>1 DEF LiveStatus
      <4> QED BY <1>7, <2>4, <4>1, <4>2
    <3>3. CASE q.stale > 0 /\ Shifted(q, p, b.n[r]) /\ p.tokens < Limit(r)
      <4>1. PICK n \in Int : n = b.n[r]
        BY <1>3
      <4>2. /\ q \in ReqRec /\ p \in ReqRec /\ B \in Seq(BatchRec) /\ n \in Int
            /\ n = B[1].n[r] /\ (n = 0 => v = w) /\ (n # 0 => q.stale > 0)
            /\ Shifted(q, p, n) /\ p.tokens < Limit(r)
        BY <1>4, <1>9, <2>4, <3>3, <4>1
      <4>3. Tracked(r, p, FALSE, Tail(B), v)
        BY ONLY <1>4, <2>1, <4>2, ShiftedTracked
      <4>4. ASSUME MaxInFlight <= 2 PROVE Lonely(r, p, Tail(B), v)
        <5>1. /\ Lonely(r, q, B, w) /\ p.status = q.status /\ p.drop = q.drop
              /\ B[1].n[r] = 0 => v = w /\ p.tokens = q.tokens
          BY <1>4, <2>4, <3>3, <4>4 DEF Shifted
        <5> QED BY ONLY <1>4, <4>2, <5>1, LonelyTail
      <4> QED BY <1>2, <1>8, <4>3, <4>4
    <3>4. CASE ~ (q.stale > 0) /\ Delivered(q, p, g, rejected) /\ p.tokens < Limit(r)
      <4>1. /\ q \in ReqRec /\ p \in ReqRec /\ B \in Seq(BatchRec) /\ B[1].n[r] # 0
            /\ ~ (q.stale > 0) /\ acc \in Nat /\ g \in Int /\ rejected \in Int
            /\ Delivered(q, p, g, rejected) /\ p.tokens < Limit(r)
            /\ IF r \in B[1].samples
               THEN acc <= B[1].spec[r] /\ g = 1 + acc /\ rejected = B[1].spec[r] - acc
               ELSE g = 0 /\ rejected = 0
            /\ v = (IF B[1].resumed[r] # 0 THEN B[1].resumed[r] ELSE w) + g
        <5>1. s = IF B[1].resumed[r] # 0 THEN B[1].resumed[r] ELSE w
          BY <1>2, <1>4, <1>6 DEF StartOf
        <5>2. v = (IF B[1].resumed[r] # 0 THEN B[1].resumed[r] ELSE w) + g
          BY <3>2, <5>1
        <5>3. IF r \in B[1].samples
               THEN acc <= B[1].spec[r] /\ g = 1 + acc /\ rejected = B[1].spec[r] - acc
               ELSE g = 0 /\ rejected = 0
          BY <1>4, <1>5
        <5> QED BY <1>4, <1>9, <2>4, <3>4, <5>2, <5>3
      <4>2. Tracked(r, p, FALSE, Tail(B), v)
        BY ONLY <1>4, <2>1, <4>1, DeliveredTracked
      <4>3. Lonely(r, p, Tail(B), v)
        <5>1. q.status = "RUNNING"
          <6> SUFFICES ASSUME q.status # "RUNNING" PROVE FALSE
            OBVIOUS
          <6>1. PICK i \in 0 .. Len(B) : Split(B, w, r, q, FALSE, i)
            BY <1>4, <2>1 DEF Tracked
          <6>2. q.stale = SharesOf(B, r, i) /\ Quiet(B, r, i + 1 .. Len(B))
            BY <6>1 DEF Split
          <6>3. Len(B) \in Nat /\ Len(B) >= 1
            BY <1>4
          <6>4. CASE i = 0
            <7>1. 1 \in i + 1 .. Len(B)
              BY <6>3, <6>4
            <7> QED BY <4>1, <6>2, <7>1 DEF Quiet
          <6>5. CASE i # 0
            <7>1. 1 \in 1 .. i
              BY <6>3, <6>5
            <7>2. B[1].n[r] <= SharesOf(B, r, i) /\ SharesOf(B, r, i) \in Nat
              BY <1>4, <7>1, BatchSums
            <7> QED BY <1>3, <1>4, <2>4, <4>1, <6>2, <7>2 DEF BatchOK
          <6> QED BY <6>4, <6>5
        <5> QED BY <3>2, <5>1 DEF Lonely
      <4> QED BY <1>2, <1>8, <4>2, <4>3
    <3> QED BY <3>1, <3>3, <3>4
  <2> QED BY <2>3, <2>4
<1> QED BY <1>10, <1>11, <1>12

(* The output of the oldest batch.                                         *)
LEMMA OutputDecode ==
  ASSUME IInv, DInv, NEW acc \in [Requests -> 0 .. num_spec_tokens],
         NEW eos \in SUBSET Requests, NEW absent \in SUBSET Requests,
         UpdateFromOutput(acc, eos, absent)
  PROVE  DInv'
<1> DEFINE b == Head(batches)
           after == [r \in Requests |-> Processed(r, b, acc[r], r \in eos, r \in absent)]
           held == [r \in Requests |->
                      IF after[r].status = "FINISHED" THEN 0
                      ELSE IF b.n[r] = 0 THEN worker[r]
                      ELSE StartOf(b, r) + (IF r \in b.samples THEN 1 + acc[r] ELSE 0)]
<1>1. /\ pc = "idle" /\ batches # <<>> /\ batches' = Tail(batches)
      /\ UNCHANGED <<last, pause, resets, pc, step>>
      /\ req' = after /\ worker' = held
      /\ \A r \in Requests : acc[r] <= IF r \in b.samples THEN b.spec[r] ELSE 0
  BY DEF UpdateFromOutput
<1>2. Types /\ StepInv /\ batches \in Seq(BatchRec) /\ OtherInv /\ step.resumed = {}
      /\ BatchesOK(batches)
  BY <1>1 DEF IInv, DInv, Types
<1>3. b = batches[1]
  BY <1>1, <1>2
<1> HIDE DEF b
<1>4. ASSUME NEW r \in Requests
      PROVE  worker'[r] \in Nat /\ Fine(r)'
  <2>1. PICK a \in Nat, e \in BOOLEAN, m \in BOOLEAN :
          a = acc[r] /\ e = (r \in eos) /\ m = (r \in absent)
    <3>1. acc[r] \in Nat
      BY Constants
    <3>2. (r \in eos) \in BOOLEAN /\ (r \in absent) \in BOOLEAN
      OBVIOUS
    <3> QED BY ONLY <3>1, <3>2, Zenon
  <2>2. PICK p : p = Processed(r, b, a, e, m) /\ req'[r] = p
    BY <1>1, <2>1, Zenon
  <2>3. after[r] = p
    BY <1>1, <2>2
  <2>4. PICK v : v = worker'[r]
             /\ v = IF p.status = "FINISHED" THEN 0
                    ELSE IF b.n[r] = 0 THEN worker[r]
                    ELSE StartOf(b, r) + (IF r \in b.samples THEN 1 + a ELSE 0)
    <3> HIDE DEF after
    <3> QED BY <1>1, <2>1, <2>3
  <2>5. a <= IF r \in b.samples THEN b.spec[r] ELSE 0
    BY <1>1, <2>1
  <2>6. /\ v \in Nat
        /\ Tracked(r, p, FALSE, Tail(batches), v)
        /\ MaxInFlight <= 2 => Lonely(r, p, Tail(batches), v)
    <3>1. /\ IInv /\ DInv /\ pc = "idle" /\ r \in Requests /\ batches # <<>>
          /\ b = batches[1] /\ a \in Nat /\ e \in BOOLEAN /\ m \in BOOLEAN
      BY <1>1, <1>3
    <3> QED BY ONLY <2>2, <2>4, <2>5, <3>1, OutputFine
  <2>7. step'.n[r] = 0 /\ step'.resumed = {}
    BY <1>1, <1>2 DEF StepInv
  <2> QED BY <1>1, <2>2, <2>4, <2>6, <2>7 DEF Fine
<1>5. worker' \in [Requests -> Nat]
  <2> HIDE DEF after
  <2>1. worker' = [r \in Requests |-> worker'[r]]
    BY <1>1
  <2> QED BY ONLY <1>4, <2>1, Zenon
<1>6. PICK B \in Seq(BatchRec), m \in Nat : B = batches /\ m = Len(B) - 1 /\ B # <<>>
  <2>1. Len(batches) - 1 \in Nat
    BY <1>1, <1>2
  <2> QED BY ONLY <1>1, <1>2, <2>1, Zenon
<1>7. Len(Tail(B)) = m /\ BatchesOK(Tail(B))
  <2>1. m + 1 = Len(B) /\ Len(Tail(B)) = m /\ \A j \in 1 .. m : Tail(B)[j] = B[j + 1]
    BY <1>6
  <2>2. \A j \in 1 .. m : j + 1 \in 1 .. m + 1
    OBVIOUS
  <2> QED BY <1>2, <1>6, <2>1, <2>2 DEF BatchesOK
<1>8. OtherInv'
  <2>1. Len(batches') <= MaxInFlight
    BY <1>1, <1>2, <1>6, <1>7, CountsAssumption DEF OtherInv
  <2> QED BY <1>1, <1>2, <1>5, <2>1 DEF OtherInv
<1> QED BY <1>1, <1>2, <1>4, <1>6, <1>7, <1>8 DEF DInv

(* add_request: no batch in flight has a share of a new request.           *)
LEMMA AddDecode ==
  ASSUME IInv, DInv, NEW r \in Requests, AddRequest(r)
  PROVE  DInv'
<1> DEFINE fresh == [Fresh("WAITING") EXCEPT !.tokens = num_prompt_tokens[r]]
<1>1. /\ pc = "idle" /\ req[r].status = "NEW" /\ req' = [req EXCEPT ![r] = fresh]
      /\ UNCHANGED <<last, pause, resets, pc, step, batches, worker>>
  BY DEF AddRequest
<1>2. /\ Types /\ StepInv /\ NewInv /\ batches \in Seq(BatchRec) /\ OtherInv
      /\ step.resumed = {} /\ BatchesOK(batches) /\ step.n[r] = 0
  BY <1>1 DEF IInv, DInv, Types, StepInv
<1>3. /\ fresh.status = "WAITING" /\ fresh.computed = 0 /\ fresh.spec = 0
      /\ fresh.tokens = num_prompt_tokens[r] /\ fresh.placeholders = 0 /\ fresh.stale = 0
  BY DEF Fresh
<1> HIDE DEF fresh
<1>4. req'[r] = fresh /\ \A q \in Requests : q # r => req'[q] = req[q]
  BY <1>1, <1>2 DEF Types
<1>5. PICK B \in Seq(BatchRec), m \in Nat : B = batches /\ m = Len(B)
  <2>1. Len(batches) \in Nat
    BY <1>2
  <2> QED BY ONLY <1>2, <2>1, Zenon
<1>6. Quiet(B, r, 0 + 1 .. m)
  <2>1. DOMAIN B = 0 + 1 .. m
    BY <1>5
  <2> QED BY <1>1, <1>2, <1>5, <2>1 DEF Quiet, NewInv
<1>7. SharesOf(B, r, 0) = 0 /\ OwedOf(B, r, 0) = 0 /\ OwedOf(B, r, m) = 0
  <2>1. \A j \in 1 .. m : Owed(B[j], r) = 0
    <3>1. \A j \in 1 .. m : B[j].n[r] = 0
      BY <1>6 DEF Quiet
    <3>2. \A j \in 1 .. m : r \in B[j].samples => B[j].n[r] > 0
      BY <1>2, <1>5 DEF BatchesOK, BatchOK
    <3> QED BY <3>1, <3>2 DEF Owed
  <2> DEFINE g == [j \in DOMAIN B |-> Owed(B[j], r)]
  <2>2. \A j \in 1 .. m : g[j] = 0
    BY <1>5, <2>1
  <2>3. \A i : OwedOf(B, r, i) = SumFunctionOnSet(g, 1 .. i)
    BY DEF OwedOf
  <2> HIDE DEF g
  <2>4. IsFiniteSet(1 .. m)
    BY FS_Interval
  <2>5. SumFunctionOnSet(g, 1 .. m) = 0
    BY <2>2, <2>4, SumZero
  <2> QED BY <1>2, <1>5, <2>3, <2>5, BatchSums
<1>8. Counted(r, fresh, FALSE)
  <2>1. num_prompt_tokens[r] >= 1 /\ num_prompt_tokens[r] < Limit(r)
    BY LimitFacts
  <2>2. 0 \in 0 .. num_spec_tokens /\ 0 \in 0 .. max_model_len
    BY Constants
  <2> QED BY <1>3, <2>1, <2>2 DEF Counted
<1>9. Split(B, worker[r], r, fresh, FALSE, 0) /\ 0 \in 0 .. Len(B)
  BY <1>3, <1>5, <1>6, <1>7 DEF Split
<1>10. Tracked(r, fresh, FALSE, B, worker[r])
  BY <1>3, <1>8, <1>9 DEF Tracked, LiveStatus
<1>11. Lonely(r, fresh, B, worker[r])
  BY <1>5, <1>6 DEF Lonely
<1>12. ASSUME NEW q \in Requests PROVE Fine(q)'
  <2>1. CASE q = r
    BY <1>1, <1>2, <1>4, <1>5, <1>10, <1>11, <2>1 DEF Fine
  <2>2. CASE q # r
    <3>1. Fine(q) /\ req'[q] = req[q]
      BY <1>4, <2>2 DEF DInv
    <3> QED BY <1>1, <3>1, FineFrame
  <2> QED BY <2>1, <2>2
<1>13. OtherInv'
  BY <1>1, <1>2 DEF OtherInv
<1> QED BY <1>1, <1>2, <1>12, <1>13 DEF DInv

(* finish_requests.                                                        *)
LEMMA AbortDecode ==
  ASSUME IInv, DInv, NEW r \in Requests, AbortRequest(r)
  PROVE  DInv'
<1>1. /\ pc = "idle" /\ req' = [req EXCEPT ![r] = Fresh("FINISHED")]
      /\ worker' = [worker EXCEPT ![r] = 0]
      /\ UNCHANGED <<last, pause, resets, pc, step, batches>>
  BY DEF AbortRequest
<1>2. /\ Types /\ StepInv /\ OtherInv /\ step.resumed = {} /\ step.n[r] = 0
      /\ BatchesOK(batches)
  BY <1>1 DEF IInv, DInv, StepInv
<1>3. Fresh("FINISHED").status = "FINISHED"
  BY DEF Fresh
<1>4. /\ req'[r] = Fresh("FINISHED") /\ worker' \in [Requests -> Nat]
      /\ \A q \in Requests : q # r => req'[q] = req[q] /\ worker'[q] = worker[q]
  BY <1>1, <1>2 DEF Types, OtherInv
<1>5. ASSUME NEW q \in Requests PROVE Fine(q)'
  <2>1. CASE q = r
    <3>1. Tracked(r, req'[r], FALSE, batches, worker'[r])
      BY <1>3, <1>4 DEF Tracked, LiveStatus
    <3>2. Lonely(r, req'[r], batches, worker'[r])
      BY <1>3, <1>4 DEF Lonely
    <3> QED BY <1>1, <1>2, <2>1, <3>1, <3>2 DEF Fine
  <2>2. CASE q # r
    <3>1. Fine(q) /\ req'[q] = req[q] /\ worker'[q] = worker[q]
      BY <1>4, <2>2 DEF DInv
    <3> QED BY <1>1, <3>1, FineFrame
  <2> QED BY <2>1, <2>2
<1>6. OtherInv'
  BY <1>1, <1>2, <1>4 DEF OtherInv
<1> QED BY <1>1, <1>2, <1>5, <1>6 DEF DInv

-----------------------------------------------------------------------------
(* Every step preserves the invariant.                                     *)
LEMMA DecodeNext ==
  IInv /\ IInv' /\ DInv /\ PadsFit' /\ [Next]_vars => DInv'
<1> SUFFICES ASSUME IInv, IInv', DInv, PadsFit', [Next]_vars PROVE DInv'
  OBVIOUS
<1>1. CASE StartSchedule
  BY <1>1, StartDecode
<1>2. CASE RunningSkip
  BY <1>2, RunningSkipDecode
<1>3. CASE RunningSchedule
  BY <1>3, RunningScheduleDecode
<1>4. CASE RunningPreempt
  BY <1>4, RunningPreemptDecode
<1>5. CASE RunningDone
  BY <1>5, OutsideDecode
<1>6. CASE WaitingSkip
  BY <1>6, WaitingDecode
<1>7. ASSUME NEW hit \in 0 .. max_model_len, Admit(hit) \/ WaitingDone(hit) PROVE DInv'
  <2>1. hit \in Int
    BY Constants
  <2>2. CASE Admit(hit)
    BY <2>1, <2>2, AdmitDecode
  <2>3. CASE WaitingDone(hit)
    BY <2>3, WaitingDecode
  <2> QED BY <1>7, <2>2, <2>3
<1>8. CASE FinishSchedule
  BY <1>8, FinishDecode
<1>9. ASSUME NEW acc \in [Requests -> 0 .. num_spec_tokens],
             NEW eos \in SUBSET Requests, NEW absent \in SUBSET Requests,
             UpdateFromOutput(acc, eos, absent)
      PROVE  DInv'
  BY <1>9, OutputDecode
<1>10. ASSUME NEW r \in Requests, AddRequest(r) \/ AbortRequest(r) PROVE DInv'
  BY <1>10, AddDecode, AbortDecode
<1>11. CASE \E s \in PauseStates : SetPauseState(s)
  BY <1>11, OutsideDecode
<1>12. CASE ResetPrefixCache
  BY <1>12, ResetDecode
<1>13. CASE UNCHANGED vars
  BY <1>13, OutsideDecode
<1>14. CASE Schedule
  BY <1>1, <1>2, <1>3, <1>4, <1>5, <1>6, <1>7, <1>8, <1>14 DEF Schedule
<1>15. CASE Output
  BY <1>9, <1>15 DEF Output
<1> QED BY <1>10, <1>11, <1>12, <1>13, <1>14, <1>15 DEF Next

(* The invariant holds as long as PadsFit does.                            *)
LEMMA DecodeInv == Spec /\ []PadsFit => []DInv
<1>1. Init => DInv
  BY DecodeInit
<1>2. IInv /\ IInv' /\ DInv /\ PadsFit' /\ [Next]_vars => DInv'
  BY DecodeNext
<1> QED BY <1>1, <1>2, SchedulerInv, PTL DEF Spec

-----------------------------------------------------------------------------
(* The properties                                                          *)

(* What the invariant says of the counters of a request.                   *)
LEMMA CountersOf ==
  ASSUME IInv, DInv, NEW r \in Requests
  PROVE  /\ req[r].computed \in 0 .. max_model_len /\ req[r].tokens \in 0 .. max_model_len
         /\ req[r].spec \in 0 .. num_spec_tokens
         /\ req[r].placeholders \in Nat /\ req[r].in_flight \in Nat /\ req[r].stale \in Nat
<1> USE Constants
<1>1. Types /\ StaleIsOldest /\ BatchesOK(batches) /\ batches \in Seq(BatchRec) /\ Fine(r)
  BY DEF IInv, DInv, Types
<1>2. PICK x \in BOOLEAN : Tracked(r, req[r], x, batches, worker[r])
  <2>1. Tracked(r, req[r], TRUE, batches, worker[r]) \/ Tracked(r, req[r], FALSE, batches, worker[r])
    BY <1>1 DEF Fine
  <2> QED BY <2>1
<1>3. req[r] \in ReqRec
  BY <1>1, ReqFacts
<1>4. CASE req[r].status \in LiveStatus
  <2>1. Counted(r, req[r], x)
    BY <1>2, <1>4 DEF Tracked
  <2>2. PICK i \in 0 .. Len(batches) : Split(batches, worker[r], r, req[r], x, i)
    BY <1>2, <1>4 DEF Tracked
  <2>3. req[r].tokens \in 0 .. max_model_len
    <3>1. PICK k \in Int : k = req[r].tokens
      BY <1>3, Fields
    <3>2. PICK limit \in Nat : limit = Limit(r) /\ limit <= max_model_len
      BY LimitFacts
    <3>3. k >= 1 /\ k < limit
      BY <2>1, <3>1, <3>2 DEF Counted
    <3>4. k \in 0 .. max_model_len
      BY <3>2, <3>3
    <3> QED BY <3>1, <3>4
  <2>4. req[r].computed \in 0 .. max_model_len /\ req[r].spec \in 0 .. num_spec_tokens
    BY <2>1 DEF Counted
  <2>5. PICK m \in Nat : m = Len(batches)
    BY <1>1
  <2>6. /\ SharesOf(batches, r, i) \in Nat /\ SharesOf(batches, r, m) \in Nat
        /\ OwedOf(batches, r, i) \in Nat /\ OwedOf(batches, r, m) \in Nat
        /\ OwedOf(batches, r, i) <= OwedOf(batches, r, m)
    <3>1. i \in 0 .. Len(batches) /\ m \in 0 .. Len(batches)
      BY <2>2, <2>5
    <3> QED BY <1>1, <2>5, <3>1, BatchSums
  <2>7. req[r].placeholders \in Nat /\ req[r].stale \in Nat
    <3>1. /\ req[r].stale = SharesOf(batches, r, i)
          /\ req[r].placeholders = OwedOf(batches, r, m) - OwedOf(batches, r, i)
      BY <2>2, <2>5 DEF Split
    <3> QED BY <2>6, <3>1
  <2>8. req[r].in_flight \in Nat
    <3>1. Live(r)
      BY <1>4 DEF Live, LiveStatus
    <3>2. req[r].in_flight = Shares(r, m)
      BY <1>1, <2>5, <3>1 DEF StaleIsOldest
    <3> QED BY <2>6, <3>2 DEF Shares, SharesOf
  <2> QED BY <2>3, <2>4, <2>7, <2>8
<1>5. CASE req[r].status \notin LiveStatus
  <2>1. PICK s \in Statuses : s = req[r].status
    BY <1>3, Fields
  <2>2. req[r] = Fresh(s)
    BY <1>2, <1>5, <2>1 DEF Tracked
  <2>3. /\ req[r].computed = 0 /\ req[r].tokens = 0 /\ req[r].spec = 0
        /\ req[r].placeholders = 0 /\ req[r].in_flight = 0 /\ req[r].stale = 0
    BY <2>2, FreshFacts
  <2>4. 0 \in 0 .. max_model_len /\ 0 \in 0 .. num_spec_tokens
    OBVIOUS
  <2> QED BY <2>3, <2>4
<1> QED BY <1>4, <1>5

(* No request holds more blocks than the pool has.                         *)
LEMMA PoolBound ==
  ASSUME Types, BlocksConserved
  PROVE  /\ free \in 0 .. num_gpu_blocks
         /\ \A r \in Requests : req[r].blocks \in 0 .. num_gpu_blocks
<1> DEFINE f == [r \in Requests |-> req[r].blocks]
<1>1. \A r \in Requests : f[r] = req[r].blocks /\ f[r] \in Nat
  BY ReqFacts
<1>2. free \in Nat /\ free + SumFunctionOnSet(f, Requests) = num_gpu_blocks
  BY DEF Types, BlocksConserved, BlocksOf
<1> HIDE DEF f
<1>3. PICK sum \in Nat : sum = SumFunctionOnSet(f, Requests)
  BY <1>1, Constants, SumNat
<1>4. \A r \in Requests : f[r] <= sum
  BY <1>1, <1>3, Constants, SumTerm
<1>5. free + sum = num_gpu_blocks /\ num_gpu_blocks \in Nat
  BY <1>2, <1>3, Constants
<1>6. \A r \in Requests : f[r] \in 0 .. num_gpu_blocks
  BY <1>1, <1>2, <1>4, <1>5
<1>7. free \in 0 .. num_gpu_blocks
  BY <1>2, <1>5
<1> QED BY <1>1, <1>6, <1>7

(* Every counter of every request stays natural and within max_model_len,  *)
(* and no step is left with more than its budget, through every preemption,*)
(* rollback and drain of update_from_output().                             *)
THEOREM TypeTheorem == Spec /\ []PadsFit => []TypeOK
<1>1. IInv /\ DInv /\ PadsFit => TypeOK
  <2> SUFFICES ASSUME IInv, DInv, PadsFit PROVE TypeOK
    OBVIOUS
  <2>1. Types /\ BlocksConserved /\ StepInv /\ OtherInv
    BY DEF IInv, DInv
  <2>2. ASSUME NEW r \in Requests PROVE req[r] \in Record
    <3>1. /\ req[r].computed \in 0 .. max_model_len /\ req[r].tokens \in 0 .. max_model_len
          /\ req[r].spec \in 0 .. num_spec_tokens
          /\ req[r].placeholders \in Nat /\ req[r].in_flight \in Nat /\ req[r].stale \in Nat
      BY CountersOf
    <3>2. req[r].blocks \in 0 .. num_gpu_blocks
      BY <2>1, PoolBound
    <3>3. req[r] \in ReqRec
      BY <2>1, ReqFacts
    <3> QED BY ONLY <3>1, <3>2, <3>3 DEF ReqRec, Record, Statuses
  <2>3. req \in [Requests -> Record]
    BY <2>1, <2>2 DEF Types
  <2>4. step.budget \in 0 .. max_num_scheduled_tokens
    <3>1. step.budget \in Nat /\ step.n \in [Requests -> Int]
      BY <2>1, StepFacts
    <3>2. \A r \in Requests : step.n[r] \in Nat
      BY <3>1 DEF PadsFit
    <3>3. PICK sum \in Nat : sum = SumFunctionOnSet(step.n, Requests)
      BY <3>2, Constants, SumNat
    <3>4. step.budget + sum <= max_num_scheduled_tokens
      BY <2>1, <3>3 DEF StepInv
    <3> QED BY <3>1, <3>4, Constants
  <2>5. free \in 0 .. num_gpu_blocks
    BY <2>1, PoolBound
  <2> QED BY <2>1, <2>3, <2>4, <2>5 DEF TypeOK, Types, OtherInv
<1> QED BY <1>1, SchedulerInv, DecodeInv, PTL

(* The optimistic computed count of update_after_schedule() and the        *)
(* rollback of rejected drafts agree: between two steps the KV of every    *)
(* decoding request is short of exactly its last token, with any number of *)
(* batches in flight.                                                      *)
THEOREM DecodeTheorem == Spec /\ []PadsFit => []DecodeAccounting
<1>1. DInv => DecodeAccounting
  <2> SUFFICES ASSUME DInv, pc = "idle", NEW r \in Requests,
                      req[r].status = "RUNNING", ~ req[r].chunk
               PROVE  req[r].computed = req[r].tokens + req[r].placeholders - 1
    BY DEF DecodeAccounting
  <2>1. Tracked(r, req[r], FALSE, batches, worker[r])
    BY DEF DInv, Fine
  <2>2. Counted(r, req[r], FALSE)
    BY <2>1 DEF Tracked, LiveStatus
  <2> QED BY <2>2 DEF Counted
<1> QED BY <1>1, DecodeInv, PTL

(* An output that update_from_output() delivers starts right after the     *)
(* tokens its request has, whether the request was preempted, resumed or   *)
(* neither meanwhile: with one pipeline stage, where max_concurrent_batches*)
(* is at most 2.                                                           *)
THEOREM ContiguousTheorem ==
  ASSUME MaxInFlight <= 2
  PROVE  Spec /\ []PadsFit => []OutputContiguous
<1>1. IInv /\ DInv => OutputContiguous
  <2> SUFFICES ASSUME IInv, DInv, pc = "idle", batches # <<>>, NEW r \in Head(batches).samples,
                      Live(r), ~ (req[r].stale > 0 /\ req[r].drop)
               PROVE  StartOf(Head(batches), r) = req[r].tokens
    BY DEF OutputContiguous
  <2>1. /\ Types /\ batches \in Seq(BatchRec) /\ BatchesOK(batches) /\ step.resumed = {}
    BY DEF IInv, DInv, Types
  <2>2. Head(batches) = batches[1] /\ 1 \in 1 .. Len(batches) /\ Len(batches) \in Nat
    BY <2>1
  <2>3. batches[1] \in BatchRec /\ r \in Requests
    <3>1. batches[1] \in BatchRec /\ r \in batches[1].samples
      BY <2>1, <2>2
    <3>2. batches[1].samples \in SUBSET Requests
      BY <3>1 DEF BatchRec
    <3> QED BY <3>1, <3>2
  <2>4. batches[1].n[r] \in Int /\ batches[1].n[r] > 0
    BY <2>1, <2>2, <2>3 DEF BatchesOK, BatchOK, BatchRec
  <2>5. /\ req[r] \in ReqRec /\ Tracked(r, req[r], FALSE, batches, worker[r])
        /\ Lonely(r, req[r], batches, worker[r]) /\ req[r].status \in LiveStatus
    BY <2>1, <2>3, ReqFacts DEF DInv, Fine, Live, LiveStatus
  <2>6. Counted(r, req[r], FALSE) /\ req[r].tokens # 0
    BY <2>5 DEF Tracked, Counted
  <2>7. PICK i \in 0 .. Len(batches) : Split(batches, worker[r], r, req[r], FALSE, i)
    BY <2>5 DEF Tracked
  <2>8. req[r].stale = SharesOf(batches, r, i)
    BY <2>7 DEF Split
  <2>9. i = 0 \/ req[r].stale > 0
    <3>1. CASE i # 0
      <4>1. 1 \in 1 .. i
        BY <3>1
      <4>2. SharesOf(batches, r, i) \in Nat /\ batches[1].n[r] <= SharesOf(batches, r, i)
        BY <2>1, <2>3, <4>1, BatchSums
      <4> QED BY <2>4, <2>8, <4>2
    <3> QED BY <3>1
  <2>10. Anchored(batches, worker[r], r, req[r].tokens, 0)
    <3>1. CASE req[r].status = "RUNNING"
      <4>1. ~ (req[r].stale > 0)
        BY <2>6, <3>1 DEF Counted
      <4>2. i = 0
        BY <2>9, <4>1
      <4> QED BY <2>7, <3>1, <4>2 DEF Split
    <3>2. CASE req[r].status # "RUNNING"
      <4>1. ~ Quiet(batches, r, 0 + 1 .. Len(batches))
        <5>1. 1 \in 0 + 1 .. Len(batches)
          BY <2>2
        <5> QED BY <2>4, <5>1 DEF Quiet
      <4>2. i # 0
        <5>1. Quiet(batches, r, i + 1 .. Len(batches))
          BY <2>7, <3>2 DEF Split
        <5> QED BY <4>1, <5>1
      <4>3. req[r].status \in {"WAITING", "PREEMPTED"} /\ ~ req[r].drop
        BY <2>5, <2>9, <3>2, <4>2 DEF LiveStatus
      <4> QED BY <2>5, <4>1, <4>3 DEF Lonely
    <3> QED BY <3>1, <3>2
  <2>11. (IF batches[1].resumed[r] # 0 THEN batches[1].resumed[r] ELSE worker[r]) = req[r].tokens
    <3>1. PICK B \in Seq(BatchRec) : B = batches
      BY <2>1
    <3>2. /\ B # <<>> /\ Anchored(B, worker[r], r, req[r].tokens, 0) /\ B[1].n[r] # 0
          /\ req[r].tokens # 0
      BY <2>4, <2>6, <2>10, <3>1
    <3>3. /\ (IF B[1].resumed[r] # 0 THEN B[1].resumed[r] ELSE worker[r]) = req[r].tokens
          /\ Anchored(Tail(B), 0, r, 0, 0)
      BY ONLY <3>1, <3>2, AnchoredHead
    <3> QED BY <3>1, <3>3
  <2> QED BY <2>2, <2>11 DEF StartOf
<1> QED BY <1>1, SchedulerInv, DecodeInv, PTL

-----------------------------------------------------------------------------
(* PadsFit                                                                 *)

(* A running request stays below max_model_len, its share of the step      *)
(* included: what schedule() needs to cut no share below zero.             *)
Below(r) == req[r].status = "RUNNING" => req[r].computed + step.n[r] < max_model_len
PadInv == PadsFit /\ \A r \in Requests : Below(r)

(* The shares stay, and no running request has computed more.              *)
LEMMA PadFrame ==
  ASSUME Types, Types', PadInv, step'.n = step.n, step'.spec = step.spec,
         \A r \in Requests : req'[r].status = "RUNNING" =>
           req[r].status = "RUNNING" /\ req'[r].computed <= req[r].computed
  PROVE  PadInv'
<1>1. PadsFit'
  BY DEF PadInv, PadsFit, DraftsScheduled
<1>2. ASSUME NEW r \in Requests, req'[r].status = "RUNNING"
      PROVE  req'[r].computed + step'.n[r] < max_model_len
  <2>1. PICK c \in Int, d \in Int, n \in Int :
          c = req[r].computed /\ d = req'[r].computed /\ n = step.n[r]
    <3>1. req \in [Requests -> ReqRec] /\ req' \in [Requests -> ReqRec]
      BY DEF Types
    <3>2. req[r].computed \in Int /\ req'[r].computed \in Int
      BY <3>1 DEF ReqRec
    <3>3. step.n[r] \in Int
      BY StepFacts
    <3> QED BY ONLY <3>2, <3>3, Zenon
  <2>2. d <= c /\ c + n < max_model_len
    BY <1>2, <2>1 DEF PadInv, Below
  <2>3. d + n < max_model_len
    BY ONLY <2>1, <2>2, Constants
  <2> QED BY <2>1, <2>3
<1> QED BY <1>1, <1>2 DEF PadInv, Below

(* Nothing is given out, and no running request has computed more than it  *)
(* had with its share.                                                     *)
LEMMA PadNothing ==
  ASSUME step'.n = Nothing, step'.spec = Nothing, Types,
         \A r \in Requests : req'[r].status = "RUNNING" =>
           req[r].status = "RUNNING" /\ req'[r].computed = req[r].computed + step.n[r],
         PadInv
  PROVE  PadInv'
<1>1. \A r \in Requests : step'.n[r] = 0 /\ step'.spec[r] = 0
  BY NothingFacts
<1>2. PadsFit'
  BY <1>1 DEF PadsFit, DraftsScheduled
<1>3. ASSUME NEW r \in Requests, req'[r].status = "RUNNING"
      PROVE  req'[r].computed + step'.n[r] < max_model_len
  <2>1. PICK c \in Int : c = req[r].computed + step.n[r]
    <3>1. req[r].computed \in Int /\ step.n[r] \in Int
      BY ReqFacts, StepFacts
    <3> QED BY <3>1
  <2>2. c < max_model_len
    BY <1>3, <2>1 DEF PadInv, Below
  <2>3. c + 0 < max_model_len
    BY <2>2
  <2> QED BY <1>1, <1>3, <2>1, <2>3
<1> QED BY <1>2, <1>3 DEF PadInv, Below

(* Init satisfies it.                                                      *)
LEMMA PadInit == Init => PadInv
<1> SUFFICES ASSUME Init PROVE PadInv
  OBVIOUS
<1>1. step = NoStep /\ \A r \in Requests : req[r] = Fresh("NEW")
  BY DEF Init
<1>2. \A r \in Requests : step.n[r] = 0 /\ step.spec[r] = 0
  BY <1>1, NothingFacts
<1>3. Fresh("NEW").status = "NEW"
  BY DEF Fresh
<1> QED BY <1>1, <1>2, <1>3 DEF PadInv, PadsFit, DraftsScheduled, Below

(* The start of schedule().                                                *)
LEMMA StartPad ==
  ASSUME IInv, PadInv, StartSchedule
  PROVE  PadInv'
<1> USE Constants
<1> DEFINE decoding == \E i \in 1 .. Len(running) : ~ req[running[i]].chunk
           configured == IF decoding THEN decode_prefill_token_budget
                         ELSE idle_prefill_token_budget
           budget == IF pause = "PAUSED_ALL" THEN 0 ELSE max_num_scheduled_tokens
           ages == [r \in Requests |-> IF Live(r) THEN last[r] ELSE -1]
<1>1. /\ pc = "idle" /\ req' = req
      /\ \/ /\ enable_decode_aware_prefill
            /\ step' = [NoStep EXCEPT
                 !.budget = budget,
                 !.prefill_budget = Lesser(configured, max_num_scheduled_tokens),
                 !.selected = SelectLongPrefills(ages)]
         \/ /\ ~ enable_decode_aware_prefill
            /\ step' = [NoStep EXCEPT !.budget = budget, !.prefill_budget = budget]
  BY DEF StartSchedule
<1>2. budget \in Nat /\ budget \in Int
  OBVIOUS
<1>3. Lesser(configured, max_num_scheduled_tokens) \in Int
  BY DEF Lesser
<1>4. SelectLongPrefills(ages) \in SUBSET Requests
  BY DEF SelectLongPrefills, Oldest
<1> HIDE DEF budget, configured, ages
<1>5. step'.n = Nothing /\ step'.spec = Nothing
  <2>1. CASE enable_decode_aware_prefill
    <3>1. step' = Started(budget, Lesser(configured, max_num_scheduled_tokens),
                          SelectLongPrefills(ages))
      BY <1>1, <2>1 DEF Started
    <3> QED BY <1>2, <1>3, <1>4, <3>1, StartedFacts, NothingFacts
  <2>2. CASE ~ enable_decode_aware_prefill
    <3>1. step' = StartedPlain(budget, budget)
      BY <1>1, <2>2 DEF StartedPlain
    <3> QED BY <1>2, <3>1, StartedPlainFacts, NothingFacts
  <2> QED BY <2>1, <2>2
<1>6. Types
  BY DEF IInv
<1>7. ASSUME NEW r \in Requests, req'[r].status = "RUNNING"
      PROVE  req[r].status = "RUNNING" /\ req'[r].computed = req[r].computed + step.n[r]
  <2>1. step.n[r] = 0
    BY <1>1 DEF IInv, StepInv
  <2>2. req[r].computed \in Int
    BY <1>6, ReqFacts
  <2> QED BY <1>1, <1>7, <2>1, <2>2
<1> QED BY <1>5, <1>6, <1>7, PadNothing

(* The end of schedule().                                                  *)
LEMMA FinishPad ==
  ASSUME IInv, PadInv, FinishSchedule
  PROVE  PadInv'
<1>1. /\ step' = NoStep
      /\ req' = [r \in Requests |->
                   IF r \in {q \in Requests : step.n[q] # 0}
                   THEN AddPlaceholders(UpdateAfterSchedule(req[r], step.n[r]), step.spec[r])
                   ELSE req[r]]
  BY DEF FinishSchedule
<1>2. Types
  BY DEF IInv
<1>3. ASSUME NEW r \in Requests, req'[r].status = "RUNNING"
      PROVE  req[r].status = "RUNNING" /\ req'[r].computed = req[r].computed + step.n[r]
  <2>1. PICK q \in ReqRec, n \in Int, d \in Int :
          q = req[r] /\ n = step.n[r] /\ d = step.spec[r]
    <3>1. req[r] \in ReqRec /\ step.n[r] \in Int /\ step.spec[r] \in Int
      BY <1>2, ReqFacts, StepFacts
    <3> QED BY ONLY <3>1, Zenon
  <2>2. CASE n # 0
    <3>1. req'[r] = AddPlaceholders(UpdateAfterSchedule(q, n), d)
      BY <1>1, <2>1, <2>2
    <3>2. req'[r].status = q.status /\ req'[r].computed = q.computed + n
      BY <2>1, <3>1, AfterScheduled DEF Scheduled
    <3> QED BY <1>3, <2>1, <3>2
  <2>3. CASE n = 0
    <3>1. req'[r] = q /\ q.computed \in Int
      BY <1>1, <2>1, <2>3, Fields
    <3> QED BY <1>3, <2>1, <2>3, <3>1
  <2> QED BY <2>2, <2>3
<1>4. step'.n = Nothing /\ step'.spec = Nothing
  BY <1>1, NothingFacts
<1> QED BY <1>2, <1>3, <1>4, PadNothing

(* A running request below max_model_len that lacks a token is not given a *)
(* negative share.                                                         *)
LEMMA RunningTokensNat ==
  ASSUME Types, NEW r \in Requests, step.budget > 0, req[r].computed < max_model_len,
         req[r].tokens + req[r].spec + req[r].placeholders - req[r].computed >= 1,
         AwarePrefill(r) => RemainingPrefill > 0
  PROVE  RunningTokens(r) >= 0
<1> USE Constants
<1> DEFINE all == req[r].tokens + req[r].spec + req[r].placeholders - req[r].computed
           capped == IF AwarePrefill(r) THEN Lesser(all, RemainingPrefill) ELSE Truncated(all)
           top == max_model_len - req[r].computed - 1
<1>1. all \in Int /\ top \in Int /\ all >= 1 /\ top >= 0
  BY ReqFacts
<1>2. RemainingPrefill \in Int /\ step.budget \in Int
  BY StepFacts DEF RemainingPrefill
<1>3. RunningTokens(r) = Lesser(Lesser(capped, step.budget), top)
  BY DEF RunningTokens
<1> HIDE DEF all, top
<1>4. capped \in Int /\ capped >= 1
  BY <1>1, <1>2 DEF Truncated, Lesser
<1> HIDE DEF capped
<1>5. Lesser(capped, step.budget) \in Int /\ Lesser(capped, step.budget) >= 1
  BY <1>2, <1>4 DEF Lesser
<1>6. Lesser(Lesser(capped, step.budget), top) >= 0
  BY ONLY <1>1, <1>5 DEF Lesser
<1> QED BY <1>3, <1>6

(* A running request is given tokens.                                      *)
LEMMA RunningPad ==
  ASSUME IInv, DInv, PadInv, RunningSchedule
  PROVE  PadInv'
<1> USE Constants
<1>0. PICK r, n, missing : RunningWrites(r, n, missing)
  BY RunningScheduleWrites DEF IInv
<1>1. Types
  BY DEF IInv
<1>2. /\ r = Current /\ n = RunningTokens(r) /\ pc = "running" /\ r \in Requests
      /\ req[r].status = "RUNNING" /\ n \in Int /\ missing \in Nat
      /\ step'.n = [step.n EXCEPT ![r] = n]
      /\ step'.spec = [step.spec EXCEPT ![r] = DraftsOf(r, n)]
      /\ req'[r] = Holding(req[r], req[r].blocks + missing)
      /\ \A q \in Requests : q # r => req'[q] = req[q]
  BY <1>0 DEF RunningWrites
<1>3. ~ SkipRunning(r) /\ step.budget > 0
  BY <1>2 DEF RunningSchedule, Current, InRunningLoop
<1>4. step.n \in [Requests -> Int] /\ step.spec \in [Requests -> Int] /\ step.resumed = {}
  BY <1>1, <1>2, StepFacts DEF DInv
<1>5. PICK c \in Int, t \in Int, p \in Int, s \in Int :
        c = req[r].computed /\ t = req[r].tokens /\ p = req[r].placeholders /\ s = req[r].spec
  <2>1. /\ req[r].computed \in Int /\ req[r].tokens \in Int /\ req[r].placeholders \in Int
        /\ req[r].spec \in Int
    BY <1>1, <1>2, ReqFacts
  <2> QED BY ONLY <2>1, Zenon
<1>6. Counted(r, req[r], FALSE)
  <2>1. Tracked(r, req[r], FALSE, batches, worker[r])
    BY <1>2, <1>4 DEF DInv, Fine
  <2> QED BY <1>2, <2>1 DEF Tracked, LiveStatus
<1>7. /\ s >= 0
      /\ \/ p = 0 /\ s = 0 /\ c < t
         \/ c = t + p - 1
  <2>1. req[r].chunk \in BOOLEAN
    BY <1>1, <1>2, ReqFacts
  <2>2. s >= 0
    BY <1>5, <1>6 DEF Counted
  <2>3. CASE req[r].chunk
    BY <1>2, <1>5, <1>6, <2>2, <2>3 DEF Counted
  <2>4. CASE ~ req[r].chunk
    BY <1>2, <1>5, <1>6, <2>2, <2>4 DEF Counted
  <2> QED BY <2>3, <2>4
<1>8. c < max_model_len
  <2>1. PICK m \in Int : m = step.n[r]
    BY <1>2, <1>4
  <2>2. m >= 0 /\ c + m < max_model_len
    BY <1>2, <1>5, <2>1 DEF PadInv, PadsFit, Below
  <2> QED BY <2>1, <2>2
<1>9. n >= 0
  <2>1. t + s + p - c >= 1
    BY <1>7
  <2>2. AwarePrefill(r) => RemainingPrefill > 0
    <3>1. RemainingPrefill \in Int
      BY <1>1, StepFacts DEF RemainingPrefill
    <3> QED BY <1>3, <3>1 DEF SkipRunning
  <2> QED BY <1>1, <1>2, <1>3, <1>5, <1>8, <2>1, <2>2, RunningTokensNat
<1>10. n <= max_model_len - c - 1
  BY <1>1, <1>2, <1>5, RunningTokensBound
<1>11. PICK d \in Int : d = DraftsOf(r, n) /\ d = Greater(0, Lesser(s, n + c - t - p))
  <2>1. DraftsOf(r, n) = Greater(0, Lesser(s, n + c - t - p))
    BY <1>5 DEF DraftsOf
  <2>2. Greater(0, Lesser(s, n + c - t - p)) \in Int
    BY <1>2 DEF Greater, Lesser
  <2> QED BY <2>1, <2>2
<1>12. d > 0 => n >= 1 + d
  <2>1. CASE p = 0 /\ s = 0 /\ c < t
    BY <1>2, <1>11, <2>1 DEF Greater, Lesser
  <2>2. CASE c = t + p - 1
    <3>1. n + c - t - p = n - 1
      BY <1>2, <2>2
    <3> QED BY <1>2, <1>11, <3>1 DEF Greater, Lesser
  <2> QED BY <1>7, <2>1, <2>2
<1>13. step'.n[r] = n /\ step'.spec[r] = d
  BY <1>2, <1>4, <1>11
<1>14. req'[r].computed = c
  <2>1. PICK blocks \in Nat : blocks = req[r].blocks + missing
    BY <1>1, <1>2, ReqFacts
  <2>2. req[r] \in ReqRec /\ req'[r] = Holding(req[r], blocks)
    BY <1>1, <1>2, <2>1, ReqFacts
  <2> QED BY <1>5, <2>1, <2>2, HoldingFacts
<1>15. Below(r)'
  <2>1. c + n < max_model_len
    BY <1>2, <1>10
  <2> QED BY <1>13, <1>14, <2>1 DEF Below
<1>16. ASSUME NEW q \in Requests, q # r
       PROVE  step'.n[q] = step.n[q] /\ step'.spec[q] = step.spec[q] /\ req'[q] = req[q]
  BY <1>2, <1>4, <1>16
<1>17. PadsFit'
  BY <1>9, <1>12, <1>13, <1>16 DEF PadInv, PadsFit, DraftsScheduled
<1>18. \A q \in Requests : Below(q)'
  BY <1>15, <1>16 DEF PadInv, Below
<1> QED BY <1>17, <1>18 DEF PadInv

(* Nothing cuts a padded decode short.                                     *)
LEMMA PaddedTokens ==
  ASSUME PadSafe, Types, NEW r \in Requests, NEW hit \in Int, Padded(r, hit), PadFits(hit)
  PROVE  WaitingTokens(r, hit) = 1 + num_spec_tokens
<1> USE Constants
<1>1. /\ num_spec_tokens > 0 /\ ~ enable_decode_aware_prefill
      /\ long_prefill_token_threshold = 0 \/ long_prefill_token_threshold > num_spec_tokens
  BY DEF PadSafe, Padded
<1>2. PICK all \in Int : all = 1 + num_spec_tokens
  OBVIOUS
<1>3. WaitingTokens(r, hit) = Lesser(Truncated(all), step.budget)
  BY <1>1, <1>2 DEF WaitingTokens
<1>4. Truncated(all) = all
  BY <1>1, <1>2 DEF Truncated
<1>5. all <= step.budget /\ step.budget \in Int
  BY <1>2, StepFacts DEF PadFits
<1>6. Lesser(all, step.budget) = all
  BY ONLY <1>2, <1>5 DEF Lesser
<1> QED BY <1>2, <1>3, <1>4, <1>6

(* A waiting request is admitted.                                          *)
LEMMA AdmitPad ==
  ASSUME PadSafe, IInv, DInv, PadInv, NEW hit \in Int, Admit(hit)
  PROVE  PadInv'
<1> USE Constants
<1>0. PICK r, n, missing : AdmitWrites(hit, r, n, missing)
  BY AdmitWritesThat DEF IInv
<1>1. Types /\ StepInv
  BY DEF IInv
<1>2. /\ r = NextWaiting /\ n = WaitingTokens(r, hit) /\ r \in Requests
      /\ req[r].status \in {"WAITING", "PREEMPTED"} /\ missing \in Nat
      /\ step'.n = [step.n EXCEPT ![r] = n]
      /\ step'.spec = [step.spec EXCEPT ![r] = IF Padded(r, hit) THEN num_spec_tokens ELSE 0]
      /\ req'[r] = Running(req[r], hit, req[r].blocks + missing)
      /\ \A q \in Requests : q # r => req'[q] = req[q]
  BY <1>0 DEF AdmitWrites
<1>3. hit \in PrefixHits(r) /\ Admissible(r, hit) /\ step.budget > 0
  BY <1>2 DEF Admit, InWaitingLoop
<1>4. step.n \in [Requests -> Int] /\ step.spec \in [Requests -> Int]
  BY <1>1, StepFacts
<1>5. PICK t \in Int, limit \in Nat :
        /\ t = req[r].tokens /\ limit = Limit(r) /\ t < limit /\ limit <= max_model_len
        /\ limit <= num_prompt_tokens[r] + max_tokens
  <2>1. req[r].tokens \in Int /\ Limit(r) \in Nat
    BY <1>1, <1>2, ReqFacts, LimitFacts
  <2>2. PICK x \in BOOLEAN : Tracked(r, req[r], x, batches, worker[r])
    <3>1. \/ Tracked(r, req[r], TRUE, batches, worker[r])
          \/ Tracked(r, req[r], FALSE, batches, worker[r])
      BY <1>2 DEF DInv, Fine
    <3> QED BY <3>1
  <2>3. req[r].tokens < Limit(r)
    BY <1>2, <2>2 DEF Tracked, LiveStatus, Counted
  <2>4. Limit(r) <= max_model_len /\ Limit(r) <= num_prompt_tokens[r] + max_tokens
    BY <1>2, LimitFacts
  <2> QED BY ONLY <2>1, <2>3, <2>4, Zenon
<1>6. 0 <= hit /\ hit < t
  BY <1>2, <1>3, <1>5 DEF PrefixHits
<1>7. /\ n \in Int /\ n >= 1
      /\ n <= IF Padded(r, hit) THEN 1 + num_spec_tokens ELSE t - hit
  <2>1. enable_decode_aware_prefill => RemainingPrefill > 0
    BY <1>3 DEF Admissible
  <2> QED BY <1>1, <1>2, <1>3, <1>5, <1>6, <2>1, WaitingTokensBound
<1>8. PICK d \in Int : d = IF Padded(r, hit) THEN num_spec_tokens ELSE 0
  OBVIOUS
<1>9. step'.n[r] = n /\ step'.spec[r] = d
  BY <1>2, <1>4, <1>8
<1>10. (d > 0 => n >= 1 + d) /\ hit + n < max_model_len
  <2>1. CASE Padded(r, hit)
    <3>1. n = 1 + num_spec_tokens
      BY <1>1, <1>2, <1>3, <2>1, PaddedTokens DEF Admissible
    <3>2. t - hit = 1
      BY <1>5, <2>1 DEF Padded
    <3>3. num_prompt_tokens[r] + max_tokens + num_spec_tokens <= max_model_len
      BY <1>2, <2>1 DEF PadSafe, Padded
    <3>4. PICK prompt \in Nat : prompt = num_prompt_tokens[r]
      BY <1>2
    <3>5. hit + n < max_model_len
      BY <1>5, <3>1, <3>2, <3>3, <3>4
    <3> QED BY <1>8, <2>1, <3>1, <3>5
  <2>2. CASE ~ Padded(r, hit)
    <3>1. n <= t - hit
      BY <1>7, <2>2
    <3> QED BY <1>5, <1>7, <1>8, <2>2, <3>1
  <2> QED BY <2>1, <2>2
<1>11. req'[r].computed = hit
  <2>1. PICK blocks \in Nat : blocks = req[r].blocks + missing
    BY <1>1, <1>2, ReqFacts
  <2>2. req[r] \in ReqRec /\ req'[r] = Running(req[r], hit, blocks) /\ hit \in Int
    BY <1>1, <1>2, <2>1, ReqFacts
  <2> QED BY ONLY <2>1, <2>2, RunningFacts
<1>12. Below(r)'
  BY <1>9, <1>10, <1>11 DEF Below
<1>13. ASSUME NEW q \in Requests, q # r
       PROVE  step'.n[q] = step.n[q] /\ step'.spec[q] = step.spec[q] /\ req'[q] = req[q]
  BY <1>2, <1>4, <1>13
<1>14. PadsFit'
  <2>1. n >= 0
    BY <1>7
  <2> QED BY <1>9, <1>10, <1>13, <2>1 DEF PadInv, PadsFit, DraftsScheduled
<1>15. \A q \in Requests : Below(q)'
  BY <1>12, <1>13 DEF PadInv, Below
<1> QED BY <1>14, <1>15 DEF PadInv

(* The output of a batch: rejected drafts only lower what is computed.     *)
LEMMA OutputPad ==
  ASSUME IInv, IInv', DInv, PadInv, NEW acc \in [Requests -> 0 .. num_spec_tokens],
         NEW eos \in SUBSET Requests, NEW absent \in SUBSET Requests,
         UpdateFromOutput(acc, eos, absent)
  PROVE  PadInv'
<1>1. /\ pc = "idle" /\ batches # <<>> /\ step' = step
      /\ req' = [r \in Requests |->
                   Processed(r, Head(batches), acc[r], r \in eos, r \in absent)]
      /\ \A r \in Requests :
           acc[r] <= IF r \in Head(batches).samples THEN Head(batches).spec[r] ELSE 0
  BY DEF UpdateFromOutput
<1>2. Types /\ Types' /\ batches \in Seq(BatchRec) /\ step.resumed = {}
  BY <1>1 DEF IInv, DInv, Types
<1>3. PICK b \in BatchRec : b = Head(batches)
  <2>1. Head(batches) \in BatchRec
    BY <1>1, <1>2
  <2> QED BY ONLY <2>1, Zenon
<1>4. ASSUME NEW r \in Requests, req'[r].status = "RUNNING"
      PROVE  req[r].status = "RUNNING" /\ req'[r].computed <= req[r].computed
  <2>1. PICK a \in Nat, e \in BOOLEAN, m \in BOOLEAN :
          a = acc[r] /\ e = (r \in eos) /\ m = (r \in absent)
    <3>1. acc[r] \in Nat
      BY Constants
    <3>2. (r \in eos) \in BOOLEAN /\ (r \in absent) \in BOOLEAN
      OBVIOUS
    <3> QED BY ONLY <3>1, <3>2, Zenon
  <2>2. PICK p : p = Processed(r, b, a, e, m) /\ req'[r] = p
    BY <1>1, <1>3, <2>1, Zenon
  <2>3. PICK c \in Int : c = req[r].computed
    BY <1>2, ReqFacts
  <2>4. CASE b.n[r] = 0 \/ ~ Live(r)
    <3>1. p = req[r]
      BY <2>2, <2>4 DEF Processed
    <3>2. c <= c
      OBVIOUS
    <3> QED BY <1>4, <2>2, <2>3, <3>1, <3>2
  <2>5. CASE b.n[r] # 0 /\ Live(r)
    <3>1. PICK g \in Nat, rejected \in Int :
            /\ g = (IF r \in b.samples THEN 1 + a ELSE 0)
            /\ rejected = (IF r \in b.samples THEN b.spec[r] - a ELSE 0)
      <4>1. /\ (IF r \in b.samples THEN 1 + a ELSE 0) \in Nat
            /\ (IF r \in b.samples THEN b.spec[r] - a ELSE 0) \in Int
        BY DEF BatchRec
      <4> QED BY ONLY <4>1, Zenon
    <3>2. rejected >= 0
      <4>1. a <= (IF r \in b.samples THEN b.spec[r] ELSE 0) /\ b.spec[r] \in Int
        BY <1>1, <1>3, <2>1 DEF BatchRec
      <4> QED BY <3>1, <4>1
    <3>3. Counted(r, req[r], FALSE)
      <4>1. Tracked(r, req[r], FALSE, batches, worker[r])
        BY <1>2 DEF DInv, Fine
      <4> QED BY <2>5, <4>1 DEF Tracked, Live, LiveStatus
    <3>4. /\ req[r].tokens < Limit(r)
          /\ req[r].status = "RUNNING" /\ req[r].stale > 0 => req[r].drop
      BY <3>3 DEF Counted
    <3>5. \/ p = Fresh("FINISHED")
          \/ req[r].stale > 0 /\ Shifted(req[r], p, b.n[r]) /\ p.tokens < Limit(r)
          \/ ~ (req[r].stale > 0) /\ Delivered(req[r], p, g, rejected) /\ p.tokens < Limit(r)
      <4>1. Types /\ r \in Requests
        BY <1>2
      <4> QED BY ONLY <1>3, <2>1, <2>2, <2>5, <3>1, <3>4, <4>1, ProcessedOutput
    <3>6. p # Fresh("FINISHED")
      <4>1. Fresh("FINISHED").status = "FINISHED"
        BY DEF Fresh
      <4> QED BY <1>4, <2>2, <4>1
    <3>7. p.status = req[r].status /\ (p.computed = c \/ p.computed = c - rejected)
      BY <2>3, <3>5, <3>6 DEF Shifted, Delivered
    <3>8. c <= c /\ c - rejected <= c
      BY <3>2
    <3> QED BY <1>4, <2>2, <2>3, <3>7, <3>8
  <2> QED BY <2>4, <2>5
<1> QED BY <1>1, <1>2, <1>4, PadFrame

(* The other steps give nothing out, and move no running request forward.  *)
LEMMA OtherPad ==
  ASSUME IInv, IInv', DInv, PadInv,
         \/ RunningSkip \/ RunningPreempt \/ RunningDone \/ WaitingSkip
         \/ \E hit : WaitingDone(hit)
         \/ \E r \in Requests : AddRequest(r) \/ AbortRequest(r)
         \/ \E s \in PauseStates : SetPauseState(s)
         \/ ResetPrefixCache \/ UNCHANGED vars
  PROVE  PadInv'
<1>1. Types /\ Types' /\ req \in [Requests -> ReqRec] /\ step \in StepRec /\ step' \in StepRec
  BY DEF IInv, Types
<1>2. step'.n = step.n /\ step'.spec = step.spec
  <2>1. \/ step' = step
        \/ step' = [step EXCEPT !.index = @ + 1]
        \/ step' = [step EXCEPT !.preempted = TRUE]
        \/ step' = [step EXCEPT !.skipped = Append(@, NextWaiting)]
        \/ step' = [step EXCEPT !.skipped = <<>>]
    BY DEF RunningSkip, RunningPreempt, RunningDone, WaitingSkip, WaitingDone, AddRequest,
           AbortRequest, SetPauseState, ResetPrefixCache, vars
  <2> QED BY ONLY <1>1, <2>1 DEF StepRec
<1>3. \A q \in ReqRec, drop \in BOOLEAN : Preempted(q, drop).status = "PREEMPTED"
  BY PreemptedFacts
<1>4. Fresh("FINISHED").status = "FINISHED"
  BY DEF Fresh
<1>5. ASSUME NEW r \in Requests, req'[r].status = "RUNNING"
      PROVE  req'[r] = req[r]
  <2>1. CASE UNCHANGED req
    BY <2>1
  <2>2. CASE RunningPreempt
    <3>1. req' = [req EXCEPT ![Victim] = Preempted(@, FALSE)]
      BY <2>2 DEF RunningPreempt
    <3>2. CASE r = Victim
      <4>1. req'[r] = Preempted(req[r], FALSE)
        BY <1>1, <3>1, <3>2
      <4> QED BY <1>1, <1>3, <1>5, <4>1
    <3>3. CASE r # Victim
      BY <1>1, <3>1, <3>3
    <3> QED BY <3>2, <3>3
  <2>3. ASSUME NEW q \in Requests, AddRequest(q) PROVE req'[r] = req[r]
    <3>1. req' = [req EXCEPT ![q] = [Fresh("WAITING") EXCEPT !.tokens = num_prompt_tokens[q]]]
      BY <2>3 DEF AddRequest
    <3>2. [Fresh("WAITING") EXCEPT !.tokens = num_prompt_tokens[q]].status = "WAITING"
      BY DEF Fresh
    <3> QED BY <1>1, <1>5, <3>1, <3>2
  <2>4. ASSUME NEW q \in Requests, AbortRequest(q) PROVE req'[r] = req[r]
    <3>1. req' = [req EXCEPT ![q] = Fresh("FINISHED")]
      BY <2>4 DEF AbortRequest
    <3> QED BY <1>1, <1>4, <1>5, <3>1
  <2>5. CASE ResetPrefixCache
    <3>1. req' = [q \in Requests |-> IF q \in ToSet(running) THEN Preempted(req[q], TRUE)
                                     ELSE req[q]]
      BY <2>5 DEF ResetPrefixCache
    <3>2. req'[r] = IF r \in ToSet(running) THEN Preempted(req[r], TRUE) ELSE req[r]
      BY <3>1
    <3> QED BY <1>1, <1>3, <1>5, <3>2
  <2>6. CASE \/ RunningSkip \/ RunningDone \/ WaitingSkip \/ \E hit : WaitingDone(hit)
             \/ \E s \in PauseStates : SetPauseState(s)
             \/ UNCHANGED vars
    BY <2>1, <2>6 DEF RunningSkip, RunningDone, WaitingSkip, WaitingDone, SetPauseState, vars
  <2> QED BY <2>2, <2>3, <2>4, <2>5, <2>6
<1>6. ASSUME NEW r \in Requests, req'[r].status = "RUNNING"
      PROVE  req[r].status = "RUNNING" /\ req'[r].computed <= req[r].computed
  <2>1. PICK c \in Int : c = req[r].computed
    BY <1>1, ReqFacts
  <2>2. c <= c
    OBVIOUS
  <2> QED BY <1>5, <1>6, <2>1, <2>2
<1> QED BY <1>1, <1>2, <1>6, PadFrame

(* Every step preserves PadInv, where PadSafe holds.                       *)
LEMMA PadNext ==
  ASSUME PadSafe, IInv, IInv', DInv, PadInv, [Next]_vars
  PROVE  PadInv'
<1>1. CASE StartSchedule
  BY <1>1, StartPad
<1>2. CASE RunningSchedule
  BY <1>2, RunningPad
<1>3. ASSUME NEW hit \in 0 .. max_model_len, Admit(hit) PROVE PadInv'
  <2>1. hit \in Int
    BY Constants
  <2> QED BY <1>3, <2>1, AdmitPad
<1>4. CASE FinishSchedule
  BY <1>4, FinishPad
<1>5. ASSUME NEW acc \in [Requests -> 0 .. num_spec_tokens],
             NEW eos \in SUBSET Requests, NEW absent \in SUBSET Requests,
             UpdateFromOutput(acc, eos, absent)
      PROVE  PadInv'
  BY <1>5, OutputPad
<1>6. CASE \/ RunningSkip \/ RunningPreempt \/ RunningDone \/ WaitingSkip
           \/ \E hit : WaitingDone(hit)
           \/ \E r \in Requests : AddRequest(r) \/ AbortRequest(r)
           \/ \E s \in PauseStates : SetPauseState(s)
           \/ ResetPrefixCache \/ UNCHANGED vars
  BY <1>6, OtherPad
<1>7. CASE Schedule
  BY <1>1, <1>2, <1>3, <1>4, <1>6, <1>7 DEF Schedule
<1>8. CASE Output
  BY <1>5, <1>8 DEF Output
<1> QED BY <1>6, <1>7, <1>8 DEF Next

(* Where PadSafe holds, so does the whole invariant.                       *)
LEMMA PadSafeInv ==
  ASSUME PadSafe
  PROVE  Spec => [](IInv /\ DInv /\ PadInv)
<1> DEFINE All == IInv /\ DInv /\ PadInv
<1>1. Init => All
  BY InitInv, DecodeInit, PadInit
<1>2. All /\ [Next]_vars => All'
  <2> SUFFICES ASSUME All, [Next]_vars PROVE All'
    OBVIOUS
  <2>1. IInv'
    BY NextInv
  <2>2. PadInv'
    BY <2>1, PadNext
  <2>3. DInv'
    BY <2>1, <2>2, DecodeNext DEF PadInv
  <2> QED BY <2>1, <2>2, <2>3
<1> HIDE DEF All
<1>3. Spec => []All
  BY <1>1, <1>2, PTL DEF Spec
<1> QED BY <1>3 DEF All

(* In such a configuration schedule() never cuts a padded decode short     *)
(* ("Prefer to not schedule than schedule un-padded here"), and the        *)
(* "assert num_tokens_scheduled > 0" of update_from_output() never sees a  *)
(* negative share.                                                         *)
THEOREM PadTheorem ==
  ASSUME PadSafe
  PROVE  Spec => [](DraftsScheduled /\ ScheduledPositive)
<1>1. Spec => [](IInv /\ DInv /\ PadInv)
  BY PadSafeInv
<1>2. IInv /\ DInv /\ PadInv => DraftsScheduled /\ ScheduledPositive
  BY DEF DInv, BatchesOK, BatchOK, PadInv, PadsFit, ScheduledPositive
<1> QED BY <1>1, <1>2, PTL

(* There the counters of every request stay within their bounds, and the   *)
(* KV of every decoding request is short of exactly its last token, in     *)
(* every behaviour of the scheduler.                                       *)
THEOREM PadSafeTheorem ==
  ASSUME PadSafe
  PROVE  Spec => [](TypeOK /\ DecodeAccounting)
<1>1. Spec => [](IInv /\ DInv /\ PadInv)
  BY PadSafeInv
<1>2. PadInv => PadsFit
  BY DEF PadInv
<1> QED BY <1>1, <1>2, TypeTheorem, DecodeTheorem, PTL

(* And with at most two batches in flight every delivered output starts    *)
(* right after the tokens its request has.                                 *)
THEOREM PadSafeContiguous ==
  ASSUME PadSafe, MaxInFlight <= 2
  PROVE  Spec => []OutputContiguous
<1>1. Spec => [](IInv /\ DInv /\ PadInv)
  BY PadSafeInv
<1>2. PadInv => PadsFit
  BY DEF PadInv
<1>3. Spec /\ []PadsFit => []OutputContiguous
  BY ContiguousTheorem
<1> QED BY <1>1, <1>2, <1>3, PTL
==============================================================================
