--------------------------- MODULE DraftRingProofs ---------------------------
(***************************************************************************)
(* Proofs about DraftRing, for any requests, prompts, window, number of    *)
(* rows, block size and draft depth.                                       *)
(***************************************************************************)
EXTENDS DraftRing, LibraryLemmas

TokenRec ==
  [req : Requests \cup {NoRequest}, pos : 0 .. MaxTokens + num_speculative_steps,
   accepted : BOOLEAN]

Types ==
  /\ ring \in [Rows -> [Slots -> TokenRec]]
  /\ attn_mask \in [Rows -> 0 .. window] /\ steady \in BOOLEAN
  /\ row \in [Requests -> Rows \cup {NoRow}]
  /\ computed \in [Requests -> Nat] /\ tokens \in [Requests -> Nat]
  /\ \A r \in Requests : computed[r] < tokens[r]
  /\ decoding \subseteq Resident
  /\ excess \in [Requests -> 0 .. num_speculative_steps]

(* No two residents share a row.                                           *)
RowsInv == \A q, r \in Resident : row[q] = row[r] => q = r

(* What the row of a resident holds: all of its window once it decodes;    *)
(* before that, what lies beyond the longest prefix hit it may have had.   *)
WindowInv ==
  \A r \in Resident : \A p \in Nat :
    /\ computed[r] - window <= p /\ p < computed[r]
    /\ r \in decoding \/ p >= tokens[r] - 1 - window
    => ring[row[r]][p % window] = Token(r, p)

(* The mask of a request that decodes ends where its tokens end, and the   *)
(* host knows the length of a request that does not decode yet.            *)
MaskInv ==
  /\ \A r \in decoding : attn_mask[row[r]] <= computed[r]
  /\ \A r \in Requests \ decoding : excess[r] = 0

IInv == Types /\ RowsInv /\ WindowInv /\ MaskInv

-----------------------------------------------------------------------------
(* The constants as the provers need them.                                 *)
LEMMA Constants ==
  /\ window \in Nat \ {0} /\ block_size \in Nat \ {0} /\ MaxTokens \in Nat
  /\ num_speculative_steps \in Nat /\ num_query_per_req \in Nat /\ MaxChunk \in Nat
  /\ \A r \in Requests : num_prompt_tokens[r] \in Nat \ {0}
  /\ NoRow \notin Rows /\ num_prompt_tokens \in [Requests -> Nat]
BY RingAssumption DEF NoRow, Rows

(* A slot number is a slot.                                                *)
LEMMA SlotFacts ==
  ASSUME NEW p \in Nat
  PROVE  p % window \in Slots
BY Constants, DivMod DEF Slots

(* ring_ingest: the last window positions of the chunk are in their slots, *)
(* and nothing that the new window still needs is overwritten.             *)
LEMMA IngestFacts ==
  ASSUME NEW content \in [Slots -> TokenRec], NEW r \in Requests, NEW start \in Nat,
         NEW n \in Nat, NEW rej \in Nat, rej < n,
         start + n - rej - 1 <= MaxTokens + num_speculative_steps
  PROVE  /\ ring_ingest(content, r, start, n, rej) \in [Slots -> TokenRec]
         /\ \A p \in Nat, s \in Slots :
              s = p % window /\ p > start + n - rej - 1 - window /\ p <= start + n - rej - 1
              => ring_ingest(content, r, start, n, rej)[s]
                   = IF start <= p THEN Token(r, p) ELSE content[s]
<1> DEFINE top == start + n - rej - 1
           kept == {p \in start .. top : p > top - window}
           new == ring_ingest(content, r, start, n, rej)
<1> USE Constants
<1>1. top \in Nat /\ top >= start
  OBVIOUS
<1>2. \A p \in kept : p \in Nat /\ start <= p /\ p <= top /\ p > top - window
  BY <1>1
<1>3. new = [s \in Slots |->
               IF \E p \in kept : p % window = s
               THEN Token(r, CHOOSE p \in kept : p % window = s)
               ELSE content[s]]
  BY DEF ring_ingest
<1>4. ASSUME NEW p \in kept, NEW q \in kept, p % window = q % window PROVE p = q
  <2>1. p \in Nat /\ q \in Nat /\ q < p + window /\ p < q + window
    BY <1>1, <1>2
  <2>2. ~ (p < q)
    BY <1>4, <2>1, ModDistinct
  <2>3. ~ (q < p)
    BY <1>4, <2>1, ModDistinct
  <2> QED BY <2>1, <2>2, <2>3
<1>5. \A p \in kept : Token(r, p) \in TokenRec
  BY <1>1, <1>2 DEF Token, TokenRec
<1> HIDE DEF kept, new
<1>6. ASSUME NEW s \in Slots, NEW p \in kept, p % window = s
      PROVE  new[s] = Token(r, p)
  <2>1. (CHOOSE q \in kept : q % window = s) = p
    BY <1>4, <1>6
  <2> QED BY <1>3, <1>6, <2>1
<1>7. ASSUME NEW s \in Slots, ~ \E p \in kept : p % window = s
      PROVE  new[s] = content[s]
  BY <1>3, <1>7
<1>8. new \in [Slots -> TokenRec]
  <2>1. \A s \in Slots : new[s] \in TokenRec
    BY <1>5, <1>6, <1>7
  <2>2. new = [s \in Slots |-> new[s]]
    BY <1>3
  <2> QED BY <2>1, <2>2
<1>9. ASSUME NEW p \in Nat, NEW s \in Slots, s = p % window, p > top - window, p <= top
      PROVE  new[s] = IF start <= p THEN Token(r, p) ELSE content[s]
  <2>1. CASE start <= p
    <3>1. p \in kept
      BY <1>1, <1>9, <2>1 DEF kept
    <3> QED BY <1>6, <1>9, <2>1, <3>1
  <2>2. CASE p < start
    <3>1. ASSUME NEW q \in kept PROVE q % window # s
      <4>1. q \in Nat /\ p < q /\ q < p + window
        BY <1>1, <1>2, <1>9, <2>2
      <4> QED BY <1>9, <4>1, ModDistinct
    <3>2. new[s] = content[s]
      BY <1>7, <3>1
    <3>3. ~ (start <= p)
      BY <2>2
    <3> QED BY <3>2, <3>3
  <2> QED BY <2>1, <2>2
<1> QED BY <1>8, <1>9 DEF new

(* What a step may compute of a request.                                   *)
LEMMA WorkFacts ==
  ASSUME Types, NEW r \in Requests, tokens[r] < MaxTokens, NEW w \in Work(r)
  PROVE  /\ w[1] \in Nat /\ w[2] \in 0 .. num_speculative_steps /\ w[2] < w[1]
         /\ r \notin decoding => w[2] = 0 /\ computed[r] + w[1] <= tokens[r]
         /\ computed[r] + w[1] <= MaxTokens + num_speculative_steps
<1>1. tokens[r] \in Nat /\ computed[r] \in Nat /\ computed[r] < tokens[r]
  BY DEF Types
<1> QED BY <1>1, Constants DEF Work

-----------------------------------------------------------------------------
(* Init satisfies the invariant.                                           *)
LEMMA InitInv == Init => IInv
<1> SUFFICES ASSUME Init PROVE IInv
  OBVIOUS
<1> USE Constants
<1>1. Resident = {} /\ decoding = {}
  BY DEF Init, Resident
<1>2. Unwritten \in TokenRec
  BY DEF Unwritten, TokenRec
<1>3. Types
  <2>1. ring \in [Rows -> [Slots -> TokenRec]] /\ attn_mask \in [Rows -> 0 .. window]
    BY <1>2 DEF Init
  <2>2. \A r \in Requests : computed[r] < tokens[r]
    BY DEF Init
  <2>3. /\ row \in [Requests -> Rows \cup {NoRow}] /\ computed \in [Requests -> Nat]
        /\ excess \in [Requests -> 0 .. num_speculative_steps]
    BY DEF Init
  <2>4. tokens \in [Requests -> Nat] /\ steady \in BOOLEAN
    BY DEF Init
  <2> QED BY <1>1, <2>1, <2>2, <2>3, <2>4 DEF Types
<1>4. RowsInv /\ WindowInv /\ MaskInv
  BY <1>1 DEF Init, RowsInv, WindowInv, MaskInv
<1> QED BY <1>3, <1>4 DEF IInv

(* A request becomes resident: its prefix hit leaves the window to be      *)
(* computed again.                                                         *)
LEMMA AdmitStep ==
  ASSUME IInv, NEW r \in Requests, NEW w \in Rows, NEW hit \in CacheHits(r),
         Admit(r, w, hit)
  PROVE  IInv'
<1> USE Constants
<1>1. tokens[r] \in Nat /\ tokens[r] >= 1
  BY DEF IInv, Types
<1>2. hit \in Nat /\ (hit = 0 \/ hit <= tokens[r] - 1 - window)
  <2>1. max_cache_hit_length(r)
          = IF 0 >= tokens[r] - 1 - window THEN 0 ELSE tokens[r] - 1 - window
    BY <1>1, MaxPair DEF max_cache_hit_length, ring_cache_trim
  <2> QED BY <1>1, <2>1 DEF CacheHits
<1>3. /\ row' = [row EXCEPT ![r] = w] /\ computed' = [computed EXCEPT ![r] = hit]
      /\ excess' = [excess EXCEPT ![r] = 0] /\ row[r] = NoRow
      /\ \A q \in Resident : row[q] # w
      /\ UNCHANGED <<ring, attn_mask, steady, tokens, decoding>>
  BY DEF Admit
<1>4. /\ Resident' = Resident \cup {r} /\ r \notin Resident /\ r \notin decoding
      /\ row'[r] = w /\ computed'[r] = hit
      /\ \A q \in Resident : row'[q] = row[q] /\ computed'[q] = computed[q]
  BY <1>3 DEF Resident, IInv, Types
<1>5. Types'
  BY <1>1, <1>2, <1>3, <1>4 DEF IInv, Types
<1>6. RowsInv'
  BY <1>3, <1>4 DEF IInv, RowsInv
<1>7. WindowInv'
  <2> SUFFICES ASSUME NEW q \in Resident', NEW p \in Nat,
                      computed'[q] - window <= p, p < computed'[q],
                      q \in decoding' \/ p >= tokens'[q] - 1 - window
               PROVE  ring'[row'[q]][p % window] = Token(q, p)
    BY DEF WindowInv
  <2>1. CASE q = r
    BY <1>1, <1>2, <1>3, <1>4, <2>1
  <2>2. CASE q # r
    BY <1>3, <1>4, <2>2 DEF IInv, WindowInv
  <2> QED BY <2>1, <2>2
<1>8. MaskInv'
  BY <1>3, <1>4 DEF IInv, Types, MaskInv
<1> QED BY <1>5, <1>6, <1>7, <1>8 DEF IInv

(* A request is preempted or finishes; its row may be handed on.           *)
LEMMA LeaveStep ==
  ASSUME IInv, NEW r \in Requests, Leave(r)
  PROVE  IInv'
<1> USE Constants
<1>1. /\ row' = [row EXCEPT ![r] = NoRow] /\ computed' = [computed EXCEPT ![r] = 0]
      /\ excess' = [excess EXCEPT ![r] = 0] /\ decoding' = decoding \ {r}
      /\ UNCHANGED <<ring, attn_mask, steady, tokens>>
  BY DEF Leave
<1>2. /\ Resident' = Resident \ {r}
      /\ \A q \in Resident' : row'[q] = row[q] /\ computed'[q] = computed[q]
  BY <1>1 DEF Resident, IInv, Types
<1>3. Types'
  <2>1. \A q \in Requests : computed'[q] < tokens'[q]
    BY <1>1 DEF IInv, Types
  <2> QED BY <1>1, <1>2, <2>1 DEF IInv, Types
<1>4. RowsInv'
  BY <1>1, <1>2 DEF IInv, RowsInv
<1>5. WindowInv'
  BY <1>1, <1>2 DEF IInv, WindowInv
<1>6. MaskInv'
  BY <1>1, <1>2, <1>3 DEF IInv, Types, MaskInv
<1> QED BY <1>3, <1>4, <1>5, <1>6 DEF IInv

-----------------------------------------------------------------------------
(* What propose() does to one request of the batch, and to the others.     *)
LEMMA ProposeFacts ==
  ASSUME IInv, NEW order, NEW work, NEW late, Propose(order, work, late),
         ToSet(order) \subseteq Resident,
         \A r \in ToSet(order) : tokens[r] < MaxTokens /\ work[r] \in Work(r)
  PROVE  \A r \in Resident :
           IF r \in ToSet(order)
           THEN LET n == work[r][1]
                    rej == work[r][2]
                IN  /\ ring'[row[r]] = ring_ingest(ring[row[r]], r, computed[r], n, rej)
                    /\ attn_mask'[row[r]] \in {attn_mask[row[r]],
                                               Min({computed[r] + n - rej, window})}
                    /\ computed'[r] = computed[r] + n - rej
                    /\ tokens'[r] = Max({tokens[r], computed[r] + n - rej + 1})
                    /\ r \in decoding' <=> r \in decoding \/ computed[r] + n >= tokens[r]
                    /\ excess'[r] = rej
           ELSE /\ ring'[row[r]] = ring[row[r]]
                /\ attn_mask'[row[r]] = attn_mask[row[r]]
                /\ computed'[r] = computed[r] /\ tokens'[r] = tokens[r]
                /\ r \in decoding' <=> r \in decoding
                /\ excess'[r] = excess[r]
<1> DEFINE reqs == ToSet(order)
           active == {row[r] : r \in reqs}
           rowReq(w) == CHOOSE r \in reqs : row[r] = w
<1>1. \A r \in Resident : r \in Requests /\ row[r] \in Rows
  BY DEF Resident, IInv, Types
<1>2. ASSUME NEW r \in Resident
      PROVE  /\ r \in reqs => row[r] \in active /\ rowReq(row[r]) = r
             /\ r \notin reqs => row[r] \notin active
  BY DEF IInv, RowsInv
<1> HIDE DEF active, rowReq
<1>3. ring' = [w \in Rows |->
        IF w \in active
        THEN ring_ingest(ring[w], rowReq(w), computed[rowReq(w)],
                         work[rowReq(w)][1], work[rowReq(w)][2])
        ELSE ring[w]]
  BY DEF Propose, active, rowReq
<1>4. \/ attn_mask' = attn_mask
      \/ attn_mask' = [w \in Rows |->
           IF w \in active
           THEN valid(rowReq(w), work[rowReq(w)][1], work[rowReq(w)][2])
           ELSE attn_mask[w]]
  BY DEF Propose, active, rowReq
<1>5. /\ computed' = [r \in Requests |->
           IF r \in reqs THEN computed[r] + work[r][1] - work[r][2] ELSE computed[r]]
      /\ tokens' = [r \in Requests |->
           IF r \in reqs THEN Max({tokens[r], computed[r] + work[r][1] - work[r][2] + 1})
           ELSE tokens[r]]
      /\ decoding' = decoding \cup {r \in reqs : computed[r] + work[r][1] >= tokens[r]}
      /\ excess' = [r \in Requests |-> IF r \in reqs THEN work[r][2] ELSE excess[r]]
  BY DEF Propose
<1> HIDE DEF reqs
<1>6. ASSUME NEW r \in Resident, r \in reqs
      PROVE  /\ ring'[row[r]] = ring_ingest(ring[row[r]], r, computed[r],
                                            work[r][1], work[r][2])
             /\ attn_mask'[row[r]] \in {attn_mask[row[r]],
                  Min({computed[r] + work[r][1] - work[r][2], window})}
  BY <1>1, <1>2, <1>3, <1>4, <1>6 DEF valid
<1>7. ASSUME NEW r \in Resident, r \notin reqs
      PROVE  /\ ring'[row[r]] = ring[row[r]]
             /\ attn_mask'[row[r]] = attn_mask[row[r]]
  BY <1>1, <1>2, <1>3, <1>4, <1>7
<1> QED BY <1>1, <1>5, <1>6, <1>7 DEF reqs

(* When the mask is kept, every request of the batch is past the window by *)
(* the host's count.                                                       *)
LEMMA KeptMask ==
  ASSUME IInv, NEW order, NEW work, NEW late, Propose(order, work, late),
         ToSet(order) \subseteq Resident,
         \A r \in ToSet(order) : tokens[r] < MaxTokens /\ work[r] \in Work(r),
         NEW q \in ToSet(order)
  PROVE  \/ attn_mask'[row[q]] = Min({computed[q] + work[q][1] - work[q][2], window})
         \/ /\ attn_mask'[row[q]] = attn_mask[row[q]]
            /\ computed[q] + work[q][1] + excess[q] > window
<1> USE Constants
<1> DEFINE reqs == ToSet(order)
           bounds == {seq_lens_cpu_upper_bound(r, work[r][1], late) : r \in reqs}
           active == {row[r] : r \in reqs}
           rowReq(w) == CHOOSE r \in reqs : row[r] = w
<1>1. /\ row[q] \in Rows /\ row[q] \in active
      /\ rowReq(row[q]) = q
  BY DEF Resident, IInv, Types, RowsInv
<1>2. CASE steady /\ is_deep(bounds)
  <2>1. ASSUME NEW r \in reqs
        PROVE  seq_lens_cpu_upper_bound(r, work[r][1], late) \in Nat
    <3>1. r \in Requests
      BY DEF Resident
    <3>2. computed[r] \in Nat /\ work[r][1] \in Nat /\ excess[r] \in Nat
      BY <3>1, WorkFacts DEF IInv, Types
    <3> QED BY <3>2 DEF seq_lens_cpu_upper_bound
  <2>2. bounds \subseteq Nat /\ bounds # {}
    BY <2>1
  <2>3. Min(bounds) \in Nat
        /\ Min(bounds) <= seq_lens_cpu_upper_bound(q, work[q][1], late)
    BY <2>2, MinNat
  <2>4. computed[q] \in Nat /\ work[q][1] \in Nat /\ excess[q] \in Nat
    BY WorkFacts DEF IInv, Types, Resident
  <2>5. seq_lens_cpu_upper_bound(q, work[q][1], late) <= computed[q] + work[q][1] + excess[q]
        /\ seq_lens_cpu_upper_bound(q, work[q][1], late) \in Nat
    BY <2>4 DEF seq_lens_cpu_upper_bound
  <2>6. Min(bounds) > window + num_query_per_req
    BY <1>2 DEF is_deep
  <2>7. attn_mask' = attn_mask
    BY <1>2 DEF Propose
  <2> HIDE DEF bounds
  <2> QED BY <2>3, <2>4, <2>5, <2>6, <2>7
<1>3. CASE ~ (steady /\ is_deep(bounds))
  <2>1. attn_mask' = [w \in Rows |->
               IF w \in active
               THEN valid(rowReq(w), work[rowReq(w)][1], work[rowReq(w)][2])
               ELSE attn_mask[w]]
    BY <1>3 DEF Propose
  <2> HIDE DEF active, rowReq
  <2> QED BY <1>1, <2>1 DEF valid
<1> QED BY <1>2, <1>3

(* propose() keeps the types.                                              *)
LEMMA ProposeTypes ==
  ASSUME IInv, NEW order, NEW work, NEW late, Propose(order, work, late),
         ToSet(order) \subseteq Resident,
         \A r \in ToSet(order) : tokens[r] < MaxTokens /\ work[r] \in Work(r)
  PROVE  Types'
<1> USE Constants
<1> DEFINE reqs == ToSet(order)
<1>1. \A r \in reqs : r \in Requests /\ row[r] \in Rows
  BY DEF Resident, IInv, Types
<1>2. ASSUME NEW r \in reqs
      PROVE  /\ work[r][1] \in Nat /\ work[r][2] \in 0 .. num_speculative_steps
             /\ work[r][2] < work[r][1] /\ computed[r] \in Nat /\ tokens[r] \in Nat
             /\ computed[r] + work[r][1] <= MaxTokens + num_speculative_steps
  BY <1>1, WorkFacts DEF IInv, Types
<1>3. ring' \in [Rows -> [Slots -> TokenRec]]
  <2> DEFINE rowReq(w) == CHOOSE r \in reqs : row[r] = w
             active == {row[r] : r \in reqs}
  <2>1. ring' = [w \in Rows |->
          IF w \in active
          THEN ring_ingest(ring[w], rowReq(w), computed[rowReq(w)],
                           work[rowReq(w)][1], work[rowReq(w)][2])
          ELSE ring[w]]
    BY DEF Propose
  <2>2. \A w \in active : rowReq(w) \in reqs
    OBVIOUS
  <2> HIDE DEF rowReq, active, reqs
  <2>3. ASSUME NEW w \in Rows, w \in active
        PROVE  ring_ingest(ring[w], rowReq(w), computed[rowReq(w)],
                           work[rowReq(w)][1], work[rowReq(w)][2]) \in [Slots -> TokenRec]
    <3>1. rowReq(w) \in reqs /\ ring[w] \in [Slots -> TokenRec]
      BY <2>2, <2>3 DEF IInv, Types
    <3>2. PICK r \in reqs : r = rowReq(w)
      BY <3>1
    <3>3. work[r][2] \in Nat
          /\ computed[r] + work[r][1] - work[r][2] - 1 <= MaxTokens + num_speculative_steps
      BY <1>2
    <3> QED BY <1>1, <1>2, <3>1, <3>2, <3>3, IngestFacts
  <2>4. \A w \in Rows : ring[w] \in [Slots -> TokenRec]
    BY DEF IInv, Types
  <2> QED BY <2>1, <2>3, <2>4
<1>4. attn_mask' \in [Rows -> 0 .. window] /\ steady' \in BOOLEAN
  <2> DEFINE rowReq(w) == CHOOSE r \in reqs : row[r] = w
             active == {row[r] : r \in reqs}
  <2>1. \/ attn_mask' = attn_mask
        \/ attn_mask' = [w \in Rows |->
             IF w \in active
             THEN valid(rowReq(w), work[rowReq(w)][1], work[rowReq(w)][2])
             ELSE attn_mask[w]]
    BY DEF Propose
  <2>2. \A w \in active : rowReq(w) \in reqs
    OBVIOUS
  <2> HIDE DEF rowReq, active, reqs
  <2>3. ASSUME NEW r \in reqs PROVE valid(r, work[r][1], work[r][2]) \in 0 .. window
    BY <1>2, MinPair DEF valid
  <2>4. attn_mask' \in [Rows -> 0 .. window]
    BY <2>1, <2>2, <2>3 DEF IInv, Types
  <2>5. steady' \in BOOLEAN
    <3> DEFINE bounds == {seq_lens_cpu_upper_bound(r, work[r][1], late) : r \in reqs}
    <3>1. steady' = steady \/ steady' = is_deep(bounds)
      BY DEF Propose, reqs
    <3>2. is_deep(bounds) \in BOOLEAN
      BY DEF is_deep
    <3> HIDE DEF bounds
    <3> QED BY <3>1, <3>2 DEF IInv, Types
  <2> QED BY <2>4, <2>5
<1>5. /\ computed' = [r \in Requests |->
           IF r \in reqs THEN computed[r] + work[r][1] - work[r][2] ELSE computed[r]]
      /\ tokens' = [r \in Requests |->
           IF r \in reqs THEN Max({tokens[r], computed[r] + work[r][1] - work[r][2] + 1})
           ELSE tokens[r]]
      /\ decoding' = decoding \cup {r \in reqs : computed[r] + work[r][1] >= tokens[r]}
      /\ excess' = [r \in Requests |-> IF r \in reqs THEN work[r][2] ELSE excess[r]]
      /\ row' = row
  BY DEF Propose
<1> HIDE DEF reqs
<1>6. ASSUME NEW r \in reqs
      PROVE  /\ computed[r] + work[r][1] - work[r][2] \in Nat
             /\ Max({tokens[r], computed[r] + work[r][1] - work[r][2] + 1}) \in Nat
             /\ computed[r] + work[r][1] - work[r][2]
                  < Max({tokens[r], computed[r] + work[r][1] - work[r][2] + 1})
  BY <1>2, MaxPair
<1>7. computed' \in [Requests -> Nat] /\ tokens' \in [Requests -> Nat]
      /\ \A r \in Requests : computed'[r] < tokens'[r]
  BY <1>5, <1>6 DEF IInv, Types
<1>8. excess' \in [Requests -> 0 .. num_speculative_steps]
  BY <1>2, <1>5 DEF IInv, Types
<1>9. decoding' \subseteq Resident'
  BY <1>5 DEF IInv, Types, Resident, reqs
<1> QED BY <1>3, <1>4, <1>5, <1>7, <1>8, <1>9 DEF IInv, Types

(* propose() keeps the windows in the rows: what is new is written, what   *)
(* is old and still needed is not overwritten.                             *)
LEMMA ProposeWindow ==
  ASSUME IInv, NEW order, NEW work, NEW late, Propose(order, work, late),
         ToSet(order) \subseteq Resident,
         \A r \in ToSet(order) : tokens[r] < MaxTokens /\ work[r] \in Work(r)
  PROVE  WindowInv'
<1> USE Constants
<1>1. row' = row /\ Resident' = Resident
  BY DEF Propose, Resident
<1> SUFFICES ASSUME NEW r \in Resident, NEW p \in Nat,
                    computed'[r] - window <= p, p < computed'[r],
                    r \in decoding' \/ p >= tokens'[r] - 1 - window
             PROVE  ring'[row[r]][p % window] = Token(r, p)
  BY <1>1 DEF WindowInv
<1>2. CASE r \notin ToSet(order)
  <2>1. /\ ring'[row[r]] = ring[row[r]] /\ computed'[r] = computed[r]
        /\ tokens'[r] = tokens[r] /\ (r \in decoding' <=> r \in decoding)
    BY <1>2, ProposeFacts
  <2>2. /\ computed[r] - window <= p /\ p < computed[r]
        /\ r \in decoding \/ p >= tokens[r] - 1 - window
    BY <2>1
  <2> QED BY <2>1, <2>2 DEF IInv, WindowInv
<1>3. CASE r \in ToSet(order)
  <2> DEFINE n == work[r][1]
             rej == work[r][2]
  <2>1. /\ r \in Requests /\ row[r] \in Rows /\ computed[r] \in Nat /\ tokens[r] \in Nat
        /\ computed[r] < tokens[r] /\ ring[row[r]] \in [Slots -> TokenRec]
    BY DEF Resident, IInv, Types
  <2>2. /\ n \in Nat /\ rej \in Nat /\ rej < n
        /\ r \notin decoding => rej = 0 /\ computed[r] + n <= tokens[r]
        /\ computed[r] + n <= MaxTokens + num_speculative_steps
    BY <1>3, <2>1, WorkFacts DEF IInv
  <2>3. /\ ring'[row[r]] = ring_ingest(ring[row[r]], r, computed[r], n, rej)
        /\ computed'[r] = computed[r] + n - rej
        /\ tokens'[r] = Max({tokens[r], computed[r] + n - rej + 1})
        /\ r \in decoding' <=> r \in decoding \/ computed[r] + n >= tokens[r]
    BY <1>3, ProposeFacts
  <2> HIDE DEF n, rej
  <2>4. tokens'[r] \in Nat /\ tokens'[r] >= tokens[r] /\ computed'[r] + 1 <= tokens'[r]
        /\ (computed'[r] >= tokens[r] => tokens'[r] = computed'[r] + 1)
    BY <2>1, <2>2, <2>3, MaxPair
  <2>5. computed[r] + n - rej - 1 <= MaxTokens + num_speculative_steps
    BY <2>1, <2>2
  <2>6. /\ computed[r] <= p /\ p <= computed[r] + n - rej - 1
             /\ p > computed[r] + n - rej - 1 - window
           => ring'[row[r]][p % window] = Token(r, p)
        /\ p < computed[r] /\ p > computed[r] + n - rej - 1 - window
           => ring'[row[r]][p % window] = ring[row[r]][p % window]
    <3> DEFINE old == ring[row[r]]
    <3>1. old \in [Slots -> TokenRec]
      BY <2>1
    <3>2. PICK start \in Nat : start = computed[r]
      BY <2>1
    <3> HIDE DEF old
    <3> DEFINE new == ring_ingest(old, r, start, n, rej)
    <3>3. start + n - rej - 1 <= MaxTokens + num_speculative_steps
      BY <2>5, <3>2
    <3>4. /\ start <= p /\ p <= start + n - rej - 1 /\ p > start + n - rej - 1 - window
             => new[p % window] = Token(r, p)
          /\ p < start /\ p > start + n - rej - 1 - window
             => new[p % window] = old[p % window]
      <4>1. PICK s \in Slots : s = p % window
        BY SlotFacts
      <4>2. p < start => p <= start + n - rej - 1
        BY <2>2
      <4>3. p > start + n - rej - 1 - window /\ p <= start + n - rej - 1
            => new[s] = IF start <= p THEN Token(r, p) ELSE old[s]
        <5>1. /\ old \in [Slots -> TokenRec] /\ r \in Requests /\ start \in Nat
              /\ n \in Nat /\ rej \in Nat /\ rej < n
              /\ start + n - rej - 1 <= MaxTokens + num_speculative_steps
          BY <2>1, <2>2, <3>1, <3>3
        <5>2. \A q \in Nat, z \in Slots :
                z = q % window /\ q > start + n - rej - 1 - window /\ q <= start + n - rej - 1
                => new[z] = IF start <= q THEN Token(r, q) ELSE old[z]
          BY ONLY <5>1, IngestFacts
        <5> HIDE DEF new
        <5>3. p \in Nat /\ s \in Slots /\ s = p % window
          BY <4>1
        <5> QED BY ONLY <5>2, <5>3, Zenon
      <4> HIDE DEF new
      <4> QED BY <4>1, <4>2, <4>3
    <3>5. new = ring'[row[r]]
      BY <2>3, <3>2 DEF old
    <3> HIDE DEF new
    <3> QED BY <3>2, <3>4, <3>5 DEF old
  <2>7. p > computed[r] + n - rej - 1 - window /\ p <= computed[r] + n - rej - 1
    BY <2>1, <2>2, <2>3
  <2>8. CASE computed[r] <= p
    BY <2>6, <2>7, <2>8
  <2>9. CASE p < computed[r]
    <3>1. computed[r] - window <= p
      BY <2>1, <2>2, <2>7
    <3>2. r \in decoding \/ p >= tokens[r] - 1 - window
      <4>1. CASE r \notin decoding /\ r \in decoding'
        BY <2>1, <2>2, <2>3, <2>4, <4>1
      <4>2. CASE r \notin decoding /\ p >= tokens'[r] - 1 - window
        BY <2>1, <2>4, <4>2
      <4> QED BY <4>1, <4>2
    <3>3. ring[row[r]][p % window] = Token(r, p)
      BY <2>9, <3>1, <3>2 DEF IInv, WindowInv
    <3> QED BY <2>6, <2>7, <2>9, <3>3
  <2> QED BY <2>1, <2>8, <2>9
<1> QED BY <1>2, <1>3

(* propose() keeps the masks behind the tokens.                            *)
LEMMA ProposeMask ==
  ASSUME IInv, NEW order, NEW work, NEW late, Propose(order, work, late),
         ToSet(order) \subseteq Resident,
         \A r \in ToSet(order) : tokens[r] < MaxTokens /\ work[r] \in Work(r)
  PROVE  MaskInv'
<1> USE Constants
<1>1. row' = row /\ decoding' \subseteq Resident /\ decoding \subseteq decoding'
  BY DEF Propose, IInv, Types
<1>2. ASSUME NEW r \in decoding' PROVE attn_mask'[row[r]] <= computed'[r]
  <2>1. r \in Resident /\ r \in Requests
    BY <1>1 DEF Resident
  <2>2. CASE r \notin ToSet(order)
    BY <1>2, <2>1, <2>2, ProposeFacts DEF IInv, MaskInv
  <2>3. CASE r \in ToSet(order)
    <3> DEFINE n == work[r][1]
               rej == work[r][2]
    <3>1. /\ computed[r] \in Nat /\ attn_mask[row[r]] \in 0 .. window
          /\ excess[r] \in Nat
      BY <2>1 DEF Resident, IInv, Types
    <3>2. /\ n \in Nat /\ rej \in Nat /\ rej < n
          /\ r \notin decoding => rej = 0
      BY <2>1, <2>3, WorkFacts DEF IInv
    <3>3. computed'[r] = computed[r] + n - rej
      BY <2>1, <2>3, ProposeFacts
    <3>4. \/ attn_mask'[row[r]] = Min({computed[r] + n - rej, window})
          \/ attn_mask'[row[r]] = attn_mask[row[r]]
             /\ computed[r] + n + excess[r] > window
      BY <2>3, KeptMask
    <3> HIDE DEF n, rej
    <3>5. CASE attn_mask'[row[r]] = Min({computed[r] + n - rej, window})
      BY <3>1, <3>2, <3>3, <3>5, MinPair
    <3>6. CASE attn_mask'[row[r]] = attn_mask[row[r]]
               /\ computed[r] + n + excess[r] > window
      <4>1. CASE r \in decoding
        <5>1. attn_mask[row[r]] <= computed[r]
          BY <4>1 DEF IInv, MaskInv
        <5> QED BY <3>1, <3>2, <3>3, <3>6, <5>1
      <4>2. CASE r \notin decoding
        <5>1. excess[r] = 0
          BY <2>1, <4>2 DEF IInv, MaskInv
        <5> QED BY <3>1, <3>2, <3>3, <3>6, <4>2, <5>1
      <4> QED BY <4>1, <4>2
    <3> QED BY <3>4, <3>5, <3>6
  <2> QED BY <2>2, <2>3
<1>3. ASSUME NEW r \in Requests, r \notin decoding' PROVE excess'[r] = 0
  <2>1. r \notin decoding /\ excess[r] = 0
    BY <1>1, <1>3 DEF IInv, MaskInv
  <2>2. r \in ToSet(order) => work[r][2] = 0
    BY <2>1, WorkFacts DEF IInv
  <2>3. excess' = [q \in Requests |-> IF q \in ToSet(order) THEN work[q][2] ELSE excess[q]]
    BY DEF Propose
  <2> QED BY <2>1, <2>2, <2>3
<1> QED BY <1>1, <1>2, <1>3 DEF MaskInv

(* Every step of Next keeps the invariant.                                 *)
LEMMA NextInv == IInv /\ [Next]_vars => IInv'
<1> SUFFICES ASSUME IInv, [Next]_vars PROVE IInv'
  OBVIOUS
<1>1. ASSUME NEW r \in Requests, NEW w \in Rows, NEW hit \in CacheHits(r),
             Admit(r, w, hit)
      PROVE  IInv'
  BY <1>1, AdmitStep
<1>2. ASSUME NEW r \in Requests, Preempt(r) \/ Finish(r) PROVE IInv'
  BY <1>2, LeaveStep DEF Preempt, Finish
<1>3. CASE Step
  <2>1. PICK reqs \in SUBSET {r \in Resident : tokens[r] < MaxTokens} :
          \E order \in SetToSeqs(reqs), late \in SUBSET {r \in reqs : excess[r] > 0},
             work \in {f \in [reqs -> UNION {Work(r) : r \in reqs}] :
                         \A r \in reqs : f[r] \in Work(r)} :
            Propose(order, work, late)
    BY <1>3 DEF Step
  <2>2. PICK order \in SetToSeqs(reqs), late \in SUBSET {r \in reqs : excess[r] > 0},
             work \in {f \in [reqs -> UNION {Work(r) : r \in reqs}] :
                         \A r \in reqs : f[r] \in Work(r)} :
          Propose(order, work, late)
    BY <2>1
  <2>3. ToSet(order) \subseteq reqs
    BY DEF SetToSeqs, ToSet
  <2>4. /\ ToSet(order) \subseteq Resident
        /\ \A r \in ToSet(order) : tokens[r] < MaxTokens /\ work[r] \in Work(r)
    BY <2>3
  <2>5. Types' /\ WindowInv' /\ MaskInv'
    BY <2>2, <2>4, ProposeTypes, ProposeWindow, ProposeMask
  <2>6. RowsInv'
    BY <2>2 DEF Propose, IInv, RowsInv, Resident
  <2> QED BY <2>5, <2>6 DEF IInv
<1>4. CASE UNCHANGED vars
  BY <1>4 DEF vars, IInv, Types, RowsInv, WindowInv, MaskInv, Resident
<1> QED BY <1>1, <1>2, <1>3, <1>4 DEF Next

-----------------------------------------------------------------------------
(* The worker's state stays in range: positions, masks and the drafts the  *)
(* host may still count.                                                   *)
THEOREM RingTypes == Spec => []TypeOK
<1>1. IInv => TypeOK
  <2> SUFFICES ASSUME IInv PROVE TypeOK
    OBVIOUS
  <2>1. ASSUME NEW w \in Rows, NEW s \in Slots
        PROVE  /\ ring[w][s].req \in Requests \cup {NoRequest}
               /\ ring[w][s].pos \in 0 .. MaxTokens + num_speculative_steps
    <3>1. ring[w][s] \in TokenRec
      BY DEF IInv, Types
    <3> QED BY <3>1 DEF TokenRec
  <2>2. \A r \in Requests : computed[r] <= tokens[r]
    BY DEF IInv, Types
  <2> QED BY <2>1, <2>2 DEF IInv, Types, TypeOK
<1> QED BY <1>1, InitInv, NextInv, PTL DEF Spec

(* The row of a request that samples holds its own last window accepted    *)
(* tokens, each at its slot: ring_ingest and the cut of the prefix hits    *)
(* together.                                                               *)
THEOREM RingTheorem == Spec => []RingHoldsWindow
<1>1. IInv => RingHoldsWindow
  <2> SUFFICES ASSUME IInv, NEW r \in decoding, NEW p \in WindowOf(r)
               PROVE  ring[row[r]][p % window] = Token(r, p)
    BY DEF RingHoldsWindow
  <2>1. r \in Resident /\ computed[r] \in Nat
    BY DEF IInv, Types, Resident
  <2>2. p \in Nat /\ computed[r] - window <= p /\ p < computed[r]
    BY <2>1, Constants, MaxPair DEF WindowOf
  <2> QED BY <2>1, <2>2 DEF IInv, WindowInv
<1> QED BY <1>1, InitInv, NextInv, PTL DEF Spec

(* The mask that propose() leaves in a request's row, rebuilt or kept,     *)
(* shows no slot that the request has not filled.                          *)
THEOREM MaskTheorem == Spec => []RowMaskHidesUnwritten
<1>1. IInv => RowMaskHidesUnwritten
  <2> SUFFICES ASSUME IInv, NEW r \in decoding, NEW s \in Slots, s < attn_mask[row[r]]
               PROVE  OwnWindow(r, ring[row[r]][s])
    BY DEF RowMaskHidesUnwritten
  <2>1. /\ r \in Resident /\ computed[r] \in Nat
        /\ attn_mask[row[r]] \in 0 .. window /\ attn_mask[row[r]] <= computed[r]
    BY DEF IInv, Types, Resident, MaskInv
  <2>2. s \in 0 .. window - 1 /\ s < computed[r]
    BY <2>1, Constants DEF Slots
  <2>3. PICK p \in Nat : computed[r] - window <= p /\ p < computed[r] /\ p % window = s
    BY <2>1, <2>2, Constants, ModWitness
  <2>4. ring[row[r]][s] = Token(r, p)
    BY <2>1, <2>3 DEF IInv, WindowInv
  <2>5. p \in WindowOf(r)
    BY <2>1, <2>3, Constants, MaxPair DEF WindowOf
  <2> QED BY <2>4, <2>5 DEF OwnWindow, Token
<1> QED BY <1>1, InitInv, NextInv, PTL DEF Spec
=============================================================================
