-------------------------- MODULE DeferredFreeProofs --------------------------
(***************************************************************************)
(* Proofs about DeferredFree, for any requests, blocks and numbers of      *)
(* steps in flight.                                                        *)
(***************************************************************************)
EXTENDS DeferredFree, SequenceTheorems, TLAPS

(* What the step numbers say about each other.                             *)
NumberInv ==
  /\ \A r \in Requests : last_sched_seq[r] <= sched_step_seq
  /\ \A i \in DOMAIN flight :
       /\ processed_step_seq < flight[i].seq
       /\ flight[i].seq <= sched_step_seq + 1
       /\ flight[i].full => flight[i].seq <= sched_step_seq
  /\ \A i, j \in DOMAIN flight :
       i < j /\ flight[i].full => flight[i].seq < flight[j].seq

(* A block that a step touches is held by a request scheduled in or after  *)
(* that step, or waits behind a fence that is not earlier than the step.   *)
Covered(b, n) ==
  \/ \E r \in Requests : b \in table[r] /\ n <= last_sched_seq[r]
  \/ \E j \in DOMAIN deferred : b \in deferred[j].blocks /\ n <= deferred[j].fence

CoverInv ==
  \A i \in DOMAIN flight : \A b \in flight[i].touches : Covered(b, flight[i].seq)

IInv == TypeOK /\ NumberInv /\ NoStuckFence /\ CoverInv

-----------------------------------------------------------------------------
(* What a queue of entries and a queue of steps hold.                      *)
LEMMA EntryType ==
  ASSUME NEW s \in Seq(Entry), NEW j \in DOMAIN s
  PROVE  s[j] \in Entry /\ s[j].fence \in Nat /\ s[j].blocks \in SUBSET Blocks
<1>1. s[j] \in Entry
  OBVIOUS
<1> QED BY <1>1 DEF Entry

(* The same for the steps in flight.                                       *)
LEMMA StepType ==
  ASSUME NEW s \in Seq(StepRec), NEW i \in DOMAIN s
  PROVE  /\ s[i] \in StepRec /\ s[i].seq \in Nat /\ s[i].full \in BOOLEAN
         /\ s[i].touches \in SUBSET Blocks
<1>1. s[i] \in StepRec
  OBVIOUS
<1> QED BY <1>1 DEF StepRec

(* The entries left by a drain are entries that were there, the first of   *)
(* them pending, and no pending entry is lost.                             *)
LEMMA DrainFacts ==
  ASSUME deferred \in Seq(Entry), NEW done \in Nat, DrainDeferredFrees(done)
  PROVE  /\ deferred' \in Seq(Entry)
         /\ \A j \in DOMAIN deferred' :
              \E m \in DOMAIN deferred : deferred'[j] = deferred[m]
         /\ deferred' # <<>> => deferred'[1].fence > done
         /\ \A m \in DOMAIN deferred : deferred[m].fence > done
              => \E j \in DOMAIN deferred' : deferred'[j] = deferred[m]
<1>1. PICK k \in 0 .. Len(deferred) :
        /\ \A j \in 1 .. k : Released(deferred[j].fence, done)
        /\ k < Len(deferred) => ~Released(deferred[k + 1].fence, done)
        /\ deferred' = SubSeq(deferred, k + 1, Len(deferred))
  BY DEF DrainDeferredFrees
<1>2. Len(deferred) \in Nat /\ DOMAIN deferred = 1 .. Len(deferred)
  OBVIOUS
<1>3. /\ deferred' \in Seq(Entry)
      /\ Len(deferred') = Len(deferred) - k
      /\ DOMAIN deferred' = 1 .. Len(deferred) - k
      /\ \A j \in 1 .. Len(deferred) - k : deferred'[j] = deferred[j + k]
  <2>1. \A i \in k + 1 .. Len(deferred) : deferred[i] \in Entry
    BY <1>2
  <2>2. /\ deferred' \in Seq(Entry)
        /\ Len(deferred') = IF k + 1 <= Len(deferred) THEN Len(deferred) - k ELSE 0
        /\ \A j \in 1 .. Len(deferred) - k : deferred'[j] = deferred[(k + 1) + j - 1]
    BY <1>1, <1>2, <2>1, SubSeqProperties
  <2>3. DOMAIN deferred' = 1 .. Len(deferred')
    BY <2>2
  <2>4. Len(deferred') = Len(deferred) - k
    <3>1. k \in Nat /\ k <= Len(deferred) /\ Len(deferred) \in Nat
      BY <1>2
    <3>2. CASE k + 1 <= Len(deferred)
      BY <3>1, <3>2, <2>2
    <3>3. CASE ~ (k + 1 <= Len(deferred))
      <4>1. k = Len(deferred)
        BY <3>1, <3>3
      <4> QED BY <3>1, <3>3, <4>1, <2>2
    <3> QED BY <3>2, <3>3
  <2>5. ASSUME NEW j \in 1 .. Len(deferred) - k
        PROVE  deferred'[j] = deferred[j + k]
    <3>1. (k + 1) + j - 1 = j + k
      BY <1>2
    <3> QED BY <2>2, <3>1
  <2> QED BY <2>2, <2>3, <2>4, <2>5
<1>4. \A j \in DOMAIN deferred' :
        \E m \in DOMAIN deferred : deferred'[j] = deferred[m]
  <2> TAKE j \in DOMAIN deferred'
  <2>1. j + k \in DOMAIN deferred /\ deferred'[j] = deferred[j + k]
    BY <1>2, <1>3
  <2> QED BY <2>1
<1>5. deferred' # <<>> => deferred'[1].fence > done
  <2> HAVE deferred' # <<>>
  <2>1. k < Len(deferred)
    BY <1>2, <1>3
  <2>2. deferred'[1] = deferred[k + 1] /\ deferred[k + 1] \in Entry
    BY <1>2, <1>3, <2>1
  <2> QED BY <1>1, <2>1, <2>2 DEF Released, Entry
<1>6. ASSUME NEW m \in DOMAIN deferred, deferred[m].fence > done
      PROVE  \E j \in DOMAIN deferred' : deferred'[j] = deferred[m]
  <2>1. deferred[m] \in Entry
    BY <1>2
  <2>2. ~ (m <= k)
    <3> SUFFICES ASSUME m <= k PROVE FALSE
      OBVIOUS
    <3>1. m \in 1 .. k
      BY <1>2
    <3>2. Released(deferred[m].fence, done)
      BY <1>1, <3>1
    <3> QED BY <3>2, <2>1, <1>6 DEF Released, Entry
  <2>3. m - k \in DOMAIN deferred' /\ deferred'[m - k] = deferred[m]
    BY <1>2, <1>3, <2>2
  <2> QED BY <2>3
<1> QED BY <1>3, <1>4, <1>5, <1>6

(* Dropping a request's table, now or behind a fence, keeps the blocks of  *)
(* every step in flight covered.                                           *)
LEMMA FreeFacts ==
  ASSUME IInv, NEW r \in Requests, FreeRequestBlocks(r)
  PROVE  /\ table' \in [Requests -> SUBSET Blocks]
         /\ table'[r] = {} /\ \A q \in Requests : q # r => table'[q] = table[q]
         /\ deferred' \in Seq(Entry)
         /\ deferred' # <<>> => deferred'[1].fence > processed_step_seq
         /\ \A j \in DOMAIN deferred' : deferred'[j].fence <= sched_step_seq + 1
         /\ \A j \in DOMAIN deferred :
              j \in DOMAIN deferred' /\ deferred'[j] = deferred[j]
         /\ last_sched_seq[r] <= processed_step_seq
            \/ \A b \in table[r] : \E j \in DOMAIN deferred' :
                 b \in deferred'[j].blocks /\ last_sched_seq[r] <= deferred'[j].fence
<1> USE DEF IInv, TypeOK
<1>1. table' \in [Requests -> SUBSET Blocks]
      /\ table'[r] = {} /\ \A q \in Requests : q # r => table'[q] = table[q]
  BY DEF FreeRequestBlocks
<1>2. CASE SafeToFree(r) \/ table[r] = {}
  <2>1. deferred' = deferred
    BY <1>2 DEF FreeRequestBlocks
  <2>2. last_sched_seq[r] <= processed_step_seq \/ table[r] = {}
    BY <1>2 DEF SafeToFree
  <2> QED BY <1>1, <2>1, <2>2 DEF NoStuckFence
<1>3. CASE ~ (SafeToFree(r) \/ table[r] = {})
  <2> DEFINE e == [fence |-> sched_step_seq, blocks |-> table[r]]
  <2>1. deferred' = Append(deferred, e)
    BY <1>3 DEF FreeRequestBlocks, FreeFence
  <2>2. e \in Entry /\ e.fence = sched_step_seq /\ e.blocks = table[r]
    BY DEF Entry
  <2>3. processed_step_seq < sched_step_seq /\ last_sched_seq[r] <= sched_step_seq
    BY <1>3 DEF SafeToFree, NumberInv
  <2> HIDE DEF e
  <2>4. /\ deferred' \in Seq(Entry) /\ Len(deferred) \in Nat
        /\ DOMAIN deferred = 1 .. Len(deferred)
        /\ DOMAIN deferred' = 1 .. Len(deferred) + 1
        /\ \A j \in DOMAIN deferred : deferred'[j] = deferred[j]
        /\ deferred'[Len(deferred) + 1] = e
    BY <2>1, <2>2
  <2>5. deferred' # <<>> => deferred'[1].fence > processed_step_seq
    <3>1. CASE deferred = <<>>
      BY <3>1, <2>2, <2>3, <2>4
    <3>2. CASE deferred # <<>>
      <4>1. 1 \in DOMAIN deferred
        BY <3>2, <2>4
      <4> QED BY <4>1, <3>2, <2>4 DEF NoStuckFence
    <3> QED BY <3>1, <3>2
  <2>6. \A j \in DOMAIN deferred' : deferred'[j].fence <= sched_step_seq + 1
    <3> TAKE j \in DOMAIN deferred'
    <3>1. CASE j \in DOMAIN deferred
      BY <3>1, <2>4 DEF NoStuckFence
    <3>2. CASE j = Len(deferred) + 1
      BY <3>2, <2>2, <2>4
    <3> QED BY <3>1, <3>2, <2>4
  <2>7. \A b \in table[r] : \E j \in DOMAIN deferred' :
          b \in deferred'[j].blocks /\ last_sched_seq[r] <= deferred'[j].fence
    <3>1. Len(deferred) + 1 \in DOMAIN deferred'
      BY <2>4
    <3> QED BY <2>2, <2>3, <2>4, <3>1
  <2> QED BY <1>1, <2>4, <2>5, <2>6, <2>7
<1> QED BY <1>2, <1>3

-----------------------------------------------------------------------------
(* The invariant holds when the scheduler is built.                        *)
LEMMA InitInv == Init => IInv
BY DEF Init, IInv, TypeOK, NumberInv, NoStuckFence, CoverInv, Entry, StepRec

(* A step that drops the table of r and leaves counters and steps alone,   *)
(* except that a finished request's own number may be reset.               *)
LEMMA FreeStep ==
  ASSUME IInv, NEW r \in Requests, FreeRequestBlocks(r),
         UNCHANGED <<sched_step_seq, processed_step_seq, flight, cow, passes>>,
         chosen' \in SUBSET Requests,
         phase' \in {"idle", "running", "waiting", "preempted"},
         last_sched_seq' \in [Requests -> Nat],
         last_sched_seq'[r] <= last_sched_seq[r],
         \A q \in Requests : q # r => last_sched_seq'[q] = last_sched_seq[q]
  PROVE  IInv'
<1> USE DEF IInv, TypeOK
<1>1. TypeOK' /\ NoStuckFence'
  BY FreeFacts DEF NoStuckFence
<1>2. NumberInv'
  <2>1. \A q \in Requests : last_sched_seq'[q] <= sched_step_seq
    <3> TAKE q \in Requests
    <3>1. /\ last_sched_seq[q] \in Nat /\ last_sched_seq'[q] \in Nat
          /\ sched_step_seq \in Nat
      OBVIOUS
    <3>2. last_sched_seq[q] <= sched_step_seq
      BY DEF NumberInv
    <3>3. last_sched_seq'[q] <= last_sched_seq[q]
      <4>1. CASE q = r
        BY <4>1
      <4>2. CASE q # r
        <5>1. last_sched_seq'[q] = last_sched_seq[q]
          BY <4>2
        <5> QED BY <3>1, <5>1
      <4> QED BY <4>1, <4>2
    <3> QED BY <3>1, <3>2, <3>3
  <2> QED BY <2>1 DEF NumberInv
<1>3. ASSUME NEW i \in DOMAIN flight, NEW b \in flight[i].touches
      PROVE  Covered(b, flight[i].seq)'
  <2> DEFINE n == flight[i].seq
  <2>1. Covered(b, n) /\ processed_step_seq < n /\ n \in Nat
    BY <1>3, StepType DEF CoverInv, NumberInv
  <2>2. CASE \E q \in Requests : b \in table[q] /\ n <= last_sched_seq[q]
    <3>1. PICK q \in Requests : b \in table[q] /\ n <= last_sched_seq[q]
      BY <2>2
    <3>2. CASE q # r
      <4>1. b \in table'[q] /\ n <= last_sched_seq'[q]
        BY <3>1, <3>2, FreeFacts
      <4> QED BY <4>1 DEF Covered
    <3>3. CASE q = r
      <4>1. ~ (last_sched_seq[r] <= processed_step_seq)
        BY <2>1, <3>1, <3>3
      <4>2. PICK j \in DOMAIN deferred' :
              b \in deferred'[j].blocks /\ last_sched_seq[r] <= deferred'[j].fence
        BY <3>1, <3>3, <4>1, FreeFacts
      <4>3. deferred'[j].fence \in Nat
        BY <1>1, <4>2, EntryType
      <4>4. n <= deferred'[j].fence
        BY <2>1, <3>1, <3>3, <4>2, <4>3
      <4> QED BY <4>2, <4>4 DEF Covered
    <3> QED BY <3>2, <3>3
  <2>3. CASE \E j \in DOMAIN deferred :
               b \in deferred[j].blocks /\ n <= deferred[j].fence
    <3>1. PICK j \in DOMAIN deferred :
            b \in deferred[j].blocks /\ n <= deferred[j].fence
      BY <2>3
    <3>2. j \in DOMAIN deferred' /\ deferred'[j] = deferred[j]
      BY FreeFacts
    <3> QED BY <3>1, <3>2 DEF Covered
  <2> QED BY <2>1, <2>2, <2>3 DEF Covered
<1>4. CoverInv'
  BY <1>3 DEF CoverInv
<1> QED BY <1>1, <1>2, <1>4

(* A step that only lets tables grow, within schedule().                   *)
LEMMA GrowStep ==
  ASSUME IInv, table' \in [Requests -> SUBSET Blocks],
         \A q \in Requests : table[q] \subseteq table'[q],
         UNCHANGED <<last_sched_seq, sched_step_seq, processed_step_seq,
                     deferred, flight>>,
         cow' \in SUBSET Blocks, chosen' \in SUBSET Requests, passes' \in Nat,
         phase' \in {"idle", "running", "waiting", "preempted"}
  PROVE  IInv'
<1>1. TypeOK' /\ NoStuckFence' /\ NumberInv'
  BY DEF IInv, TypeOK, NoStuckFence, NumberInv
<1>2. CoverInv'
  BY DEF IInv, CoverInv, Covered
<1> QED BY <1>1, <1>2 DEF IInv

(* The end of a pass: the new step has the next number, its requests are   *)
(* marked with it, and the copies wait behind it.                          *)
LEMMA EndScheduleStep == IInv /\ EndSchedule => IInv'
<1> SUFFICES ASSUME IInv, EndSchedule PROVE IInv'
  OBVIOUS
<1> USE DEF IInv, TypeOK
<1> DEFINE full == chosen # {}
           seq  == IF full THEN sched_step_seq + 1 ELSE sched_step_seq
           e    == [fence |-> sched_step_seq + 1, blocks |-> cow]
           new  == [touches |-> cow \cup UNION {table[r] : r \in chosen},
                    full |-> full, seq |-> sched_step_seq + 1]
<1>1. /\ deferred' = IF cow = {} THEN deferred ELSE Append(deferred, e)
      /\ sched_step_seq' = seq /\ flight' = Append(flight, new)
      /\ last_sched_seq' = [r \in Requests |->
           IF r \in chosen THEN seq ELSE last_sched_seq[r]]
      /\ cow' = {} /\ chosen' = {} /\ phase' = "idle"
      /\ UNCHANGED <<table, processed_step_seq, passes>>
  BY DEF EndSchedule, CowFence
<1>2. /\ e \in Entry /\ e.fence = sched_step_seq + 1 /\ e.blocks = cow
      /\ new \in StepRec /\ new.seq = sched_step_seq + 1 /\ new.full = full
      /\ new.touches = cow \cup UNION {table[r] : r \in chosen}
  BY DEF Entry, StepRec
<1>3. /\ seq \in Nat /\ sched_step_seq <= seq /\ seq <= sched_step_seq + 1
      /\ full => seq = sched_step_seq + 1
      /\ processed_step_seq \in Nat /\ processed_step_seq <= sched_step_seq
  OBVIOUS
<1> HIDE DEF e, new, seq
<1>4. /\ flight' \in Seq(StepRec) /\ Len(flight) \in Nat
      /\ DOMAIN flight = 1 .. Len(flight)
      /\ DOMAIN flight' = 1 .. Len(flight) + 1
      /\ \A i \in DOMAIN flight : flight'[i] = flight[i]
      /\ flight'[Len(flight) + 1] = new
  BY <1>1, <1>2
<1>5. /\ deferred' \in Seq(Entry)
      /\ \A j \in DOMAIN deferred :
           j \in DOMAIN deferred' /\ deferred'[j] = deferred[j]
      /\ \A j \in DOMAIN deferred' :
           (j \in DOMAIN deferred /\ deferred'[j] = deferred[j]) \/ deferred'[j] = e
      /\ cow # {} => \E j \in DOMAIN deferred' : deferred'[j] = e
  <2>1. CASE cow = {}
    BY <2>1, <1>1
  <2>2. CASE cow # {}
    <3>1. /\ deferred' \in Seq(Entry) /\ Len(deferred) \in Nat
          /\ DOMAIN deferred = 1 .. Len(deferred)
          /\ DOMAIN deferred' = 1 .. Len(deferred) + 1
          /\ \A j \in DOMAIN deferred : deferred'[j] = deferred[j]
          /\ deferred'[Len(deferred) + 1] = e
      BY <2>2, <1>1, <1>2
    <3>2. Len(deferred) + 1 \in DOMAIN deferred'
      BY <3>1
    <3>3. \A j \in DOMAIN deferred' : j \in DOMAIN deferred \/ j = Len(deferred) + 1
      BY <3>1
    <3>4. \A j \in DOMAIN deferred : j \in DOMAIN deferred'
      BY <3>1
    <3> QED BY <3>1, <3>2, <3>3, <3>4
  <2> QED BY <2>1, <2>2
<1>6. TypeOK'
  <2>1. last_sched_seq' \in [Requests -> Nat]
    BY <1>1, <1>3
  <2>2. processed_step_seq' \in 0 .. sched_step_seq' /\ sched_step_seq' \in Nat
    BY <1>1, <1>3
  <2> QED BY <1>1, <1>4, <1>5, <2>1, <2>2
<1>7. NoStuckFence'
  <2>1. deferred' # <<>> => deferred'[1].fence > processed_step_seq
    <3> HAVE deferred' # <<>>
    <3>1. 1 \in DOMAIN deferred'
      BY <1>5
    <3>2. CASE 1 \in DOMAIN deferred /\ deferred'[1] = deferred[1]
      BY <3>2 DEF NoStuckFence
    <3>3. CASE deferred'[1] = e
      BY <3>3, <1>2, <1>3
    <3> QED BY <1>5, <3>1, <3>2, <3>3
  <2>2. ASSUME NEW j \in DOMAIN deferred'
        PROVE  deferred'[j].fence <= seq + 1
    <3>1. CASE j \in DOMAIN deferred /\ deferred'[j] = deferred[j]
      <4>1. deferred[j].fence \in Nat /\ deferred[j].fence <= sched_step_seq + 1
        BY <3>1, EntryType DEF NoStuckFence
      <4> QED BY <3>1, <4>1, <1>3
    <3>2. CASE deferred'[j] = e
      BY <3>2, <1>2, <1>3
    <3> QED BY <1>5, <3>1, <3>2
  <2> QED BY <2>1, <2>2, <1>1 DEF NoStuckFence
<1>8. NumberInv'
  <2>1. ASSUME NEW r \in Requests PROVE last_sched_seq'[r] <= sched_step_seq'
    <3>1. last_sched_seq[r] \in Nat /\ last_sched_seq[r] <= sched_step_seq
      BY DEF NumberInv
    <3> QED BY <3>1, <1>1, <1>3
  <2>2. ASSUME NEW i \in DOMAIN flight'
        PROVE  /\ processed_step_seq' < flight'[i].seq
               /\ flight'[i].seq <= sched_step_seq' + 1
               /\ flight'[i].full => flight'[i].seq <= sched_step_seq'
    <3>1. CASE i \in DOMAIN flight
      <4>1. /\ flight[i].seq \in Nat /\ processed_step_seq < flight[i].seq
            /\ flight[i].seq <= sched_step_seq + 1
            /\ flight[i].full => flight[i].seq <= sched_step_seq
        BY <3>1, StepType DEF NumberInv
      <4> QED BY <3>1, <4>1, <1>1, <1>3, <1>4
    <3>2. CASE i = Len(flight) + 1
      <4>1. flight'[i] = new
        BY <3>2, <1>4
      <4>2. new.full => seq = sched_step_seq + 1
        BY <1>2, <1>3
      <4>3. /\ processed_step_seq < sched_step_seq + 1
            /\ sched_step_seq + 1 <= seq + 1
        BY <1>3
      <4>4. new.full => sched_step_seq + 1 <= seq
        BY <4>2, <1>3
      <4> QED BY <4>1, <4>3, <4>4, <1>1, <1>2
    <3> QED BY <3>1, <3>2, <1>4
  <2>3. ASSUME NEW i \in DOMAIN flight', NEW j \in DOMAIN flight',
               i < j, flight'[i].full
        PROVE  flight'[i].seq < flight'[j].seq
    <3>1. i \in DOMAIN flight /\ flight'[i] = flight[i]
      BY <2>3, <1>4
    <3>2. flight[i].seq \in Nat /\ flight[i].seq <= sched_step_seq
      BY <3>1, <2>3, StepType DEF NumberInv
    <3>3. CASE j \in DOMAIN flight
      BY <3>1, <3>3, <2>3, <1>4 DEF NumberInv
    <3>4. CASE j = Len(flight) + 1
      BY <3>1, <3>2, <3>4, <1>2, <1>3, <1>4
    <3> QED BY <3>3, <3>4, <1>4
  <2> QED BY <2>1, <2>2, <2>3 DEF NumberInv
<1>9. CoverInv'
  <2> SUFFICES ASSUME NEW i \in DOMAIN flight', NEW b \in flight'[i].touches
               PROVE  Covered(b, flight[i].seq)'
    BY DEF CoverInv
  <2>1. CASE i \in DOMAIN flight
    <3>1. /\ flight'[i] = flight[i] /\ flight[i].seq \in Nat
          /\ flight[i].seq <= sched_step_seq + 1 /\ Covered(b, flight[i].seq)
      <4>1. flight'[i] = flight[i] /\ b \in flight[i].touches
        BY <2>1, <1>4
      <4> QED BY <4>1, <2>1, StepType DEF CoverInv, NumberInv
    <3>2. CASE \E r \in Requests : b \in table[r] /\ flight[i].seq <= last_sched_seq[r]
      <4>1. PICK r \in Requests : b \in table[r] /\ flight[i].seq <= last_sched_seq[r]
        BY <3>2
      <4>2. flight[i].seq <= last_sched_seq'[r]
        BY <4>1, <3>1, <1>1, <1>3
      <4> QED BY <4>1, <4>2, <3>1, <1>1 DEF Covered
    <3>3. CASE \E j \in DOMAIN deferred :
                 b \in deferred[j].blocks /\ flight[i].seq <= deferred[j].fence
      BY <3>3, <3>1, <1>5 DEF Covered
    <3> QED BY <3>1, <3>2, <3>3 DEF Covered
  <2>2. CASE i = Len(flight) + 1
    <3>1. flight'[i] = new
      BY <2>2, <1>4
    <3>2. CASE b \in cow
      <4>1. PICK j \in DOMAIN deferred' : deferred'[j] = e
        BY <3>2, <1>5
      <4> QED BY <4>1, <3>1, <3>2, <1>2, <1>3 DEF Covered
    <3>3. CASE b \in UNION {table[r] : r \in chosen}
      <4>1. PICK r \in chosen : b \in table[r]
        BY <3>3
      <4>2. last_sched_seq'[r] = sched_step_seq + 1
        BY <4>1, <1>1, <1>3
      <4> QED BY <4>1, <4>2, <3>1, <1>1, <1>2, <1>3 DEF Covered
    <3> QED BY <3>1, <3>2, <3>3, <1>2
  <2> QED BY <2>1, <2>2, <1>4
<1> QED BY <1>6, <1>7, <1>8, <1>9

(* update_from_output: the steps left are later than what is now counted   *)
(* as processed, so what they need is behind fences that stay.             *)
LEMMA UpdateStep == IInv /\ UpdateFromOutput => IInv'
<1> SUFFICES ASSUME IInv, UpdateFromOutput PROVE IInv'
  OBVIOUS
<1> USE DEF IInv, TypeOK
<1>1. /\ flight # <<>> /\ flight' = Tail(flight)
      /\ UNCHANGED <<table, last_sched_seq, sched_step_seq, cow, chosen, phase,
                     passes>>
  BY DEF UpdateFromOutput
<1>2. /\ flight' \in Seq(StepRec) /\ Len(flight) \in Nat /\ 1 \in DOMAIN flight
      /\ DOMAIN flight = 1 .. Len(flight)
      /\ DOMAIN flight' = 1 .. Len(flight) - 1
      /\ \A i \in DOMAIN flight' : i + 1 \in DOMAIN flight /\ flight'[i] = flight[i + 1]
  <2>1. /\ flight' \in Seq(StepRec) /\ Len(flight') = Len(flight) - 1
        /\ \A i \in 1 .. Len(flight') : flight'[i] = flight[i + 1]
    BY <1>1, HeadTailProperties
  <2>2. Len(flight) \in Nat /\ DOMAIN flight = 1 .. Len(flight)
        /\ DOMAIN flight' = 1 .. Len(flight')
    BY <2>1
  <2>3. 1 \in DOMAIN flight
    BY <1>1, <2>2
  <2>4. \A i \in DOMAIN flight' : i + 1 \in DOMAIN flight
    BY <2>1, <2>2
  <2> QED BY <2>1, <2>2, <2>3, <2>4
<1>3. ASSUME NEW i \in DOMAIN flight'
      PROVE  /\ flight'[i].seq \in Nat /\ processed_step_seq < flight'[i].seq
             /\ flight'[i].seq <= sched_step_seq + 1
             /\ flight'[i].full => flight'[i].seq <= sched_step_seq
             /\ flight[1].full => processed_step_seq + 1 < flight'[i].seq
             /\ \A b \in flight'[i].touches : Covered(b, flight'[i].seq)
  <2>1. i + 1 \in DOMAIN flight /\ flight'[i] = flight[i + 1] /\ 1 < i + 1
        /\ i \in Nat
    BY <1>2
  <2>2. flight[i + 1].seq \in Nat /\ flight[1].seq \in Nat
    BY <2>1, <1>2, StepType
  <2>3. /\ processed_step_seq < flight[1].seq
        /\ flight[1].full => flight[1].seq < flight[i + 1].seq
    BY <2>1, <1>2 DEF NumberInv
  <2>4. /\ processed_step_seq < flight[i + 1].seq
        /\ flight[i + 1].seq <= sched_step_seq + 1
        /\ flight[i + 1].full => flight[i + 1].seq <= sched_step_seq
    BY <2>1 DEF NumberInv
  <2>5. flight[1].full => processed_step_seq + 1 < flight[i + 1].seq
    BY <2>2, <2>3
  <2> QED BY <2>1, <2>2, <2>4, <2>5 DEF CoverInv
<1>4. \A i, j \in DOMAIN flight' :
        i < j /\ flight'[i].full => flight'[i].seq < flight'[j].seq
  <2> TAKE i, j \in DOMAIN flight'
  <2> HAVE i < j /\ flight'[i].full
  <2>1. i + 1 < j + 1
    BY <1>2
  <2> QED BY <2>1, <1>2 DEF NumberInv
<1>5. CASE ~ flight[1].full
  <2>1. UNCHANGED <<processed_step_seq, deferred>>
    BY <1>5 DEF UpdateFromOutput
  <2>2. TypeOK' /\ NoStuckFence' /\ NumberInv'
    BY <1>1, <1>2, <1>3, <1>4, <2>1 DEF NoStuckFence, NumberInv
  <2>3. CoverInv'
    BY <1>1, <1>2, <1>3, <2>1 DEF CoverInv, Covered
  <2> QED BY <2>2, <2>3
<1>6. CASE flight[1].full
  <2> DEFINE done == processed_step_seq + 1
  <2>1. processed_step_seq' = done /\ DrainDeferredFrees(done) /\ done \in Nat
    BY <1>6 DEF UpdateFromOutput
  <2>2. done <= sched_step_seq
    <3>1. flight[1].seq \in Nat /\ flight[1].seq <= sched_step_seq
          /\ processed_step_seq < flight[1].seq
      BY <1>2, <1>6, StepType DEF NumberInv
    <3> QED BY <3>1
  <2> HIDE DEF done
  <2>3. /\ deferred' \in Seq(Entry)
        /\ \A j \in DOMAIN deferred' :
             \E m \in DOMAIN deferred : deferred'[j] = deferred[m]
        /\ deferred' # <<>> => deferred'[1].fence > done
        /\ \A m \in DOMAIN deferred : deferred[m].fence > done
             => \E j \in DOMAIN deferred' : deferred'[j] = deferred[m]
    BY <2>1, DrainFacts
  <2>4. TypeOK'
    BY <1>1, <1>2, <2>1, <2>2, <2>3
  <2>5. NoStuckFence'
    BY <1>1, <2>1, <2>3 DEF NoStuckFence
  <2>6. NumberInv'
    BY <1>1, <1>3, <1>4, <1>6, <2>1 DEF NumberInv, done
  <2>7. ASSUME NEW i \in DOMAIN flight', NEW b \in flight'[i].touches
        PROVE  Covered(b, flight[i].seq)'
    <3> DEFINE n == flight'[i].seq
    <3>1. n \in Nat /\ done < n /\ Covered(b, n)
      BY <1>3, <1>6 DEF done
    <3>2. CASE \E r \in Requests : b \in table[r] /\ n <= last_sched_seq[r]
      BY <3>2, <1>1 DEF Covered
    <3>3. CASE \E m \in DOMAIN deferred :
                 b \in deferred[m].blocks /\ n <= deferred[m].fence
      <4>1. PICK m \in DOMAIN deferred :
              b \in deferred[m].blocks /\ n <= deferred[m].fence
        BY <3>3
      <4>2. deferred[m].fence \in Nat
        BY EntryType
      <4>3. deferred[m].fence > done
        BY <3>1, <4>1, <4>2, <2>1
      <4>4. PICK j \in DOMAIN deferred' : deferred'[j] = deferred[m]
        BY <4>3, <2>3
      <4> QED BY <4>1, <4>4 DEF Covered
    <3> QED BY <3>1, <3>2, <3>3 DEF Covered
  <2>8. CoverInv'
    BY <2>7 DEF CoverInv
  <2> QED BY <2>4, <2>5, <2>6, <2>8
<1> QED BY <1>5, <1>6

(* Every step of schedule(), of its passes and of update_from_output keeps *)
(* the invariant.                                                          *)
LEMMA NextInv == IInv /\ [Next]_vars => IInv'
<1> SUFFICES ASSUME IInv, [Next]_vars PROVE IInv'
  OBVIOUS
<1>1. CASE BeginSchedule
  <2>1. passes' \in Nat
    BY <1>1 DEF BeginSchedule, IInv, TypeOK
  <2> QED BY <1>1, <2>1, GrowStep DEF BeginSchedule, IInv, TypeOK
<1>2. CASE EndSchedule
  BY <1>2, EndScheduleStep
<1>3. CASE UpdateFromOutput
  BY <1>3, UpdateStep
<1>4. ASSUME NEW r \in Requests, NEW new \in Sets(MaxAlloc), ScheduleRunning(r, new)
      PROVE  IInv'
  <2>1. new \in SUBSET Blocks
    BY DEF Sets
  <2>2. /\ table' \in [Requests -> SUBSET Blocks]
        /\ \A q \in Requests : table[q] \subseteq table'[q]
        /\ chosen' \in SUBSET Requests
    BY <1>4, <2>1 DEF ScheduleRunning, IInv, TypeOK
  <2> QED BY <1>4, <2>2, GrowStep DEF ScheduleRunning, IInv, TypeOK
<1>5. ASSUME NEW r \in Requests, NEW new \in Sets(MaxAlloc),
             NEW hit \in Sets(MaxAlloc), NEW src \in Sets(1), NEW load \in BOOLEAN,
             ScheduleWaiting(r, new, hit, src, load)
      PROVE  IInv'
  <2>1. new \in SUBSET Blocks /\ hit \in SUBSET Blocks /\ src \in SUBSET Blocks
    BY DEF Sets
  <2>2. /\ table' \in [Requests -> SUBSET Blocks]
        /\ \A q \in Requests : table[q] \subseteq table'[q]
    BY <1>5, <2>1 DEF ScheduleWaiting, IInv, TypeOK
  <2>3. cow' \in SUBSET Blocks /\ chosen' \in SUBSET Requests /\ phase' = "waiting"
        /\ UNCHANGED <<last_sched_seq, sched_step_seq, processed_step_seq, deferred,
                       flight, passes>>
    BY <1>5, <2>1 DEF ScheduleWaiting, IInv, TypeOK
  <2> QED BY <2>2, <2>3, GrowStep DEF IInv, TypeOK
<1>6. ASSUME NEW r \in Requests, Preempt(r) PROVE IInv'
  BY <1>6, FreeStep DEF Preempt, IInv, TypeOK
<1>7. ASSUME NEW r \in Requests, FinishRequest(r) PROVE IInv'
  BY <1>7, FreeStep DEF FinishRequest, IInv, TypeOK
<1>8. CASE UNCHANGED vars
  BY <1>8, GrowStep DEF vars, IInv, TypeOK
<1> QED BY <1>1, <1>2, <1>3, <1>4, <1>5, <1>6, <1>7, <1>8 DEF Next

(* Spec keeps the types: the counters of update_from_output and schedule() *)
(* stay in order.                                                          *)
THEOREM DeferTypes == Spec => []TypeOK
<1>1. IInv => TypeOK
  BY DEF IInv
<1> QED BY <1>1, InitInv, NextInv, PTL DEF Spec

(* No block that a step in flight reads or writes is ever in the pool.     *)
THEOREM NoFreeTheorem == Spec => []NoFreeInFlight
<1>1. IInv => NoFreeInFlight
  BY DEF IInv, NoFreeInFlight, CoverInv, Covered, InUse
<1> QED BY <1>1, InitInv, NextInv, PTL DEF Spec

(* No entry of deferred_frees waits behind a fence that was passed or that *)
(* the next step with tokens does not pass.                                *)
THEOREM NoStuckTheorem == Spec => []NoStuckFence
<1>1. IInv => NoStuckFence
  BY DEF IInv
<1> QED BY <1>1, InitInv, NextInv, PTL DEF Spec
=============================================================================
