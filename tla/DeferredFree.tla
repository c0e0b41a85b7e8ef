----------------------------- MODULE DeferredFree -----------------------------
(***************************************************************************)
(* Fenced release of KV blocks in scheduler.py when a KV connector loads   *)
(* into blocks while several steps are in flight (defer_block_free): the   *)
(* step counters, _free_request_blocks, the retention of copy-on-write     *)
(* endpoints and _drain_deferred_frees.                                    *)
(*                                                                         *)
(* A block is in the pool when nothing refers to it: no request's table,   *)
(* no copy waiting for its step, no deferred entry.  One pass of           *)
(* schedule() is a sequence of ScheduleRunning, Preempt and                *)
(* ScheduleWaiting steps that ends with EndSchedule; nothing else runs in  *)
(* between.                                                                *)
(***************************************************************************)
EXTENDS Integers, Sequences, FiniteSets

CONSTANTS
  Requests, Blocks,
  MaxInFlight,      \* max_concurrent_batches
  MaxAlloc,         \* bound: blocks of one allocation
  MaxSteps          \* bound: passes of schedule()

ASSUME DeferAssumption ==
  MaxInFlight \in Nat /\ MaxAlloc \in Nat /\ MaxSteps \in Nat

VARIABLES
  table,        \* table[r]: blocks of request r
  last_sched_seq,
  sched_step_seq, processed_step_seq,
  deferred,     \* deferred_frees, oldest first
  cow,          \* retained endpoints of the copies of this pass
  chosen,       \* num_scheduled_tokens of this pass
  phase,        \* the loop of schedule() that runs, or "idle"
  flight,       \* steps in flight, oldest first
  passes        \* passes so far

vars == <<table, last_sched_seq, sched_step_seq, processed_step_seq, deferred,
          cow, chosen, phase, flight, passes>>

(* fence: the count of processed steps that makes the blocks safe.         *)
Entry == [fence : Nat, blocks : SUBSET Blocks]
(* touches: blocks the step reads or writes; full: it has tokens; seq: its *)
(* number, or that of the next step with tokens.                           *)
StepRec == [touches : SUBSET Blocks, full : BOOLEAN, seq : Nat]

InUse(b) ==
  \/ \E r \in Requests : b \in table[r]
  \/ b \in cow
  \/ \E j \in DOMAIN deferred : b \in deferred[j].blocks

Init ==
  /\ table = [r \in Requests |-> {}]
  /\ last_sched_seq = [r \in Requests |-> 0]
  /\ sched_step_seq = 0 /\ processed_step_seq = 0
  /\ deferred = <<>> /\ cow = {} /\ chosen = {} /\ phase = "idle"
  /\ flight = <<>> /\ passes = 0

-----------------------------------------------------------------------------
(* (variant: a request is safe once its last step is scheduled)             *)
SafeToFree_Scheduled(r) == last_sched_seq[r] <= sched_step_seq

(* No step in flight has the request.                                      *)
SafeToFree(r) == last_sched_seq[r] <= processed_step_seq

(* (variant: the fence is the oldest step in flight)                        *)
FreeFence_Oldest == processed_step_seq + 1

(* Fence of a request's blocks: everything scheduled so far.               *)
FreeFence == sched_step_seq

(* _free_request_blocks: the table is dropped; its blocks go to the pool   *)
(* or wait behind a fence.                                                 *)
FreeRequestBlocks(r) ==
  /\ table' = [table EXCEPT ![r] = {}]
  /\ deferred' = IF SafeToFree(r) \/ table[r] = {} THEN deferred
                 ELSE Append(deferred, [fence |-> FreeFence, blocks |-> table[r]])

BeginSchedule ==
  /\ phase = "idle" /\ Len(flight) < MaxInFlight /\ passes < MaxSteps
  /\ phase' = "running" /\ passes' = passes + 1
  /\ UNCHANGED <<table, last_sched_seq, sched_step_seq, processed_step_seq,
                 deferred, cow, chosen, flight>>

(* The RUNNING loop schedules a request, with blocks from the pool.        *)
ScheduleRunning(r, new) ==
  /\ phase \in {"running", "preempted"} /\ r \notin chosen /\ table[r] # {}
  /\ \A b \in new : ~InUse(b)
  /\ table' = [table EXCEPT ![r] = @ \cup new]
  /\ chosen' = chosen \cup {r}
  /\ UNCHANGED <<last_sched_seq, sched_step_seq, processed_step_seq, deferred,
                 cow, phase, flight, passes>>

(* The WAITING loop, skipped by a pass that preempted: blocks from the     *)
(* pool and a prefix hit.  A partial hit src is copied to a new block, and *)
(* both stay retained until the copy has run.  A request whose KV is       *)
(* loaded by the connector gets blocks and no tokens.                      *)
ScheduleWaiting(r, new, hit, src, load) ==
  /\ phase \in {"running", "waiting"} /\ table[r] = {} /\ new # {}
  /\ \A b \in new : ~InUse(b)
  /\ \A b \in hit \cup src : InUse(b)
  /\ table' = [table EXCEPT ![r] = new \cup hit]
  /\ \/ src = {} /\ UNCHANGED cow
     \/ src # {} /\ \E dst \in new : cow' = cow \cup src \cup {dst}
  /\ chosen' = IF load THEN chosen ELSE chosen \cup {r}
  /\ phase' = "waiting"
  /\ UNCHANGED <<last_sched_seq, sched_step_seq, processed_step_seq, deferred,
                 flight, passes>>

(* _preempt_request: the victim leaves this pass if it was in it.          *)
Preempt(r) ==
  /\ phase \in {"running", "preempted"} /\ table[r] # {}
  /\ FreeRequestBlocks(r)
  /\ chosen' = chosen \ {r} /\ phase' = "preempted"
  /\ UNCHANGED <<last_sched_seq, sched_step_seq, processed_step_seq, cow,
                 flight, passes>>

(* (variant: the fence of the copies is the last scheduled step)            *)
CowFence_Last == sched_step_seq

(* The copies run with this step; the next number is that of the first     *)
(* step with tokens at or after it.                                        *)
CowFence == sched_step_seq + 1

(* The end of schedule(): take_kv_cache_block_copies, the step number      *)
(* advances for a step with tokens, _update_after_schedule records it.     *)
EndSchedule ==
  LET full == chosen # {}
      seq  == IF full THEN sched_step_seq + 1 ELSE sched_step_seq
  IN
  /\ phase # "idle"
  /\ deferred' = IF cow = {} THEN deferred
                 ELSE Append(deferred, [fence |-> CowFence, blocks |-> cow])
  /\ sched_step_seq' = seq
  /\ last_sched_seq' = [r \in Requests |->
       IF r \in chosen THEN seq ELSE last_sched_seq[r]]
  /\ flight' = Append(flight,
       [touches |-> cow \cup UNION {table[r] : r \in chosen},
        full |-> full, seq |-> sched_step_seq + 1])
  /\ cow' = {} /\ chosen' = {} /\ phase' = "idle"
  /\ UNCHANGED <<table, processed_step_seq, passes>>

(* (variant: an entry whose fence is just reached still waits)              *)
Released_Late(fence, done) == fence < done

Released(fence, done) == fence <= done

(* _drain_deferred_frees: entries from the front, up to the first pending. *)
DrainDeferredFrees(done) ==
  \E k \in 0 .. Len(deferred) :
    /\ \A j \in 1 .. k : Released(deferred[j].fence, done)
    /\ k < Len(deferred) => ~Released(deferred[k + 1].fence, done)
    /\ deferred' = SubSeq(deferred, k + 1, Len(deferred))

(* (variant: steps without tokens are counted)                              *)
UpdateFromOutput_CountAll ==
  /\ phase = "idle" /\ flight # <<>>
  /\ flight' = Tail(flight)
  /\ processed_step_seq' = processed_step_seq + 1
  /\ DrainDeferredFrees(processed_step_seq + 1)
  /\ UNCHANGED <<table, last_sched_seq, sched_step_seq, cow, chosen, phase,
                 passes>>

(* update_from_output for the oldest step in flight.                       *)
UpdateFromOutput ==
  /\ phase = "idle" /\ flight # <<>>
  /\ flight' = Tail(flight)
  /\ IF flight[1].full
     THEN /\ processed_step_seq' = processed_step_seq + 1
          /\ DrainDeferredFrees(processed_step_seq + 1)
     ELSE UNCHANGED <<processed_step_seq, deferred>>
  /\ UNCHANGED <<table, last_sched_seq, sched_step_seq, cow, chosen, phase,
                 passes>>

(* _free_blocks of a request that stopped or was aborted; a new request    *)
(* may take its name.                                                      *)
FinishRequest(r) ==
  /\ phase = "idle" /\ table[r] # {}
  /\ FreeRequestBlocks(r)
  /\ last_sched_seq' = [last_sched_seq EXCEPT ![r] = 0]
  /\ UNCHANGED <<sched_step_seq, processed_step_seq, cow, chosen, phase, flight,
                 passes>>

Sets(k) == {S \in SUBSET Blocks : Cardinality(S) <= k}

Next ==
  \/ BeginSchedule \/ EndSchedule \/ UpdateFromOutput
  \/ \E r \in Requests :
       \/ \E new \in Sets(MaxAlloc) : ScheduleRunning(r, new)
       \/ \E new, hit \in Sets(MaxAlloc), src \in Sets(1), load \in BOOLEAN :
            ScheduleWaiting(r, new, hit, src, load)
       \/ Preempt(r) \/ FinishRequest(r)

Spec == Init /\ [][Next]_vars

-----------------------------------------------------------------------------
(* Type invariant; update_from_output never overtakes schedule().          *)
TypeOK ==
  /\ table \in [Requests -> SUBSET Blocks]
  /\ last_sched_seq \in [Requests -> Nat]
  /\ sched_step_seq \in Nat /\ processed_step_seq \in 0 .. sched_step_seq
  /\ deferred \in Seq(Entry) /\ cow \in SUBSET Blocks
  /\ chosen \in SUBSET Requests /\ phase \in {"idle", "running", "waiting", "preempted"}
  /\ flight \in Seq(StepRec) /\ passes \in Nat

(* No block that a step in flight reads or writes is in the pool, where a  *)
(* connector's load, which is not ordered after the step, could take it    *)
(* (_free_request_blocks, _free_cow_retained_blocks, the drain).           *)
NoFreeInFlight ==
  \A i \in DOMAIN flight : \A b \in flight[i].touches : InUse(b)

(* Nothing waits behind a fence that was passed, and every fence is passed *)
(* when the steps in flight and the next step with tokens are processed.   *)
NoStuckFence ==
  /\ deferred # <<>> => deferred[1].fence > processed_step_seq
  /\ \A j \in DOMAIN deferred : deferred[j].fence <= sched_step_seq + 1
=============================================================================
