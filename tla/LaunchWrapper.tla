---------------------------- MODULE LaunchWrapper ----------------------------
(***************************************************************************)
(* launch/resolve_gid_and_launch.sh, the one place every recovery actor    *)
(* goes through, with the launch_gx10.sh it runs: the lock file, the guard *)
(* for a boot in progress, the agreement of the GIDs, and the retry loop   *)
(* (clean, memory gate, launch, poll).                                     *)
(*                                                                         *)
(* Around it: nodes that stop answering and come back rebooted, boots that *)
(* die or come up, engines that die behind an API that still answers,      *)
(* memory that is given back some time after its container is gone, and    *)
(* wrappers that are killed while a child they started keeps running (and  *)
(* keeps the lock, whose descriptor it inherited).                         *)
(*                                                                         *)
(* Time: one unit is the 15 s of a poll; hour is the 3600 s of the guard.  *)
(***************************************************************************)
EXTENDS Integers, FiniteSets

CONSTANTS
  Brains,        \* recovery actors: cron, watchdog, a human
  NoBrain,
  Workers,       \* 1 .. NNODES-1, the ranks; the head is rank 0
  MAX_ATTEMPTS,
  max_polls,     \* 240 polls of a boot
  hour,          \* 3600 s, in polls
  MaxStarts,     \* bound: calls of the wrapper
  MaxFaults      \* bound: nodes lost, wrappers killed

Head  == 0
Nodes == {Head} \cup Workers

ASSUME LaunchAssumption ==
  /\ NoBrain \notin Brains
  /\ IsFiniteSet(Workers) /\ Workers = 1 .. Cardinality(Workers)
  /\ MAX_ATTEMPTS \in Nat \ {0} /\ max_polls \in Nat \ {0} /\ hour \in Nat
  /\ max_polls >= hour
  /\ MaxStarts \in Nat /\ MaxFaults \in Nat

VARIABLES
  lock,       \* holder of /var/tmp/glm_launch.lock
  pc,         \* pc[b]: where the wrapper of b (or its orphaned child) is
  force,      \* force[b]: FORCE_RELAUNCH=1
  attempt, poll, todo,  \* of b: loop counters, nodes not yet served
  container,  \* container[n]: vllm_slot of node n
  age,        \* age of the head's container, up to hour
  loads,      \* loads[n]: 98 GB loads whose memory is not given back
  up,         \* nodes that answer ssh
  starts, faults

vars == <<lock, pc, force, attempt, poll, todo, container, age, loads, up,
          starts, faults>>
script == <<lock, pc, force, attempt, poll, todo>>
fleet  == <<container, age, loads, up>>

(* "zombie": the API answers and the engine is dead.                       *)
ContainerStates == {"none", "loading", "serving", "zombie", "dead"}
Running == {"loading", "serving", "zombie"}
Stages  == {"idle", "guard", "resolve", "clean", "gate", "launch", "poll",
            "orphanClean", "orphanLaunch"}

Init ==
  /\ lock = NoBrain
  /\ pc = [b \in Brains |-> "idle"] /\ force = [b \in Brains |-> FALSE]
  /\ attempt = [b \in Brains |-> 0] /\ poll = [b \in Brains |-> 0]
  /\ todo = [b \in Brains |-> {}]
  /\ container = [n \in Nodes |-> "none"] /\ age = 0
  /\ loads = [n \in Nodes |-> 0] /\ up = Nodes
  /\ starts = 0 /\ faults = 0

-----------------------------------------------------------------------------
Goto(b, stage) == pc' = [pc EXCEPT ![b] = stage]

(* The script or its last child ends: its descriptor of the lock closes.   *)
Exit(b) ==
  /\ Goto(b, "idle")
  /\ lock' = IF lock = b THEN NoBrain ELSE lock
  /\ attempt' = [attempt EXCEPT ![b] = 0] /\ poll' = [poll EXCEPT ![b] = 0]
  /\ todo' = [todo EXCEPT ![b] = {}] /\ force' = [force EXCEPT ![b] = FALSE]

(* docker rm -f vllm_slot on n.                                            *)
Remove(n) == container' = [container EXCEPT ![n] = "none"]

(* (variant: the lock is only looked at)                                    *)
Flock_Test(b) ==
  /\ lock = NoBrain /\ Goto(b, "guard") /\ UNCHANGED lock

(* flock -n on a descriptor that every child inherits.                     *)
Flock(b) ==
  /\ lock = NoBrain /\ lock' = b /\ Goto(b, "guard")

(* A recovery actor calls the wrapper; with the lock taken it exits (3).   *)
Start(b, f) ==
  /\ pc[b] = "idle" /\ starts < MaxStarts
  /\ starts' = starts + 1
  /\ \/ Flock(b) /\ force' = [force EXCEPT ![b] = f]
     \/ lock # NoBrain /\ UNCHANGED <<lock, pc, force>>
  /\ UNCHANGED <<attempt, poll, todo, faults, fleet>>

(* (variant: the guard looks at the API only)                               *)
InProgress_Api == container[Head] \in {"serving", "zombie"} /\ age < hour

(* A container of the head that is running and younger than an hour.       *)
InProgress == container[Head] \in Running /\ age < hour

(* The guard: "already serving" (exit 0) if the API answers, "a boot is in *)
(* progress" (exit 4) unless forced.                                       *)
Guard(b) ==
  /\ pc[b] = "guard"
  /\ IF InProgress /\ (container[Head] # "loading" \/ ~force[b])
     THEN Exit(b)
     ELSE Goto(b, "resolve") /\ UNCHANGED <<lock, force, attempt, poll, todo>>
  /\ UNCHANGED <<starts, faults, fleet>>

(* A pass of the retry loop begins.                                        *)
BeginAttempt(b, k) ==
  /\ attempt' = [attempt EXCEPT ![b] = k]
  /\ poll' = [poll EXCEPT ![b] = 0]
  /\ todo' = [todo EXCEPT ![b] = Nodes]
  /\ Goto(b, "clean")
  /\ UNCHANGED <<lock, force>>

(* (variant: one attempt too many)                                          *)
NextAttempt_OneMore(b) ==
  IF attempt[b] > MAX_ATTEMPTS THEN Exit(b) ELSE BeginAttempt(b, attempt[b] + 1)

(* The next pass, or exit 1 after the last.                                *)
NextAttempt(b) ==
  IF attempt[b] = MAX_ATTEMPTS THEN Exit(b) ELSE BeginAttempt(b, attempt[b] + 1)

(* The GIDs of all nodes are read; one that does not answer, has none or   *)
(* has another one ends the script (2).                                    *)
Resolve(b) ==
  /\ pc[b] = "resolve"
  /\ \/ up = Nodes /\ BeginAttempt(b, 1)
     \/ Exit(b)
  /\ UNCHANGED <<starts, faults, fleet>>

(* Clean: the head first, then the workers in the background in any order; *)
(* a node that does not answer is skipped.                                 *)
CleanNode(b, n) ==
  /\ pc[b] \in {"clean", "orphanClean"} /\ n \in todo[b]
  /\ n # Head => Head \notin todo[b]
  /\ IF n \in up THEN Remove(n) ELSE UNCHANGED container
  /\ todo' = [todo EXCEPT ![b] = @ \ {n}]
  /\ UNCHANGED <<lock, pc, force, attempt, poll, age, loads, up, starts, faults>>

CleanDone(b) ==
  /\ todo[b] = {}
  /\ \/ pc[b] = "clean" /\ Goto(b, "gate")
        /\ UNCHANGED <<lock, force, attempt, poll, todo>>
     \/ pc[b] = "orphanClean" /\ Exit(b)
  /\ UNCHANGED <<starts, faults, fleet>>

(* (variant: only the head's memory is looked at)                           *)
MemoryReclaimed_Head == loads[Head] = 0

(* The lowest free memory of all nodes is at least 100 Gi.                 *)
MemoryReclaimed == \A n \in Nodes : loads[n] = 0

(* (variant: a pass with the gate closed is not counted)                    *)
GateClosed_NoCount(b) == BeginAttempt(b, attempt[b])

(* Memory not reclaimed: sleep 30; continue.                               *)
GateClosed(b) == NextAttempt(b)

(* The memory gate; a node that does not answer ends the script (set -e).  *)
Gate(b) ==
  /\ pc[b] = "gate"
  /\ IF up # Nodes THEN Exit(b)
     ELSE IF MemoryReclaimed
     THEN /\ Goto(b, "launch")
          /\ todo' = [todo EXCEPT ![b] = Nodes]
          /\ UNCHANGED <<lock, force, attempt, poll>>
     ELSE GateClosed(b)
  /\ UNCHANGED <<starts, faults, fleet>>

(* docker rm; docker run on n.  A node that does not answer, or a run that *)
(* fails, is only reported.                                                *)
DockerRun(n) ==
  \/ /\ n \in up
     /\ container' = [container EXCEPT ![n] = "loading"]
     /\ loads' = [loads EXCEPT ![n] = @ + 1]
     /\ age' = IF n = Head THEN 0 ELSE age
  \/ Remove(n) /\ n \in up /\ UNCHANGED <<loads, age>>
  \/ n \notin up /\ UNCHANGED <<container, loads, age>>

(* launch_gx10.sh: the workers by rank, then the head.  An orphan that is  *)
(* done ends; the wrapper goes on to poll.                                 *)
LaunchNode(b, n) ==
  /\ pc[b] \in {"launch", "orphanLaunch"} /\ n \in todo[b]
  /\ IF n = Head THEN todo[b] = {Head} ELSE \A m \in todo[b] \ {Head} : n <= m
  /\ DockerRun(n)
  /\ IF n = Head /\ pc[b] = "orphanLaunch" THEN Exit(b)
     ELSE /\ todo' = [todo EXCEPT ![b] = @ \ {n}]
          /\ IF n = Head THEN Goto(b, "poll") ELSE UNCHANGED pc
          /\ UNCHANGED <<lock, force, attempt, poll>>
  /\ UNCHANGED <<up, starts, faults>>

(* (variant: the poll loop is one pass short)                               *)
PollsOver_Short(b) == poll[b] + 1 >= max_polls - 1

(* The last pass of the poll loop.                                         *)
PollsOver(b) == poll[b] + 1 = max_polls

(* The head is not Up: the logs of all nodes are kept.  Under set -e a     *)
(* node without a log to fetch ends the script, and so do logs in which    *)
(* the filter finds no line (pipefail); else the attempt ends.             *)
Died(b) ==
  \/ /\ up = Nodes /\ \A n \in Nodes : container[n] # "none"
     /\ NextAttempt(b)
  \/ Exit(b)

(* One pass of the poll loop.  A real generation ends the wrapper (0); a   *)
(* head that is Up, serving or not yet, is left alone for 15 s.  Only the  *)
(* head is looked at.                                                      *)
Poll(b) ==
  /\ pc[b] = "poll"
  /\ \/ container[Head] = "serving" /\ Exit(b) /\ UNCHANGED age
     \/ container[Head] \notin Running /\ Died(b) /\ UNCHANGED age
     \/ /\ container[Head] \in {"loading", "zombie"}
        /\ age' = IF age < hour THEN age + 1 ELSE age
        /\ IF PollsOver(b) THEN NextAttempt(b)
           ELSE /\ poll' = [poll EXCEPT ![b] = @ + 1]
                /\ UNCHANGED <<lock, pc, force, attempt, todo>>
  /\ UNCHANGED <<container, loads, up, starts, faults>>

-----------------------------------------------------------------------------
(* (variant: the children are started without the descriptor of the lock)   *)
Orphan_NoLock(b) == lock' = NoBrain

(* A child that outlives its wrapper still holds the lock.                 *)
Orphan(b) == UNCHANGED lock

(* The wrapper is killed.  Children it was waiting for may live on: the    *)
(* ssh calls of a clean that were started, or launch_gx10.sh.              *)
Kill(b) ==
  /\ pc[b] # "idle" /\ faults < MaxFaults
  /\ faults' = faults + 1
  /\ \/ Exit(b)
     \/ /\ pc[b] = "clean" /\ Head \notin todo[b]
        /\ \E started \in SUBSET todo[b] : todo' = [todo EXCEPT ![b] = started]
        /\ Goto(b, "orphanClean") /\ Orphan(b)
        /\ UNCHANGED <<force, attempt, poll>>
     \/ /\ pc[b] = "launch" /\ Goto(b, "orphanLaunch") /\ Orphan(b)
        /\ UNCHANGED <<force, attempt, poll, todo>>
  /\ UNCHANGED <<starts, fleet>>

(* All ranks are there: the boot comes up.                                 *)
BootUp ==
  /\ \A n \in Nodes : container[n] = "loading"
  /\ container' = [n \in Nodes |-> "serving"]
  /\ UNCHANGED <<age, loads, up, starts, faults, script>>

(* A container dies, in its boot (the gloo race) or later; the head's API  *)
(* may go on answering without an engine.                                  *)
Die(n) ==
  /\ container[n] \in Running
  /\ \/ container' = [container EXCEPT ![n] = "dead"]
     \/ /\ container[Head] = "serving" /\ n # Head
        /\ container' = [container EXCEPT ![n] = "dead", ![Head] = "zombie"]
  /\ UNCHANGED <<age, loads, up, starts, faults, script>>

(* The memory of a container that is gone is given back.                   *)
Reclaim(n) ==
  /\ loads[n] > (IF container[n] \in Running THEN 1 ELSE 0)
  /\ loads' = [loads EXCEPT ![n] = @ - 1]
  /\ UNCHANGED <<container, age, up, starts, faults, script>>

(* A worker node stops answering; it comes back rebooted or as it was.     *)
NodeDown(n) ==
  /\ n \in up /\ faults < MaxFaults
  /\ up' = up \ {n} /\ faults' = faults + 1
  /\ UNCHANGED <<container, age, loads, starts, script>>

NodeUp(n) ==
  /\ n \notin up /\ up' = up \cup {n}
  /\ \/ UNCHANGED <<container, loads>>
     \/ Remove(n) /\ loads' = [loads EXCEPT ![n] = 0]
  /\ UNCHANGED <<age, starts, faults, script>>

Tick ==
  /\ container[Head] \in Running /\ age < hour
  /\ age' = age + 1
  /\ UNCHANGED <<container, loads, up, starts, faults, script>>

ScriptStep(b) ==
  \/ Guard(b) \/ Resolve(b) \/ CleanDone(b) \/ Gate(b) \/ Poll(b)
  \/ \E n \in Nodes : CleanNode(b, n) \/ LaunchNode(b, n)

Next ==
  \/ \E b \in Brains : \/ \E f \in BOOLEAN : Start(b, f)
                       \/ ScriptStep(b)
                       \/ Kill(b)
  \/ BootUp \/ Tick
  \/ \E n \in Nodes : Die(n) \/ Reclaim(n)
  \/ \E n \in Workers : NodeDown(n) \/ NodeUp(n)

Spec     == Init /\ [][Next]_vars
FairSpec == Spec /\ \A b \in Brains : WF_vars(ScriptStep(b))

-----------------------------------------------------------------------------
(* Type invariant: the loop counters stay within their loops.              *)
TypeOK ==
  /\ lock \in Brains \cup {NoBrain} /\ pc \in [Brains -> Stages]
  /\ force \in [Brains -> BOOLEAN]
  /\ attempt \in [Brains -> 0 .. MAX_ATTEMPTS]
  /\ poll \in [Brains -> 0 .. max_polls - 1]
  /\ todo \in [Brains -> SUBSET Nodes]
  /\ container \in [Nodes -> ContainerStates] /\ age \in 0 .. hour
  /\ loads \in [Nodes -> Nat] /\ up \subseteq Nodes

(* "single-flight": whatever is killed, at most one wrapper, with the      *)
(* children it left, is at work on the nodes (the inherited descriptor of  *)
(* flock).                                                                 *)
SingleFlight ==
  \A b, c \in Brains : pc[b] # "idle" /\ pc[c] # "idle" => b = c

(* "must never stack 98 GB loads": no node is given a load before the      *)
(* memory of the last one is back, though removals are asynchronous, a     *)
(* node may miss the clean, and launchers may be killed half way.          *)
NoStackedLoad == \A n \in Nodes : loads[n] <= 1

(* "never tear down a boot that is still coming up": a head that is        *)
(* loading is removed only after its hour, or by the first pass of a       *)
(* wrapper that was forced (the guard and the length of the poll loop).    *)
BootGetsItsHour ==
  [][container[Head] = "loading" /\ container'[Head] = "none"
       => \/ age >= hour
          \/ \E b \in Brains : force[b] /\ attempt[b] = 1]_vars

(* Every wrapper ends, even if the memory never comes back: the passes     *)
(* with the gate closed count as attempts too.                             *)
WrapperEnds == \A b \in Brains : pc[b] # "idle" ~> pc[b] = "idle"
=============================================================================
