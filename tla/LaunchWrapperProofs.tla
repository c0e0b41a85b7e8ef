------------------------- MODULE LaunchWrapperProofs -------------------------
(***************************************************************************)
(* Proofs about LaunchWrapper, for any recovery actors, any number of      *)
(* nodes, attempts, polls, calls and faults.                               *)
(***************************************************************************)
EXTENDS LaunchWrapper, FiniteSetTheorems, TLAPS

Launching == {"launch", "orphanLaunch"}

(* Whoever is at work, as a wrapper or as the child of a killed one, holds *)
(* the lock.                                                               *)
LockInv == \A b \in Brains : pc[b] # "idle" => lock = b

(* A node that still has to be launched has no load: the gate saw all of   *)
(* them at 0 and only the holder of the lock adds one.                     *)
LoadInv ==
  \A b \in Brains : \A n \in Nodes :
    pc[b] \in Launching /\ n \in todo[b] => loads[n] = 0

(* The head always answers; once it is cleaned it has no container until   *)
(* its own docker run.                                                     *)
HeadCleaned(b) ==
  \/ pc[b] \in {"clean", "orphanClean"} /\ Head \notin todo[b]
  \/ pc[b] = "gate"
  \/ pc[b] \in Launching /\ Head \in todo[b]

HeadInv ==
  /\ Head \in up
  /\ \A b \in Brains :
       /\ pc[b] = "orphanClean" => Head \notin todo[b]
       /\ HeadCleaned(b) => container[Head] = "none"

(* The head's container is as old as the polls it was given.               *)
PollInv ==
  \A b \in Brains :
    /\ pc[b] \in {"clean", "gate"} \cup Launching => poll[b] = 0
    /\ pc[b] = "poll" => age >= poll[b] \/ age >= hour

(* A wrapper past the guard that will remove the head's container may.     *)
MayRemove == container[Head] # "loading" \/ age >= hour

GuardInv ==
  \A b \in Brains :
    /\ pc[b] = "resolve" => MayRemove \/ force[b]
    /\ pc[b] = "clean" /\ Head \in todo[b]
         => MayRemove \/ (force[b] /\ attempt[b] = 1)

IInv == TypeOK /\ LockInv /\ LoadInv /\ NoStackedLoad /\ HeadInv /\ PollInv /\ GuardInv

-----------------------------------------------------------------------------
(* The head is not a worker.                                               *)
LEMMA NodeFacts ==
  Head \in Nodes /\ Head \notin Workers /\ Workers \subseteq Nodes
<1>1. Cardinality(Workers) \in Nat
  BY LaunchAssumption, FS_CardinalityType
<1>2. 0 \notin Workers
  BY <1>1, LaunchAssumption
<1> QED BY <1>2 DEF Nodes, Head

(* What the guard of the lock says of everybody else.                      *)
LEMMA OthersIdle ==
  ASSUME LockInv, NEW b \in Brains, pc[b] # "idle"
  PROVE  lock = b /\ \A c \in Brains : c # b => pc[c] = "idle"
BY DEF LockInv

(* A wrapper, or its last child, that ends leaves the rest as it was.      *)
LEMMA ExitStep ==
  ASSUME IInv, NEW b \in Brains, pc[b] # "idle", Exit(b), age' \in 0 .. hour,
         UNCHANGED up, container' \in [Nodes -> ContainerStates],
         loads' \in [Nodes -> Nat], \A n \in Nodes : loads'[n] <= 1
  PROVE  IInv'
<1>1. /\ pc' = [pc EXCEPT ![b] = "idle"] /\ lock' = NoBrain
      /\ \A c \in Brains : pc'[c] = "idle"
  BY OthersIdle DEF IInv, TypeOK, Exit, Goto
<1>2. TypeOK'
  BY <1>1, LaunchAssumption DEF IInv, TypeOK, Exit, Stages
<1>3. LockInv' /\ LoadInv' /\ PollInv' /\ GuardInv'
  BY <1>1 DEF LockInv, LoadInv, PollInv, GuardInv, Launching
<1>4. HeadInv' /\ NoStackedLoad'
  BY <1>1 DEF IInv, HeadInv, HeadCleaned, Launching, NoStackedLoad
<1> QED BY <1>2, <1>3, <1>4 DEF IInv

(* A pass of the retry loop may begin when the head may be removed.        *)
LEMMA AttemptStep ==
  ASSUME IInv, NEW b \in Brains, pc[b] # "idle",
         NEW k \in 1 .. MAX_ATTEMPTS, BeginAttempt(b, k), age' \in 0 .. hour,
         UNCHANGED <<container, loads, up>>,
         MayRemove' \/ (force[b] /\ k = 1)
  PROVE  IInv'
<1>1. /\ pc' = [pc EXCEPT ![b] = "clean"] /\ lock' = b /\ force' = force
      /\ \A c \in Brains : c # b => pc'[c] = "idle"
      /\ pc'[b] = "clean" /\ todo'[b] = Nodes /\ attempt'[b] = k /\ poll'[b] = 0
  BY OthersIdle DEF IInv, TypeOK, BeginAttempt, Goto
<1>2. TypeOK'
  BY <1>1, LaunchAssumption DEF IInv, TypeOK, BeginAttempt, Stages
<1>3. LockInv' /\ LoadInv' /\ PollInv' /\ GuardInv'
  BY <1>1 DEF LockInv, LoadInv, PollInv, GuardInv, Launching
<1>4. HeadInv' /\ NoStackedLoad'
  BY <1>1, NodeFacts DEF IInv, HeadInv, HeadCleaned, Launching, NoStackedLoad
<1> QED BY <1>2, <1>3, <1>4 DEF IInv

(* The next pass, or the end of the script.                                *)
LEMMA NextAttemptStep ==
  ASSUME IInv, NEW b \in Brains, pc[b] # "idle", NextAttempt(b),
         age' \in 0 .. hour, UNCHANGED <<container, loads, up>>, MayRemove'
  PROVE  IInv'
<1>1. CASE attempt[b] = MAX_ATTEMPTS
  <2>1. Exit(b)
    BY <1>1 DEF NextAttempt
  <2> QED BY <2>1, ExitStep DEF IInv, TypeOK, NoStackedLoad
<1>2. CASE attempt[b] # MAX_ATTEMPTS
  <2>1. BeginAttempt(b, attempt[b] + 1)
    BY <1>2 DEF NextAttempt
  <2>2. attempt[b] + 1 \in 1 .. MAX_ATTEMPTS
    BY <1>2, LaunchAssumption DEF IInv, TypeOK
  <2> QED BY <2>1, <2>2, AttemptStep
<1> QED BY <1>1, <1>2

(* Init satisfies the invariant.                                           *)
LEMMA InitInv == Init => IInv
<1> SUFFICES ASSUME Init PROVE IInv
  OBVIOUS
<1>1. TypeOK
  BY LaunchAssumption DEF Init, TypeOK, Stages, ContainerStates
<1>2. \A b \in Brains : pc[b] = "idle"
  BY DEF Init
<1>3. LockInv /\ LoadInv /\ PollInv /\ GuardInv
  BY <1>2 DEF LockInv, LoadInv, PollInv, GuardInv, Launching
<1>4. HeadInv /\ NoStackedLoad
  BY <1>2, NodeFacts DEF Init, HeadInv, HeadCleaned, Launching, NoStackedLoad
<1> QED BY <1>1, <1>3, <1>4 DEF IInv

-----------------------------------------------------------------------------
(* Steps of the script.                                                    *)

(* Only a call that gets the lock leaves the idle state.                   *)
LEMMA StartStep ==
  ASSUME IInv, NEW b \in Brains, NEW f \in BOOLEAN, Start(b, f)
  PROVE  IInv'
<1>1. CASE Flock(b) /\ force' = [force EXCEPT ![b] = f]
  <2>1. \A c \in Brains : pc[c] = "idle"
    BY <1>1, LaunchAssumption DEF IInv, LockInv, Flock
  <2>2. /\ lock' = b /\ pc' = [pc EXCEPT ![b] = "guard"] /\ pc'[b] = "guard"
        /\ \A c \in Brains : c # b => pc'[c] = "idle"
    BY <1>1, <2>1 DEF IInv, TypeOK, Flock, Goto
  <2>3. UNCHANGED <<attempt, poll, todo, container, age, loads, up>>
    BY DEF Start, fleet
  <2>4. TypeOK'
    BY <1>1, <2>2, <2>3 DEF IInv, TypeOK, Stages
  <2>5. LockInv' /\ LoadInv' /\ PollInv' /\ GuardInv'
    BY <2>2, <2>3 DEF LockInv, LoadInv, PollInv, GuardInv, Launching
  <2>6. HeadInv' /\ NoStackedLoad'
    BY <2>2, <2>3 DEF IInv, HeadInv, HeadCleaned, Launching, NoStackedLoad
  <2> QED BY <2>4, <2>5, <2>6 DEF IInv
<1>2. CASE UNCHANGED <<lock, pc, force>>
  BY <1>2 DEF Start, fleet, IInv, TypeOK, LockInv, LoadInv, NoStackedLoad, HeadInv,
              HeadCleaned, PollInv, GuardInv, MayRemove
<1> QED BY <1>1, <1>2 DEF Start

(* The guard lets a wrapper pass only if the head may be removed, or is    *)
(* forced.                                                                 *)
LEMMA GuardStep ==
  ASSUME IInv, NEW b \in Brains, Guard(b)
  PROVE  IInv'
<1>1. pc[b] = "guard" /\ UNCHANGED <<container, age, loads, up>>
  BY DEF Guard, fleet
<1>2. CASE InProgress /\ (container[Head] # "loading" \/ ~force[b])
  <2>1. Exit(b)
    BY <1>2 DEF Guard
  <2> QED BY <1>1, <2>1, ExitStep DEF IInv, TypeOK, NoStackedLoad
<1>3. CASE ~ (InProgress /\ (container[Head] # "loading" \/ ~force[b]))
  <2>1. Goto(b, "resolve") /\ UNCHANGED <<lock, force, attempt, poll, todo>>
    BY <1>3 DEF Guard
  <2>2. /\ pc' = [pc EXCEPT ![b] = "resolve"] /\ pc'[b] = "resolve" /\ lock' = b
        /\ \A c \in Brains : c # b => pc'[c] = "idle"
    BY <1>1, <2>1, OthersIdle DEF IInv, TypeOK, Goto
  <2>3. TypeOK'
    BY <1>1, <2>1, <2>2 DEF IInv, TypeOK, Stages
  <2>4. LockInv' /\ LoadInv' /\ PollInv'
    BY <2>2 DEF LockInv, LoadInv, PollInv, Launching
  <2>5. HeadInv' /\ NoStackedLoad'
    BY <1>1, <2>2 DEF IInv, HeadInv, HeadCleaned, Launching, NoStackedLoad
  <2>6. MayRemove \/ force[b]
    BY <1>3, LaunchAssumption DEF InProgress, MayRemove, Running, IInv, TypeOK
  <2>7. GuardInv'
    BY <1>1, <2>1, <2>2, <2>6 DEF GuardInv, MayRemove
  <2> QED BY <2>3, <2>4, <2>5, <2>7 DEF IInv
<1> QED BY <1>2, <1>3

(* The GIDs agree, or the script ends.                                     *)
LEMMA ResolveStep ==
  ASSUME IInv, NEW b \in Brains, Resolve(b)
  PROVE  IInv'
<1>1. pc[b] = "resolve" /\ UNCHANGED <<container, age, loads, up>>
  BY DEF Resolve, fleet
<1>2. CASE Exit(b)
  BY <1>1, <1>2, ExitStep DEF IInv, TypeOK, NoStackedLoad
<1>3. CASE BeginAttempt(b, 1)
  <2>1. 1 \in 1 .. MAX_ATTEMPTS
    BY LaunchAssumption
  <2>2. MayRemove' \/ force[b]
    BY <1>1 DEF IInv, GuardInv, MayRemove
  <2>3. age' \in 0 .. hour
    BY <1>1 DEF IInv, TypeOK
  <2> QED BY <1>1, <1>3, <2>1, <2>2, <2>3, AttemptStep
<1> QED BY <1>2, <1>3 DEF Resolve

(* One node is cleaned, or skipped because it does not answer.             *)
LEMMA CleanNodeStep ==
  ASSUME IInv, NEW b \in Brains, NEW n \in Nodes, CleanNode(b, n)
  PROVE  IInv'
<1>1. /\ pc[b] \in {"clean", "orphanClean"} /\ n \in todo[b]
      /\ UNCHANGED <<lock, pc, force, attempt, poll, age, loads, up>>
      /\ todo' = [todo EXCEPT ![b] = todo[b] \ {n}]
      /\ n # Head => Head \notin todo[b]
  BY DEF CleanNode, IInv, TypeOK
<1>2. \A c \in Brains : c # b => pc[c] = "idle"
  BY <1>1, OthersIdle DEF IInv
<1>3. todo'[b] = todo[b] \ {n} /\ todo' \in [Brains -> SUBSET Nodes]
  BY <1>1 DEF IInv, TypeOK
<1>4. /\ container' \in [Nodes -> ContainerStates]
      /\ container'[Head] \in {container[Head], "none"}
      /\ n = Head => container'[Head] = "none"
  BY NodeFacts DEF CleanNode, Remove, IInv, TypeOK, HeadInv, ContainerStates
<1>5. TypeOK'
  BY <1>1, <1>3, <1>4 DEF IInv, TypeOK
<1>6. LockInv' /\ PollInv'
  BY <1>1 DEF IInv, LockInv, PollInv
<1>7. LoadInv' /\ NoStackedLoad'
  BY <1>1, <1>2 DEF IInv, LoadInv, NoStackedLoad, Launching
<1>8. HeadInv'
  BY <1>1, <1>2, <1>3, <1>4 DEF IInv, HeadInv, HeadCleaned, Launching
<1>9. GuardInv'
  BY <1>1, <1>2, <1>3, <1>4 DEF IInv, GuardInv, MayRemove
<1> QED BY <1>5, <1>6, <1>7, <1>8, <1>9 DEF IInv

(* All nodes were visited: on to the gate, or the end of the orphans.      *)
LEMMA CleanDoneStep ==
  ASSUME IInv, NEW b \in Brains, CleanDone(b)
  PROVE  IInv'
<1>1. todo[b] = {} /\ UNCHANGED <<container, age, loads, up>>
  BY DEF CleanDone, fleet
<1>2. CASE pc[b] = "orphanClean" /\ Exit(b)
  BY <1>1, <1>2, ExitStep DEF IInv, TypeOK, NoStackedLoad
<1>3. CASE pc[b] = "clean" /\ Goto(b, "gate")
           /\ UNCHANGED <<lock, force, attempt, poll, todo>>
  <2>1. /\ pc' = [pc EXCEPT ![b] = "gate"] /\ pc'[b] = "gate" /\ lock' = b
        /\ \A c \in Brains : c # b => pc'[c] = "idle"
    BY <1>3, OthersIdle DEF IInv, TypeOK, Goto
  <2>2. TypeOK'
    BY <1>1, <1>3, <2>1 DEF IInv, TypeOK, Stages
  <2>3. LockInv' /\ LoadInv' /\ GuardInv'
    BY <2>1 DEF LockInv, LoadInv, GuardInv, Launching
  <2>4. PollInv' /\ NoStackedLoad'
    BY <1>1, <1>3, <2>1 DEF IInv, PollInv, NoStackedLoad, Launching
  <2>5. HeadInv'
    BY <1>1, <1>3, <2>1 DEF IInv, HeadInv, HeadCleaned, Launching
  <2> QED BY <2>2, <2>3, <2>4, <2>5 DEF IInv
<1> QED BY <1>2, <1>3 DEF CleanDone

(* The memory gate: every load is 0 when the launch begins.                *)
LEMMA GateStep ==
  ASSUME IInv, NEW b \in Brains, Gate(b)
  PROVE  IInv'
<1>1. pc[b] = "gate" /\ UNCHANGED <<container, age, loads, up>>
  BY DEF Gate, fleet
<1>2. container[Head] = "none"
  BY <1>1 DEF IInv, HeadInv, HeadCleaned
<1>3. CASE Exit(b)
  BY <1>1, <1>3, ExitStep DEF IInv, TypeOK, NoStackedLoad
<1>4. CASE GateClosed(b)
  <2>1. MayRemove' /\ age' \in 0 .. hour
    BY <1>1, <1>2 DEF MayRemove, IInv, TypeOK
  <2> QED BY <1>1, <1>4, <2>1, NextAttemptStep DEF GateClosed
<1>5. CASE /\ MemoryReclaimed /\ Goto(b, "launch")
           /\ todo' = [todo EXCEPT ![b] = Nodes]
           /\ UNCHANGED <<lock, force, attempt, poll>>
  <2>1. /\ pc' = [pc EXCEPT ![b] = "launch"] /\ pc'[b] = "launch" /\ lock' = b
        /\ \A c \in Brains : c # b => pc'[c] = "idle"
    BY <1>1, <1>5, OthersIdle DEF IInv, TypeOK, Goto
  <2>2. TypeOK'
    BY <1>1, <1>5, <2>1 DEF IInv, TypeOK, Stages
  <2>3. LockInv' /\ GuardInv'
    BY <2>1 DEF LockInv, GuardInv
  <2>4. LoadInv'
    BY <1>1, <1>5, <2>1 DEF LoadInv, Launching, MemoryReclaimed
  <2>5. PollInv' /\ NoStackedLoad'
    BY <1>1, <1>5, <2>1 DEF IInv, PollInv, NoStackedLoad, Launching
  <2>6. HeadInv'
    BY <1>1, <1>2, <2>1 DEF IInv, HeadInv, HeadCleaned, Launching
  <2> QED BY <2>2, <2>3, <2>4, <2>5, <2>6 DEF IInv
<1> QED BY <1>3, <1>4, <1>5 DEF Gate

(* docker run on one node, by the wrapper or by the orphaned launcher.     *)
LEMMA DockerRunFacts ==
  ASSUME IInv, NEW b \in Brains, NEW n \in Nodes,
         pc[b] \in Launching, n \in todo[b], DockerRun(n)
  PROVE  /\ container' \in [Nodes -> ContainerStates]
         /\ loads' \in [Nodes -> Nat] /\ \A m \in Nodes : loads'[m] <= 1
         /\ \A m \in Nodes : m # n => loads'[m] = loads[m]
         /\ n # Head => container'[Head] = container[Head] /\ age' = age
         /\ age' \in 0 .. hour
<1>1. loads[n] = 0
  BY DEF IInv, LoadInv
<1>2. CASE /\ container' = [container EXCEPT ![n] = "loading"]
           /\ loads' = [loads EXCEPT ![n] = loads[n] + 1]
           /\ age' = IF n = Head THEN 0 ELSE age
  <2>1. loads' \in [Nodes -> Nat] /\ loads'[n] = 1
        /\ \A m \in Nodes : m # n => loads'[m] = loads[m]
    BY <1>1, <1>2 DEF IInv, TypeOK
  <2>2. \A m \in Nodes : loads'[m] <= 1
    BY <2>1 DEF IInv, NoStackedLoad
  <2>3. container' \in [Nodes -> ContainerStates]
        /\ (n # Head => container'[Head] = container[Head])
    BY <1>2, NodeFacts DEF IInv, TypeOK, ContainerStates
  <2>4. age' \in 0 .. hour /\ (n # Head => age' = age)
    BY <1>2, LaunchAssumption DEF IInv, TypeOK
  <2> QED BY <2>1, <2>2, <2>3, <2>4
<1>3. CASE (Remove(n) \/ UNCHANGED container) /\ UNCHANGED <<loads, age>>
  BY <1>3, NodeFacts DEF Remove, IInv, TypeOK, NoStackedLoad, ContainerStates
<1> QED BY <1>2, <1>3 DEF DockerRun, IInv, TypeOK

(* launch_gx10.sh serves its next node.                                    *)
LEMMA LaunchNodeStep ==
  ASSUME IInv, NEW b \in Brains, NEW n \in Nodes, LaunchNode(b, n)
  PROVE  IInv'
<1>1. pc[b] \in Launching /\ n \in todo[b] /\ DockerRun(n) /\ UNCHANGED up
      /\ (n = Head => todo[b] = {Head})
  BY DEF LaunchNode, Launching
<1>2. /\ container' \in [Nodes -> ContainerStates]
      /\ loads' \in [Nodes -> Nat] /\ \A m \in Nodes : loads'[m] <= 1
      /\ \A m \in Nodes : m # n => loads'[m] = loads[m]
      /\ n # Head => container'[Head] = container[Head] /\ age' = age
      /\ age' \in 0 .. hour
  BY <1>1, DockerRunFacts
<1>3. pc[b] # "idle"
  BY <1>1 DEF Launching
<1>4. CASE n = Head /\ pc[b] = "orphanLaunch"
  <2>1. Exit(b)
    BY <1>4 DEF LaunchNode
  <2> QED BY <1>1, <1>2, <1>3, <2>1, ExitStep
<1>5. CASE ~ (n = Head /\ pc[b] = "orphanLaunch")
  <2>1. /\ todo' = [todo EXCEPT ![b] = todo[b] \ {n}]
        /\ IF n = Head THEN Goto(b, "poll") ELSE UNCHANGED pc
        /\ UNCHANGED <<lock, force, attempt, poll>>
    BY <1>5 DEF LaunchNode, IInv, TypeOK
  <2>2. /\ todo' \in [Brains -> SUBSET Nodes] /\ todo'[b] = todo[b] \ {n}
        /\ pc' \in [Brains -> Stages]
        /\ pc'[b] = IF n = Head THEN "poll" ELSE pc[b]
        /\ \A c \in Brains : c # b => pc'[c] = "idle"
    BY <1>3, <2>1, OthersIdle DEF IInv, TypeOK, Goto, Stages
  <2>3. TypeOK'
    BY <1>1, <1>2, <2>1, <2>2 DEF IInv, TypeOK
  <2>4. LockInv' /\ GuardInv'
    BY <1>1, <1>3, <2>1, <2>2, OthersIdle DEF IInv, LockInv, GuardInv, Launching
  <2>5. LoadInv'
    BY <1>1, <1>2, <2>2 DEF IInv, LoadInv, Launching
  <2>6. NoStackedLoad'
    BY <1>2 DEF NoStackedLoad
  <2>7. HeadInv'
    BY <1>1, <1>2, <2>2 DEF IInv, HeadInv, HeadCleaned, Launching
  <2>8. PollInv'
    <3>1. poll[b] = 0 /\ poll' = poll
      BY <1>1, <2>1 DEF IInv, PollInv, Launching
    <3> QED BY <1>1, <1>2, <2>2, <3>1 DEF PollInv, Launching
  <2> QED BY <2>3, <2>4, <2>5, <2>6, <2>7, <2>8 DEF IInv
<1> QED BY <1>4, <1>5

(* One pass of the poll loop: the head ages with the polls.                *)
LEMMA PollStep ==
  ASSUME IInv, NEW b \in Brains, Poll(b)
  PROVE  IInv'
<1>1. pc[b] = "poll" /\ UNCHANGED <<container, loads, up>>
  BY DEF Poll
<1>2. age \in 0 .. hour /\ poll[b] \in 0 .. max_polls - 1
  BY DEF IInv, TypeOK
<1>3. CASE Exit(b) /\ UNCHANGED age
  BY <1>1, <1>3, ExitStep DEF IInv, TypeOK, NoStackedLoad
<1>4. CASE container[Head] \notin Running /\ NextAttempt(b) /\ UNCHANGED age
  <2>1. MayRemove' /\ age' \in 0 .. hour
    BY <1>1, <1>2, <1>4 DEF MayRemove, Running
  <2> QED BY <1>1, <1>4, <2>1, NextAttemptStep
<1>5. ASSUME age' = IF age < hour THEN age + 1 ELSE age
      PROVE  age' \in 0 .. hour
             /\ (age' >= poll[b] + 1 \/ age' >= hour)
  BY <1>1, <1>2, <1>5, LaunchAssumption DEF IInv, PollInv
<1>6. CASE /\ age' = IF age < hour THEN age + 1 ELSE age
           /\ PollsOver(b) /\ NextAttempt(b)
  <2>1. MayRemove'
    BY <1>2, <1>5, <1>6, LaunchAssumption DEF MayRemove, PollsOver
  <2> QED BY <1>1, <1>5, <1>6, <2>1, NextAttemptStep
<1>7. CASE /\ age' = IF age < hour THEN age + 1 ELSE age
           /\ ~PollsOver(b) /\ poll' = [poll EXCEPT ![b] = poll[b] + 1]
           /\ UNCHANGED <<lock, pc, force, attempt, todo>>
  <2>1. /\ poll' \in [Brains -> 0 .. max_polls - 1] /\ poll'[b] = poll[b] + 1
        /\ \A c \in Brains : c # b => pc[c] = "idle"
    BY <1>1, <1>2, <1>7, LaunchAssumption, OthersIdle DEF IInv, TypeOK, PollsOver
  <2>2. TypeOK'
    BY <1>1, <1>5, <1>7, <2>1 DEF IInv, TypeOK
  <2>3. LockInv' /\ LoadInv' /\ GuardInv' /\ NoStackedLoad'
    BY <1>1, <1>7, <2>1
       DEF IInv, LockInv, LoadInv, GuardInv, NoStackedLoad, Launching
  <2>4. HeadInv'
    BY <1>1, <1>7 DEF IInv, HeadInv, HeadCleaned
  <2>5. PollInv'
    BY <1>1, <1>5, <1>7, <2>1 DEF IInv, PollInv, Launching
  <2> QED BY <2>2, <2>3, <2>4, <2>5 DEF IInv
<1> QED BY <1>3, <1>4, <1>6, <1>7 DEF Poll, Died, IInv, TypeOK

(* A killed wrapper, with or without children that live on.                *)
LEMMA KillStep ==
  ASSUME IInv, NEW b \in Brains, Kill(b)
  PROVE  IInv'
<1>1. pc[b] # "idle" /\ UNCHANGED <<container, age, loads, up>>
  BY DEF Kill, fleet
<1>2. CASE Exit(b)
  BY <1>1, <1>2, ExitStep DEF IInv, TypeOK, NoStackedLoad
<1>3. CASE /\ pc[b] = "clean" /\ Head \notin todo[b]
           /\ \E started \in SUBSET todo[b] : todo' = [todo EXCEPT ![b] = started]
           /\ Goto(b, "orphanClean") /\ Orphan(b)
           /\ UNCHANGED <<force, attempt, poll>>
  <2>1. /\ pc' = [pc EXCEPT ![b] = "orphanClean"] /\ pc'[b] = "orphanClean"
        /\ lock' = b /\ \A c \in Brains : c # b => pc'[c] = "idle"
    BY <1>1, <1>3, OthersIdle DEF IInv, TypeOK, Goto, Orphan
  <2>2. todo' \in [Brains -> SUBSET Nodes] /\ todo'[b] \subseteq todo[b]
    BY <1>3 DEF IInv, TypeOK
  <2>3. TypeOK'
    BY <1>1, <1>3, <2>1, <2>2 DEF IInv, TypeOK, Stages
  <2>4. LockInv' /\ LoadInv' /\ PollInv' /\ GuardInv'
    BY <2>1 DEF LockInv, LoadInv, PollInv, GuardInv, Launching
  <2>5. HeadInv' /\ NoStackedLoad'
    BY <1>1, <1>3, <2>1, <2>2
       DEF IInv, HeadInv, HeadCleaned, NoStackedLoad, Launching
  <2> QED BY <2>3, <2>4, <2>5 DEF IInv
<1>4. CASE /\ pc[b] = "launch" /\ Goto(b, "orphanLaunch") /\ Orphan(b)
           /\ UNCHANGED <<force, attempt, poll, todo>>
  <2>1. /\ pc' = [pc EXCEPT ![b] = "orphanLaunch"] /\ pc'[b] = "orphanLaunch"
        /\ lock' = b /\ \A c \in Brains : c # b => pc'[c] = "idle"
    BY <1>1, <1>4, OthersIdle DEF IInv, TypeOK, Goto, Orphan
  <2>2. TypeOK'
    BY <1>1, <1>4, <2>1 DEF IInv, TypeOK, Stages
  <2>3. LockInv' /\ GuardInv'
    BY <2>1 DEF LockInv, GuardInv
  <2>4. LoadInv' /\ PollInv' /\ NoStackedLoad'
    BY <1>1, <1>4, <2>1 DEF IInv, LoadInv, PollInv, NoStackedLoad, Launching
  <2>5. HeadInv'
    BY <1>1, <1>4, <2>1 DEF IInv, HeadInv, HeadCleaned, Launching
  <2> QED BY <2>2, <2>3, <2>4, <2>5 DEF IInv
<1> QED BY <1>2, <1>3, <1>4 DEF Kill

-----------------------------------------------------------------------------
(* Steps of the fleet: no load is added, no container begins to load, the  *)
(* head stays up and does not grow younger.                                *)
LEMMA FleetStep ==
  ASSUME IInv, UNCHANGED script, Head \in up', up' \subseteq Nodes,
         container' \in [Nodes -> ContainerStates],
         container'[Head] = "loading" => container[Head] = "loading",
         container[Head] = "none" => container'[Head] = "none",
         loads' \in [Nodes -> Nat], \A n \in Nodes : loads'[n] <= loads[n],
         age' \in 0 .. hour, age' >= age
  PROVE  IInv'
<1>1. TypeOK'
  BY DEF IInv, TypeOK, script
<1>2. LockInv' /\ HeadInv'
  BY DEF IInv, LockInv, HeadInv, HeadCleaned, script
<1>3. LoadInv' /\ NoStackedLoad'
  BY DEF IInv, TypeOK, LoadInv, NoStackedLoad, script
<1>4. ASSUME NEW b \in Brains
      PROVE  age >= poll[b] \/ age >= hour => age' >= poll[b] \/ age' >= hour
  <2>1. poll[b] \in Int /\ hour \in Int /\ age \in Int /\ age' \in Int
    BY LaunchAssumption DEF IInv, TypeOK
  <2> QED BY <2>1
<1>7. PollInv'
  BY <1>4 DEF IInv, PollInv, script
<1>5. MayRemove => MayRemove'
  BY LaunchAssumption DEF IInv, TypeOK, MayRemove
<1>6. GuardInv'
  BY <1>5 DEF IInv, GuardInv, script
<1> QED BY <1>1, <1>2, <1>3, <1>6, <1>7 DEF IInv

(* Every step of Next keeps the invariant.                                 *)
LEMMA NextInv == IInv /\ [Next]_vars => IInv'
<1> SUFFICES ASSUME IInv, [Next]_vars PROVE IInv'
  OBVIOUS
<1>1. ASSUME NEW b \in Brains, NEW f \in BOOLEAN, Start(b, f) PROVE IInv'
  BY <1>1, StartStep
<1>2. ASSUME NEW b \in Brains, ScriptStep(b) PROVE IInv'
  BY <1>2, GuardStep, ResolveStep, CleanDoneStep, GateStep, PollStep,
     CleanNodeStep, LaunchNodeStep DEF ScriptStep
<1>3. ASSUME NEW b \in Brains, Kill(b) PROVE IInv'
  BY <1>3, KillStep
<1> USE NodeFacts
<1>4. CASE BootUp
  <2>1. /\ container' \in [Nodes -> ContainerStates]
        /\ container[Head] = "loading" /\ container'[Head] = "serving"
    BY <1>4 DEF BootUp, IInv, TypeOK, ContainerStates
  <2> QED BY <1>4, <2>1, FleetStep DEF BootUp, IInv, TypeOK, HeadInv
<1>5. CASE Tick
  <2>1. age' \in 0 .. hour /\ age' >= age
    BY <1>5, LaunchAssumption DEF Tick, IInv, TypeOK
  <2> QED BY <1>5, <2>1, FleetStep DEF Tick, IInv, TypeOK, HeadInv
<1>6. ASSUME NEW n \in Nodes, Die(n) PROVE IInv'
  <2>1. /\ container' \in [Nodes -> ContainerStates]
        /\ container'[Head] = "loading" => container[Head] = "loading"
        /\ container[Head] = "none" => container'[Head] = "none"
    BY <1>6 DEF Die, IInv, TypeOK, ContainerStates, Running
  <2> QED BY <1>6, <2>1, FleetStep DEF Die, IInv, TypeOK, HeadInv
<1>7. ASSUME NEW n \in Nodes, Reclaim(n) PROVE IInv'
  <2>1. loads' \in [Nodes -> Nat] /\ \A m \in Nodes : loads'[m] <= loads[m]
    BY <1>7 DEF Reclaim, IInv, TypeOK
  <2> QED BY <1>7, <2>1, FleetStep DEF Reclaim, IInv, TypeOK, HeadInv
<1>8. ASSUME NEW n \in Workers, NodeDown(n) PROVE IInv'
  BY <1>8, FleetStep DEF NodeDown, IInv, TypeOK, HeadInv
<1>9. ASSUME NEW n \in Workers, NodeUp(n) PROVE IInv'
  <2>1. loads' \in [Nodes -> Nat] /\ \A m \in Nodes : loads'[m] <= loads[m]
    BY <1>9 DEF NodeUp, IInv, TypeOK
  <2>2. container' \in [Nodes -> ContainerStates] /\ container'[Head] = container[Head]
    BY <1>9 DEF NodeUp, Remove, IInv, TypeOK, ContainerStates
  <2> QED BY <1>9, <2>1, <2>2, FleetStep DEF NodeUp, IInv, TypeOK, HeadInv
<1>10. CASE UNCHANGED vars
  BY <1>10, FleetStep DEF vars, script, IInv, TypeOK, HeadInv
<1> QED BY <1>1, <1>2, <1>3, <1>4, <1>5, <1>6, <1>7, <1>8, <1>9, <1>10 DEF Next

-----------------------------------------------------------------------------
(* The loop counters of the script stay within their loops.                *)
THEOREM LaunchTypes == Spec => []TypeOK
<1>1. IInv => TypeOK
  BY DEF IInv
<1> QED BY <1>1, InitInv, NextInv, PTL DEF Spec

(* Whatever is killed, at most one wrapper, with the children it left, is  *)
(* at work on the nodes: flock on a descriptor that children inherit.      *)
THEOREM SingleFlightTheorem == Spec => []SingleFlight
<1>1. IInv => SingleFlight
  BY DEF IInv, LockInv, SingleFlight
<1> QED BY <1>1, InitInv, NextInv, PTL DEF Spec

(* No node is given a load before the memory of the last one is back: the  *)
(* memory gate, under the lock.                                            *)
THEOREM NoStackedTheorem == Spec => []NoStackedLoad
<1>1. IInv => NoStackedLoad
  BY DEF IInv
<1> QED BY <1>1, InitInv, NextInv, PTL DEF Spec

(* The container of the head is removed by a clean or by a docker run that *)
(* fails, and by nothing else.                                             *)
LEMMA HourStep ==
  ASSUME IInv, [Next]_vars, container[Head] = "loading", container'[Head] = "none"
  PROVE  age >= hour \/ \E b \in Brains : force[b] /\ attempt[b] = 1
<1> USE NodeFacts
<1>1. ASSUME NEW b \in Brains, NEW n \in Nodes, CleanNode(b, n)
      PROVE  age >= hour \/ (force[b] /\ attempt[b] = 1)
  <2>1. n = Head
    BY <1>1 DEF CleanNode, Remove, IInv, TypeOK
  <2>2. pc[b] = "clean" /\ Head \in todo[b]
    BY <1>1, <2>1 DEF CleanNode, IInv, HeadInv
  <2> QED BY <2>2 DEF IInv, GuardInv, MayRemove
<1>2. ASSUME NEW b \in Brains, NEW n \in Nodes, LaunchNode(b, n)
      PROVE  FALSE
  <2>1. n = Head
    BY <1>2 DEF LaunchNode, DockerRun, Remove, IInv, TypeOK
  <2>2. HeadCleaned(b)
    BY <1>2, <2>1 DEF LaunchNode, HeadCleaned, Launching
  <2> QED BY <2>2 DEF IInv, HeadInv
<1>3. ASSUME NEW b \in Brains, ScriptStep(b)
      PROVE  age >= hour \/ (force[b] /\ attempt[b] = 1)
  <2>1. CASE Guard(b) \/ Resolve(b) \/ CleanDone(b) \/ Gate(b) \/ Poll(b)
    BY <2>1 DEF Guard, Resolve, CleanDone, Gate, Poll, fleet
  <2> QED BY <1>1, <1>2, <1>3, <2>1 DEF ScriptStep
<1>4. ASSUME NEW b \in Brains, (\E f \in BOOLEAN : Start(b, f)) \/ Kill(b)
      PROVE  FALSE
  BY <1>4 DEF Start, Kill, fleet
<1>5. CASE BootUp \/ Tick
  BY <1>5 DEF BootUp, Tick
<1>6. ASSUME NEW n \in Nodes, Die(n) \/ Reclaim(n) PROVE FALSE
  BY <1>6 DEF Die, Reclaim, IInv, TypeOK
<1>7. ASSUME NEW n \in Workers, NodeDown(n) \/ NodeUp(n) PROVE FALSE
  BY <1>7 DEF NodeDown, NodeUp, Remove, IInv, TypeOK
<1>8. CASE UNCHANGED vars
  BY <1>8 DEF vars
<1> QED BY <1>3, <1>4, <1>5, <1>6, <1>7, <1>8 DEF Next

(* A head that is loading is removed only after its hour, or by the first  *)
(* pass of a wrapper that was forced: the guard, the length of the poll    *)
(* loop and the lock together.                                             *)
THEOREM BootHourTheorem == Spec => BootGetsItsHour
<1>1. IInv /\ [Next]_vars
        => [container[Head] = "loading" /\ container'[Head] = "none"
              => \/ age >= hour
                 \/ \E b \in Brains : force[b] /\ attempt[b] = 1]_vars
  BY HourStep
<1> QED BY <1>1, InitInv, NextInv, PTL DEF Spec, BootGetsItsHour
=============================================================================
