----------------------------- MODULE MCScheduler -----------------------------
(* Instances of Scheduler: prompt lengths by arrival order.                *)
EXTENDS Scheduler

ShortPrompts == <<2, 1, 1>>
LongPrompts  == <<3, 1, 3>>
PadPrompts   == <<1, 2, 1>>
EdgePrompts  == <<1, 3>>
=============================================================================
