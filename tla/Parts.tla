------------------------------- MODULE Parts --------------------------------
(***************************************************************************)
(* The parts of the program that have a module and no run of their own and *)
(* that neither share anything with one another nor are tasks of Main: the *)
(* threads tasks, the typing thread of the chat clients, and the ring of   *)
(* the chat server.  A behaviour is one of one part.                       *)
(***************************************************************************)
EXTENDS ThreadsTasks, InputRoutine, MessageRing

VARIABLE part

tasks_vars == <<task, vars, shops>>
parts_vars == <<part, tasks_vars, input_vars, ring_vars>>

-----------------------------------------------------------------------------
(* What a part might begin with is fixed in the behaviours of the others,  *)
(* so that nothing there is obliged to go on.                              *)
PartsInit ==
    /\ part \in {"threads_task", "input_routine", "message_ring"}
    /\ TasksInit /\ InputInit /\ RingInit
    /\ part # "threads_task" => task = "threads_task_1"
    /\ part # "input_routine" => ~locks

RunTasks == part = "threads_task" /\ TasksNext /\ UNCHANGED <<part, input_vars, ring_vars>>
RunInput == part = "input_routine" /\ InputNext /\ UNCHANGED <<part, tasks_vars, ring_vars>>
RunRing  == part = "message_ring" /\ RingNext /\ UNCHANGED <<part, tasks_vars, input_vars>>

PartsSpec == PartsInit /\ [][RunTasks \/ RunInput \/ RunRing]_parts_vars

(* What waits for others: its fairness is stated in its module.            *)
FairSpec ==
    /\ PartsSpec
    /\ WF_shops(task = "shop_task" /\ Shop!MainStep) /\ Shop!RoutinesFair
    /\ WF_input_vars(MainRuns) /\ WF_input_vars(TypingRuns)
=============================================================================
