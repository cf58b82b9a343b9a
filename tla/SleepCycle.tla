----------------------------- MODULE SleepCycle -----------------------------
(***************************************************************************)
(* What the suspend entry points promise together: one of them, and only   *)
(* one, handles each suspend before the machine sleeps, and each suspend   *)
(* that was handled is answered by one ON when the machine is back, before *)
(* the next is handled.                                                    *)
(***************************************************************************)

VARIABLES
    stage,      \* where the machine is
    handled,    \* how many times this suspend has been handled
    owed        \* whether an ON is owed for a suspend that was

cycle == <<stage, handled, owed>>

Init == stage = "awake" /\ handled = 0 /\ owed = FALSE

Prepare == stage = "awake" /\ stage' = "preparing" /\ handled' = 0 /\ UNCHANGED owed

Handle == /\ stage = "preparing" /\ handled = 0 /\ ~owed
          /\ handled' = 1 /\ owed' = TRUE /\ UNCHANGED stage

Sleep == stage = "preparing" /\ handled = 1 /\ stage' = "asleep" /\ UNCHANGED <<handled, owed>>

Wake == stage = "asleep" /\ stage' = "awake" /\ UNCHANGED <<handled, owed>>

Answer == /\ owed
          /\ \/ stage = "awake"
             \/ stage = "preparing" /\ handled = 0
          /\ owed' = FALSE /\ UNCHANGED <<stage, handled>>

Next == Prepare \/ Handle \/ Sleep \/ Wake \/ Answer

Spec == Init /\ [][Next]_cycle
=============================================================================
