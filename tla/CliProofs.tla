----------------------------- MODULE CliProofs -----------------------------
(***************************************************************************)
(* Proofs about the command, for every set of invocations, every budget    *)
(* and every way the TV's answers can fail.                                *)
(***************************************************************************)
EXTENDS CliHistory, TLAPS

-----------------------------------------------------------------------------
(* Types *)

Reply == [code: {0, 1, 2, 3, 102}, after: Television]

\* Each command answers 0, 1 or -102 and leaves a television.
LEMMA CommandsTyped ==
  ASSUME NEW t \in Television, NEW input
  PROVE  /\ DoPowerOff(t) \subseteq [code: {0}, after: Television]
         /\ DoScreenOff(t) \in [code: {0, 1}, after: Television]
         /\ DoScreenOn(t) \in [code: {0, 1, 102}, after: Television]
         /\ DoSetInput(t, input) \in [code: {0, 1, 102}, after: Television]
         /\ Done(0, t) \in [code: {0, 1, 102}, after: Television]
         /\ ReceiveWol(t) \in Television
<1>1. Settled(t, "Active Standby") \in Television
  BY DEF Settled, StandbyStates, Television
<1>2. DoPowerOff(t) \subseteq [code: {0}, after: Television]
  <2> SUFFICES ASSUME NEW done \in DoPowerOff(t)
               PROVE  done \in [code: {0}, after: Television]
    OBVIOUS
  <2>1. \/ done = Done(0, t)
        \/ done = Done(0, Settled(t, "Active Standby"))
    BY DEF DoPowerOff
  <2>2. ASSUME NEW after \in Television
        PROVE  Done(0, after) \in [code: {0}, after: Television]
    BY DEF Done
  <2> QED
    BY <1>1, <2>1, <2>2
<1> QED
  BY <1>2 DEF DoScreenOff, DoScreenOn, DoSetInput, Done, Settled, Awake, AwakeStates,
              StandbyStates, ReceiveWol, Television

\* tv_cmd answers with one of the program's codes, or with -102.
LEMMA TvCmdTyped ==
  ASSUME TvTypeOK, NEW done \in [code: {0, 1, 102}, after: Television],
         NEW reply \in TvCmd(done)
  PROVE  /\ reply \in Reply
         /\ done.code # 102 => reply.code # 102
BY FailAssumption DEF TvCmd, Reply, TvTypeOK, Done

\* What the television does by itself leaves a television.
LEMMA TvStepTyped == TvTypeOK /\ TvStep => TvTypeOK'
BY DEF TvTypeOK, TvStep, WakeDone, AppLayerReady, ScreenSaver, DeepStandby, AwakeTransition,
       RemoteOn, RemoteOff, RemoteWatch, RemoteInput, Television, Settled, Awake, AwakeStates,
       StandbyStates

\* The part of TypeOK that is about the invocations.
ProcOK ==
    /\ pc \in [Proc -> Labels]
    /\ attempt \in [Proc -> Nat]
    /\ misses \in [Proc -> Nat]
    /\ woke \in [Proc -> BOOLEAN]
    /\ exit \in [Proc -> Codes]
    /\ lock \in Proc \cup {Free}

\* Ending a run keeps the types of what belongs to the invocations.
LEMMA EndTyped ==
  ASSUME ProcOK, NEW p \in Proc, NEW code \in Codes, End(p, code)
  PROVE  ProcOK'
BY DEF ProcOK, End, Goto, Labels

\* So does going on to another label.
LEMMA ContinueTyped ==
  ASSUME ProcOK, NEW p \in Proc, NEW label \in Labels, Continue(p, label)
  PROVE  ProcOK'
BY DEF ProcOK, Continue, Goto, locals

\* Every step of a run keeps all types: one case per action.
LEMMA StepTyped ==
  ASSUME TypeOK, NEW p \in Proc, Step(p)
  PROVE  TypeOK'
<1> USE DEF TypeOK
<1>0. ProcOK /\ TvTypeOK /\ tv \in Television
  BY DEF ProcOK, TvTypeOK
<1>q. Query \subseteq {0, 1, 2, 3}
  BY <1>0, CommandsTyped, TvCmdTyped, FailAssumption DEF Query, TvCmd, Done
<1>l. ASSUME ProcOK', TvTypeOK', tvOff' \in BOOLEAN
      PROVE  TypeOK'
  BY <1>l DEF ProcOK
<1>1. CASE TakeLock(p)
  BY <1>0, <1>1, <1>l DEF TakeLock, ProcOK, Goto, locals, Labels, TvTypeOK
<1>2. CASE DropOn(p)
  BY <1>0, <1>2, <1>l, EndTyped DEF DropOn, Codes, TvTypeOK
<1>3. CASE RunUnlocked(p)
  BY <1>0, <1>3, <1>l, ContinueTyped DEF RunUnlocked, Labels, TvTypeOK
<1>4. CASE ClearFlag(p)
  BY <1>0, <1>4, <1>l, ContinueTyped DEF ClearFlag, Labels, TvTypeOK
<1>5. CASE SendWol(p)
  <2>1. TvTypeOK'
    BY <1>0, <1>5, CommandsTyped DEF SendWol, TvTypeOK
  <2>2. ProcOK'
    BY <1>0, <1>5, EndTyped, ContinueTyped DEF SendWol, Labels, Codes
  <2> QED
    BY <1>5, <1>l, <2>1, <2>2 DEF SendWol
<1>6. CASE PollMissed(p)
  BY <1>0, <1>6, <1>l DEF PollMissed, ProcOK, CountTry, DownAfter, Goto, Labels, TvTypeOK
<1>7. CASE PollTransition(p)
  <2>1. ProcOK'
    <3>1. CASE LastTry(attempt[p] + 1)
      BY <1>0, <1>7, <3>1, EndTyped DEF PollTransition, Codes
    <3>2. CASE ~LastTry(attempt[p] + 1)
      <4>1. woke' \in [Proc -> BOOLEAN]
        BY <1>0, <1>7, <3>2 DEF PollTransition, ProcOK, OursWhenMidTransition
      <4>2. attempt' \in [Proc -> Nat] /\ misses' \in [Proc -> Nat]
        BY <1>0, <1>7, <3>2 DEF PollTransition, ProcOK, CountTry
      <4> QED
        BY <1>0, <1>7, <3>2, <4>1, <4>2 DEF PollTransition, ProcOK
    <3> QED
      BY <3>1, <3>2
  <2> QED
    BY <1>0, <1>7, <1>l, <2>1 DEF PollTransition, TvTypeOK
<1>8. CASE PollStandby(p)
  BY <1>0, <1>8, <1>l DEF PollStandby, ProcOK, CountTry, Goto, Labels, TvTypeOK
<1>9. CASE PollAwake(p)
  BY <1>0, <1>9, <1>l DEF PollAwake, ProcOK, CountTry, Goto, Labels, TvTypeOK
<1>10. CASE TurnScreenOn(p)
  <2> PICK reply \in TvCmd(DoScreenOn(tv)) :
        /\ tv' = reply.after
        /\ IF ScreenIsOn(reply.code)
           THEN IF TakesInput(p)
                THEN /\ Goto(p, "input")
                     /\ attempt' = [attempt EXCEPT ![p] = 0]
                     /\ UNCHANGED <<misses, woke, exit, lock>>
                ELSE End(p, 0)
           ELSE IF LastTry(attempt[p]) THEN End(p, reply.code) ELSE Continue(p, "poll")
    BY <1>10 DEF TurnScreenOn
  <2>1. reply \in Reply
    BY <1>0, CommandsTyped, TvCmdTyped
  <2>2. TvTypeOK'
    BY <2>1 DEF Reply, TvTypeOK
  <2>3. CASE ScreenIsOn(reply.code) /\ TakesInput(p)
    BY <1>0, <1>10, <1>l, <2>2, <2>3 DEF TurnScreenOn, ProcOK, Goto, Labels
  <2>4. CASE ScreenIsOn(reply.code) /\ ~TakesInput(p)
    BY <1>0, <1>10, <1>l, <2>2, <2>4, EndTyped DEF TurnScreenOn, Codes
  <2>5. CASE ~ScreenIsOn(reply.code)
    <3>1. reply.code \in Codes
      BY <2>1, <2>5 DEF Reply, ScreenIsOn, Codes
    <3>2. ProcOK'
      BY <1>0, <2>5, <3>1, EndTyped, ContinueTyped DEF Labels
    <3> QED
      BY <1>10, <1>l, <2>2, <3>2 DEF TurnScreenOn
  <2> QED
    BY <2>3, <2>4, <2>5
<1>11. CASE SetInput(p)
  <2> PICK reply \in TvCmd(DoSetInput(tv, HdmiInput)) :
        /\ tv' = reply.after
        /\ IF reply.code = 0
           THEN End(p, 0)
           ELSE IF attempt[p] + 1 = SetInputAttempts
                THEN End(p, 1)
                ELSE CountTry(p) /\ UNCHANGED <<pc, misses, woke, exit, lock>>
    BY <1>11 DEF SetInput
  <2>1. TvTypeOK'
    BY <1>0, CommandsTyped, TvCmdTyped DEF Reply, TvTypeOK
  <2>2. CASE End(p, 0) \/ End(p, 1)
    BY <1>0, <1>11, <1>l, <2>1, <2>2, EndTyped DEF SetInput, Codes
  <2>3. CASE CountTry(p) /\ UNCHANGED <<pc, misses, woke, exit, lock>>
    BY <1>0, <1>11, <1>l, <2>1, <2>3 DEF SetInput, CountTry, ProcOK
  <2> QED
    BY <2>2, <2>3
<1>12. CASE Gate(p)
  BY <1>0, <1>12, <1>l, EndTyped, ContinueTyped DEF Gate, Codes, Labels, TvTypeOK
<1>13. CASE GuardProceeds(p)
  <2>1. AfterGuard(p) \in Labels
    BY DEF AfterGuard, Labels
  <2> QED
    BY <1>0, <1>13, <1>l, <2>1, ContinueTyped DEF GuardProceeds, TvTypeOK
<1>14. CASE GuardUnreachable(p)
  BY <1>0, <1>14, <1>l, EndTyped DEF GuardUnreachable, Codes, TvTypeOK
<1>15. CASE GuardSkips(p)
  BY <1>0, <1>15, <1>l, EndTyped DEF GuardSkips, Codes, TvTypeOK
<1>16. CASE PowerOff(p)
  <2> PICK done \in DoPowerOff(tv) : \E reply \in TvCmd(done) :
        /\ tv' = reply.after
        /\ IF reply.code = 0 THEN Continue(p, "touch") ELSE End(p, reply.code)
    BY <1>16 DEF PowerOff
  <2> PICK reply \in TvCmd(done) :
        /\ tv' = reply.after
        /\ IF reply.code = 0 THEN Continue(p, "touch") ELSE End(p, reply.code)
    OBVIOUS
  <2>1. done \in [code: {0, 1, 102}, after: Television] /\ done.code # 102
    BY <1>0, CommandsTyped
  <2>2. TvTypeOK' /\ reply.code \in Codes
    BY <1>0, <2>1, TvCmdTyped DEF Reply, TvTypeOK, Codes
  <2>3. ProcOK'
    BY <1>0, <2>2, EndTyped, ContinueTyped DEF Labels
  <2> QED
    BY <1>16, <1>l, <2>2, <2>3 DEF PowerOff
<1>17. CASE TouchFlag(p)
  BY <1>0, <1>17, <1>l, EndTyped DEF TouchFlag, Codes, TvTypeOK
<1>18. CASE TurnScreenOff(p)
  <2> PICK reply \in TvCmd(DoScreenOff(tv)) : tv' = reply.after /\ End(p, reply.code)
    BY <1>18 DEF TurnScreenOff
  <2>1. DoScreenOff(tv).code # 102
    BY <1>0, CommandsTyped
  <2>2. TvTypeOK' /\ reply.code \in Codes
    BY <1>0, <2>1, CommandsTyped, TvCmdTyped DEF Reply, TvTypeOK, Codes
  <2> QED
    BY <1>0, <1>18, <1>l, <2>2, EndTyped DEF TurnScreenOff
<1>19. CASE ReportStatus(p)
  BY <1>0, <1>19, <1>l, <1>q, EndTyped DEF ReportStatus, Codes, TvTypeOK
<1> QED
  BY <1>1, <1>2, <1>3, <1>4, <1>5, <1>6, <1>7, <1>8, <1>9, <1>10, <1>11, <1>12, <1>13, <1>14,
     <1>15, <1>16, <1>17, <1>18, <1>19 DEF Step

\* A run that hangs keeps all types.
LEMMA HangTyped ==
  ASSUME TypeOK, NEW p \in Proc, Hang(p)
  PROVE  TypeOK'
<1>0. ProcOK /\ tv \in Television
  BY DEF TypeOK, ProcOK, TvTypeOK
<1>1. Taken(p) \in Television
  BY <1>0, CommandsTyped DEF Taken
<1>2. ProcOK'
  BY <1>0, ContinueTyped DEF Hang, Labels
<1> QED
  BY <1>0, <1>1, <1>2 DEF Hang, TypeOK, ProcOK, TvTypeOK

\* A run begins at the first label of its command.
LEMMA FirstLabelTyped == \A p \in Proc : FirstLabel(p) \in {"lock", "gate", "guard", "status"}
BY CommandAssumption DEF FirstLabel, Proc

\* The variables keep their types: every state of every run is one the
\* program's data can be in.
THEOREM TypeCorrect == Spec => []TypeOK
<1>1. Init => TypeOK
  <2> SUFFICES ASSUME Init PROVE TypeOK
    OBVIOUS
  <2>1. tv \in Television
    BY DEF Init, TvInit, Television
  <2>2. ProcOK
    BY DEF Init, CliInit, ProcOK, Labels, Codes, NotRun
  <2> QED
    BY <2>1, <2>2 DEF Init, CliInit, TypeOK, ProcOK, TvTypeOK
<1>2. TypeOK /\ [Next]_vars => TypeOK'
  <2> SUFFICES ASSUME TypeOK, [Next]_vars PROVE TypeOK'
    OBVIOUS
  <2>0. ProcOK
    BY DEF TypeOK, ProcOK
  <2>1. ASSUME NEW p \in Proc, Start(p) PROVE TypeOK'
    <3>1. FirstLabel(p) \in Labels
      BY FirstLabelTyped DEF Labels
    <3>2. ProcOK'
      BY <2>0, <2>1, <3>1, ContinueTyped DEF Start
    <3> QED
      BY <2>1, <3>2 DEF Start, TypeOK, ProcOK, TvTypeOK
  <2>2. ASSUME NEW p \in Proc, Kill(p) PROVE TypeOK'
    <3>1. ProcOK'
      BY <2>0, <2>2, EndTyped DEF Kill, Codes
    <3> QED
      BY <2>2, <3>1 DEF Kill, TypeOK, ProcOK, TvTypeOK
  <2>3. ASSUME NEW p \in Proc, Reap(p) PROVE TypeOK'
    BY <2>3 DEF Reap, Goto, locals, TypeOK, TvTypeOK, Labels, Codes
  <2>4. CASE TvStep /\ UNCHANGED cliVars
    BY <2>4, TvStepTyped DEF TypeOK, cliVars
  <2>5. CASE UNCHANGED vars
    BY <2>5 DEF vars, cliVars, TypeOK, TvTypeOK
  <2> QED
    BY <2>1, <2>2, <2>3, <2>4, <2>5, StepTyped, HangTyped DEF Next
<1> QED
  BY <1>1, <1>2, PTL DEF Spec

-----------------------------------------------------------------------------
(* The budgets.  BudgetKept needs the runs that have not polled yet to have
   counted nothing. *)

Fresh == \A p \in Proc :
    pc[p] \in {"idle", "exited", "lock", "clear"} =>
        attempt[p] = 0 /\ misses[p] = 0 /\ woke[p] = FALSE

\* A run that has not polled yet has its counters at zero, and keeps them so.
LEMMA FreshStep == TypeOK /\ Fresh /\ [Next]_vars => Fresh'
<1> SUFFICES ASSUME TypeOK, Fresh, [Next]_vars PROVE Fresh'
  OBVIOUS
<1> USE DEF Fresh, TypeOK
<1>1. ASSUME NEW p \in Proc, Start(p) \/ Hang(p) \/ Kill(p) \/ Reap(p) PROVE Fresh'
  BY <1>1 DEF Start, Hang, Requests, Kill, Reap, End, Continue, Goto, locals
<1>2. ASSUME NEW p \in Proc, Step(p) PROVE Fresh'
  <2>1. CASE TakeLock(p) \/ DropOn(p) \/ RunUnlocked(p) \/ ClearFlag(p)
    BY <2>1 DEF TakeLock, DropOn, RunUnlocked, ClearFlag, End, Continue, Goto, locals
  <2>2. CASE SendWol(p)
    BY <2>2 DEF SendWol, End, Continue, Goto, locals
  <2>3. CASE PollMissed(p) \/ PollStandby(p) \/ PollAwake(p)
    BY <2>3 DEF PollMissed, PollStandby, PollAwake, CountTry, Goto, locals
  <2>4. CASE PollTransition(p)
    BY <2>4 DEF PollTransition, CountTry, End, Goto, locals
  <2>5. CASE TurnScreenOn(p)
    BY <2>5 DEF TurnScreenOn, End, Continue, Goto, locals
  <2>6. CASE SetInput(p)
    BY <2>6 DEF SetInput, CountTry, End, Goto, locals
  <2>7. CASE Gate(p) \/ GuardUnreachable(p) \/ GuardSkips(p) \/ TouchFlag(p)
    BY <2>7 DEF Gate, GuardUnreachable, GuardSkips, TouchFlag, End, Continue, Goto, locals
  <2>8. CASE GuardProceeds(p)
    BY <2>8 DEF GuardProceeds, AfterGuard, Continue, Goto, locals
  <2>9. CASE PowerOff(p) \/ TurnScreenOff(p) \/ ReportStatus(p)
    BY <2>9 DEF PowerOff, TurnScreenOff, ReportStatus, End, Continue, Goto, locals
  <2> QED
    BY <1>2, <2>1, <2>2, <2>3, <2>4, <2>5, <2>6, <2>7, <2>8, <2>9 DEF Step
<1>3. CASE (TvStep /\ UNCHANGED cliVars) \/ UNCHANGED vars
  BY <1>3 DEF vars, cliVars
<1> QED
  BY <1>1, <1>2, <1>3 DEF Next

\* No step of the two loops of ON oversteps its budget.
LEMMA BudgetStep == TypeOK /\ Fresh /\ BudgetKept /\ [Next]_vars => BudgetKept'
<1> SUFFICES ASSUME TypeOK, Fresh, BudgetKept, [Next]_vars PROVE BudgetKept'
  OBVIOUS
<1> USE BudgetAssumption DEF Fresh, TypeOK, BudgetKept
<1>1. ASSUME NEW p \in Proc, Start(p) PROVE BudgetKept'
  BY <1>1, FirstLabelTyped DEF Start, Continue, Goto, locals
<1>2. ASSUME NEW p \in Proc, Hang(p) \/ Kill(p) \/ Reap(p) PROVE BudgetKept'
  BY <1>2 DEF Hang, Kill, Reap, End, Continue, Goto, locals
<1>3. ASSUME NEW p \in Proc, Step(p) PROVE BudgetKept'
  <2>1. CASE TakeLock(p) \/ DropOn(p) \/ RunUnlocked(p) \/ ClearFlag(p)
    BY <2>1 DEF TakeLock, DropOn, RunUnlocked, ClearFlag, End, Continue, Goto, locals
  <2>2. CASE SendWol(p)
    BY <2>2 DEF SendWol, LastTry, End, Continue, Goto, locals
  <2>3. CASE PollMissed(p) \/ PollStandby(p) \/ PollAwake(p)
    BY <2>3 DEF PollMissed, PollStandby, PollAwake, CountTry, Goto, locals
  <2>4. CASE PollTransition(p)
    BY <2>4 DEF PollTransition, LastTry, CountTry, End, Goto, locals
  <2>5. CASE TurnScreenOn(p)
    BY <2>5 DEF TurnScreenOn, LastTry, End, Continue, Goto, locals
  <2>6. CASE SetInput(p)
    BY <2>6 DEF SetInput, CountTry, End, Goto, locals
  <2>7. CASE Gate(p) \/ GuardUnreachable(p) \/ GuardSkips(p) \/ TouchFlag(p)
    BY <2>7 DEF Gate, GuardUnreachable, GuardSkips, TouchFlag, End, Continue, Goto, locals
  <2>8. CASE GuardProceeds(p)
    BY <2>8 DEF GuardProceeds, AfterGuard, Continue, Goto, locals
  <2>9. CASE PowerOff(p) \/ TurnScreenOff(p) \/ ReportStatus(p)
    BY <2>9 DEF PowerOff, TurnScreenOff, ReportStatus, End, Continue, Goto, locals
  <2> QED
    BY <1>3, <2>1, <2>2, <2>3, <2>4, <2>5, <2>6, <2>7, <2>8, <2>9 DEF Step
<1>4. CASE (TvStep /\ UNCHANGED cliVars) \/ UNCHANGED vars
  BY <1>4 DEF vars, cliVars
<1> QED
  BY <1>1, <1>2, <1>3, <1>4 DEF Next

\* No ON ever polls or tries its input more often than its budget allows,
\* whichever way each poll went.
THEOREM BudgetSafe == Spec => []BudgetKept
<1>1. Init => Fresh /\ BudgetKept
  BY DEF Init, CliInit, Fresh, BudgetKept
<1>2. TypeOK /\ Fresh /\ BudgetKept /\ [Next]_vars => (Fresh /\ BudgetKept)'
  BY FreshStep, BudgetStep
<1> QED
  BY <1>1, <1>2, TypeCorrect, PTL DEF Spec

-----------------------------------------------------------------------------
(* The lock.  Every root ON past the lock is the one who holds it. *)

HoldsLock == \A p \in On \cap Root : Running(p) /\ pc[p] # "lock" => lock = p

\* A root ON past the lock holds it, until it ends and frees it.
LEMMA HoldsLockStep == TypeOK /\ HoldsLock /\ [Next]_vars => HoldsLock'
<1> SUFFICES ASSUME TypeOK, HoldsLock, [Next]_vars PROVE HoldsLock'
  OBVIOUS
<1> USE RootAssumption DEF HoldsLock, TypeOK, Running
<1>p. On \cap Root \subseteq Proc
  BY DEF Proc
<1>e. ASSUME NEW p \in Proc, NEW code, End(p, code) PROVE HoldsLock'
  BY <1>e, <1>p DEF End, Goto
<1>c. ASSUME NEW p \in Proc, Running(p), pc[p] # "lock" \/ p \notin Root,
             NEW label, Goto(p, label), UNCHANGED lock
      PROVE  HoldsLock'
  BY <1>c, <1>p DEF Goto
<1>1. ASSUME NEW p \in Proc, Start(p) PROVE HoldsLock'
  <2>1. p \in On => FirstLabel(p) = "lock"
    BY CommandAssumption DEF FirstLabel
  <2> QED
    BY <1>1, <1>p, <2>1 DEF Start, Continue, Goto
<1>2. ASSUME NEW p \in Proc, Hang(p) \/ Kill(p) PROVE HoldsLock'
  BY <1>2, <1>e, <1>c DEF Hang, Requests, Continue, Kill
<1>3. ASSUME NEW p \in Proc, Reap(p) PROVE HoldsLock'
  BY <1>3, <1>p DEF Reap, Goto
<1>4. ASSUME NEW p \in Proc, Step(p) PROVE HoldsLock'
  <2>1. CASE TakeLock(p)
    BY <2>1, <1>p DEF TakeLock, Goto
  <2>2. CASE DropOn(p)
    BY <2>2, <1>e DEF DropOn
  <2>3. CASE RunUnlocked(p) \/ ClearFlag(p)
    BY <2>3, <1>c DEF RunUnlocked, ClearFlag, Continue
  <2>4. CASE SendWol(p)
    BY <2>4, <1>e, <1>c DEF SendWol, Continue
  <2>5. CASE PollMissed(p) \/ PollStandby(p) \/ PollAwake(p)
    BY <2>5, <1>c DEF PollMissed, PollStandby, PollAwake
  <2>6. CASE PollTransition(p)
    BY <2>6, <1>e DEF PollTransition
  <2>7. CASE TurnScreenOn(p)
    <3>1. \/ Goto(p, "input") /\ UNCHANGED lock
          \/ \E code : End(p, code)
          \/ Continue(p, "poll")
      BY <2>7 DEF TurnScreenOn
    <3> QED
      BY <2>7, <3>1, <1>e, <1>c DEF TurnScreenOn, Continue
  <2>8. CASE SetInput(p)
    BY <2>8, <1>e DEF SetInput
  <2>9. CASE Gate(p) \/ GuardProceeds(p) \/ GuardUnreachable(p) \/ GuardSkips(p)
    BY <2>9, <1>e, <1>c DEF Gate, GuardProceeds, GuardUnreachable, GuardSkips, Continue
  <2>10. CASE PowerOff(p)
    BY <2>10, <1>e, <1>c DEF PowerOff, Continue
  <2>11. CASE TouchFlag(p) \/ TurnScreenOff(p) \/ ReportStatus(p)
    BY <2>11, <1>e DEF TouchFlag, TurnScreenOff, ReportStatus
  <2> QED
    BY <1>4, <2>1, <2>2, <2>3, <2>4, <2>5, <2>6, <2>7, <2>8, <2>9, <2>10, <2>11 DEF Step
<1>5. CASE (TvStep /\ UNCHANGED cliVars) \/ UNCHANGED vars
  BY <1>5 DEF vars, cliVars
<1> QED
  BY <1>1, <1>2, <1>3, <1>4, <1>5 DEF Next

\* Two root ONs never drive the TV at once.
THEOREM LockSafe == Spec => []OneLockedOn
<1>1. Init => HoldsLock
  BY DEF Init, CliInit, HoldsLock, Running, Proc
<1>2. HoldsLock => OneLockedOn
  BY DEF HoldsLock, OneLockedOn
<1> QED
  BY <1>1, <1>2, HoldsLockStep, TypeCorrect, PTL DEF Spec

-----------------------------------------------------------------------------
(* The properties that relate a decision of the command to what the TV
   really did. *)

\* The history variable restricts nothing: each behaviour is one of Cli.
LEMMA HistoryRefinesCli == HSpec => Spec
<1>1. HInit => Init
  BY DEF HInit
<1>2. [HNext]_hvars => [Next]_vars
  BY DEF HNext, hvars
<1> QED
  BY <1>1, <1>2, PTL DEF HSpec, Spec

\* Every step keeps the type of the history.
LEMMA SeenStep == TypeOK /\ TypeOK' /\ seen \in [Proc -> Glimpse] /\ [HNext]_hvars
                  => (seen \in [Proc -> Glimpse])'
<1> SUFFICES ASSUME TypeOK, TypeOK', seen \in [Proc -> Glimpse], HNext
             PROVE  (seen \in [Proc -> Glimpse])'
  BY DEF hvars
<1>1. ASSUME NEW p \in Proc PROVE Update(p) \in Glimpse
  BY DEF Update, Glimpse, Nothing, Missed, Awake, Running
<1> QED
  BY <1>1 DEF HNext

\* Types, of the program and of the history.
LEMMA HTypeCorrect == HSpec => [](TypeOK /\ seen \in [Proc -> Glimpse])
<1>1. HInit => seen \in [Proc -> Glimpse]
  BY DEF HInit, Glimpse, Nothing
<1> QED
  BY <1>1, SeenStep, HistoryRefinesCli, TypeCorrect, PTL DEF HSpec

\* What a run has seen stays seen until it ends.
LEMMA Monotone ==
  ASSUME seen \in [Proc -> Glimpse], HNext, NEW q \in Proc,
         pc'[q] \notin {"idle", "exited", "lock"}
  PROVE  /\ seen[q].slept \/ ~Awake(tv') => seen'[q].slept
         /\ seen[q].blind => seen'[q].blind
         /\ seen[q].ours \/ tv'.app = HdmiInput => seen'[q].ours
         /\ attempt'[q] = attempt[q] => seen'[q].dark = seen[q].dark
         /\ attempt'[q] # attempt[q] => seen'[q].dark = (Missed(q) /\ Awake(tv))
         /\ Missed(q) /\ Awake(tv) /\ seen[q].dark => seen'[q].blind
         /\ pc[q] # "clear" /\ seen[q].hinted => seen'[q].hinted
         /\ ~tvOff /\ tvOff' => seen'[q].hinted
<1>1. seen'[q] = Update(q)
  BY DEF HNext
<1>2. /\ seen'[q].slept = (seen[q].slept \/ ~Awake(tv'))
      /\ seen'[q].ours = (seen[q].ours \/ tv'.app = HdmiInput)
      /\ seen'[q].dark = IF attempt'[q] = attempt[q] THEN seen[q].dark ELSE Missed(q) /\ Awake(tv)
      /\ seen'[q].blind = (seen[q].blind \/ (Missed(q) /\ Awake(tv) /\ seen[q].dark))
      /\ seen'[q].hinted = ((pc[q] # "clear" /\ seen[q].hinted) \/ (~tvOff /\ tvOff'))
  BY <1>1 DEF Update
<1> QED
  BY <1>2

-----------------------------------------------------------------------------
(* The shared TV.  The input is taken only by an ON whose woke is TRUE, and
   woke is TRUE only after the TV was seen asleep or two misses in a row: the
   invariant says what each count of misses stands for. *)

Waking == {"wol", "poll", "screenOn"}

WokeEarned(q) ==
    /\ pc[q] \in Waking /\ misses[q] > 0 => seen[q].slept \/ seen[q].dark
    /\ pc[q] \in Waking /\ misses[q] > 1 => seen[q].slept \/ seen[q].blind
    /\ pc[q] \in Waking \cup {"input"} /\ woke[q] => seen[q].slept \/ seen[q].blind
    /\ pc[q] = "input" /\ Shared => woke[q]

\* A step that leaves the counters of q alone keeps what they stand for.
LEMMA WokeFrame ==
  ASSUME TypeOK, seen \in [Proc -> Glimpse], HNext, NEW q \in Proc, WokeEarned(q),
         pc'[q] = pc[q] \/ (pc[q] \in Waking /\ pc'[q] \in Waking),
         attempt'[q] = attempt[q], misses'[q] = misses[q], woke'[q] = woke[q]
  PROVE  WokeEarned(q)'
<1>1. CASE pc'[q] \notin Waking \cup {"input"}
  BY <1>1 DEF WokeEarned, Waking
<1>2. CASE pc'[q] \in Waking \cup {"input"}
  <2>1. pc'[q] \notin {"idle", "exited", "lock"}
    BY <1>2 DEF Waking
  <2>2. /\ seen[q].slept => seen'[q].slept
        /\ seen[q].blind => seen'[q].blind
        /\ seen[q].dark => seen'[q].dark
    BY <2>1, Monotone
  <2>3. pc[q] \in Waking \/ (pc[q] = "input" /\ pc'[q] = "input")
    BY <1>2
  <2>4. pc[q] = "input" <=> pc'[q] = "input"
    BY <2>3 DEF Waking
  <2> QED
    BY <2>2, <2>3, <2>4 DEF WokeEarned
<1> QED
  BY <1>1, <1>2

\* woke_from_standby and the miss counter mean what they stand for, step by step.
LEMMA WokeStep ==
  ASSUME TypeOK, Fresh, seen \in [Proc -> Glimpse], HNext,
         NEW p \in Proc, Step(p), WokeEarned(p)
  PROVE  WokeEarned(p)'
<1> USE DEF TypeOK
<1>e. ASSUME pc'[p] \notin Waking \cup {"input"} PROVE WokeEarned(p)'
  BY <1>e DEF WokeEarned, Waking
<1>end. ASSUME NEW code, End(p, code) PROVE WokeEarned(p)'
  BY <1>end, <1>e DEF End, Goto, Waking
<1>1. CASE TakeLock(p) \/ RunUnlocked(p)
  BY <1>1, <1>e DEF TakeLock, RunUnlocked, Continue, Goto, Waking
<1>2. CASE DropOn(p) \/ GuardUnreachable(p) \/ GuardSkips(p) \/ TouchFlag(p)
           \/ TurnScreenOff(p) \/ ReportStatus(p)
  BY <1>2, <1>end DEF DropOn, GuardUnreachable, GuardSkips, TouchFlag, TurnScreenOff, ReportStatus
<1>3. CASE ClearFlag(p)
  BY <1>3 DEF ClearFlag, Fresh, Continue, Goto, locals, WokeEarned
<1>4. CASE SendWol(p)
  <2>1. CASE Continue(p, "poll")
    BY <1>4, <2>1, WokeFrame DEF SendWol, Continue, Goto, locals, Waking
  <2> QED
    BY <1>4, <2>1, <1>end DEF SendWol
<1>5. CASE PollMissed(p)
  <2>1. /\ pc[p] = "poll" /\ pc'[p] = "wol" /\ tv' = tv
        /\ attempt'[p] = attempt[p] + 1 /\ misses'[p] = misses[p] + 1
        /\ woke'[p] = (woke[p] \/ misses[p] + 1 > 1)
    BY <1>5 DEF PollMissed, CountTry, DownAfter, Goto
  <2>2. /\ ~Awake(tv) => seen'[p].slept
        /\ seen[p].slept => seen'[p].slept
        /\ seen[p].blind => seen'[p].blind
        /\ Awake(tv) => seen'[p].dark
        /\ Awake(tv) /\ seen[p].dark => seen'[p].blind
    <3>1. Missed(p) /\ attempt'[p] # attempt[p]
      BY <2>1 DEF Missed
    <3> QED
      BY <2>1, <3>1, Monotone
  <2> QED
    BY <2>1, <2>2 DEF WokeEarned, Waking
<1>6. CASE PollTransition(p)
  <2>1. CASE LastTry(attempt[p] + 1)
    BY <1>6, <2>1, <1>end DEF PollTransition
  <2>2. CASE ~LastTry(attempt[p] + 1)
    <3>1. /\ pc[p] = "poll" /\ pc'[p] = "poll" /\ tv' = tv /\ misses'[p] = 0
          /\ woke'[p] = (woke[p] \/ ~Awake(tv))
      BY <1>6, <2>2 DEF PollTransition, OursWhenMidTransition
    <3>2. /\ seen[p].slept \/ ~Awake(tv) => seen'[p].slept
          /\ seen[p].blind => seen'[p].blind
      BY <3>1, Monotone
    <3> QED
      BY <3>1, <3>2 DEF WokeEarned, Waking
  <2> QED
    BY <2>1, <2>2
<1>7. CASE PollStandby(p)
  <2>1. pc'[p] = "wol" /\ tv' = tv /\ ~Awake(tv)
    BY <1>7 DEF PollStandby, Goto
  <2>2. seen'[p].slept
    BY <2>1, Monotone
  <2> QED
    BY <2>1, <2>2 DEF WokeEarned
<1>8. CASE PollAwake(p)
  <2>1. /\ pc[p] = "poll" /\ pc'[p] = "screenOn" /\ misses'[p] = 0 /\ woke'[p] = woke[p]
    BY <1>8 DEF PollAwake, Goto
  <2>2. /\ seen[p].slept => seen'[p].slept
        /\ seen[p].blind => seen'[p].blind
    BY <2>1, Monotone
  <2> QED
    BY <2>1, <2>2 DEF WokeEarned, Waking
<1>9. CASE TurnScreenOn(p)
  <2>1. \/ TakesInput(p) /\ Goto(p, "input") /\ UNCHANGED <<misses, woke>>
        \/ \E code : End(p, code)
        \/ Continue(p, "poll")
    BY <1>9 DEF TurnScreenOn
  <2>2. CASE TakesInput(p) /\ Goto(p, "input") /\ UNCHANGED <<misses, woke>>
    <3>1. /\ pc[p] = "screenOn" /\ pc'[p] = "input" /\ woke'[p] = woke[p]
          /\ Shared => woke[p]
      BY <1>9, <2>2 DEF TurnScreenOn, Goto, TakesInput
    <3>2. /\ seen[p].slept => seen'[p].slept
          /\ seen[p].blind => seen'[p].blind
      BY <3>1, Monotone
    <3> QED
      BY <3>1, <3>2 DEF WokeEarned, Waking
  <2>3. CASE Continue(p, "poll")
    BY <1>9, <2>3, WokeFrame DEF TurnScreenOn, Continue, Goto, locals, Waking
  <2> QED
    BY <2>1, <2>2, <2>3, <1>end
<1>10. CASE SetInput(p)
  <2>1. (\E code : End(p, code)) \/ UNCHANGED <<pc, misses, woke>>
    BY <1>10 DEF SetInput
  <2>2. CASE UNCHANGED <<pc, misses, woke>>
    <3>1. pc'[p] = "input" /\ pc[p] = "input" /\ woke'[p] = woke[p]
      BY <1>10, <2>2 DEF SetInput
    <3>2. /\ seen[p].slept => seen'[p].slept
          /\ seen[p].blind => seen'[p].blind
      BY <3>1, Monotone
    <3> QED
      BY <3>1, <3>2 DEF WokeEarned, Waking
  <2> QED
    BY <2>1, <2>2, <1>end
<1>11. CASE Gate(p)
  BY <1>11, <1>end, <1>e DEF Gate, Continue, Goto, Waking
<1>12. CASE GuardProceeds(p)
  BY <1>12, <1>e DEF GuardProceeds, AfterGuard, Continue, Goto, Waking
<1>13. CASE PowerOff(p)
  BY <1>13, <1>end, <1>e DEF PowerOff, Continue, Goto, Waking
<1> QED
  BY <1>1, <1>2, <1>3, <1>4, <1>5, <1>6, <1>7, <1>8, <1>9, <1>10, <1>11, <1>12, <1>13 DEF Step

\* A step of one invocation leaves the variables of another alone.
Same(q) == pc'[q] = pc[q] /\ attempt'[q] = attempt[q] /\ misses'[q] = misses[q]
           /\ woke'[q] = woke[q] /\ exit'[q] = exit[q]

LEMMA StepFrame ==
  ASSUME TypeOK, NEW p \in Proc, NEW q \in Proc, p # q,
         Start(p) \/ Step(p) \/ Hang(p) \/ Kill(p) \/ Reap(p)
  PROVE  Same(q)
<1>e. ASSUME NEW code, End(p, code) PROVE Same(q)
  BY <1>e DEF TypeOK, End, Goto, Same
<1>c. ASSUME NEW label, Continue(p, label) PROVE Same(q)
  BY <1>c DEF TypeOK, Continue, Goto, locals, Same
<1>1. CASE Start(p) \/ Hang(p) \/ Kill(p)
  BY <1>1, <1>e, <1>c DEF Start, Hang, Kill
<1>2. CASE DropOn(p) \/ RunUnlocked(p) \/ ClearFlag(p) \/ SendWol(p)
  BY <1>2, <1>e, <1>c DEF DropOn, RunUnlocked, ClearFlag, SendWol
<1>3. CASE Reap(p) \/ TakeLock(p) \/ PollMissed(p) \/ PollStandby(p) \/ PollAwake(p)
  BY <1>3 DEF TypeOK, Reap, TakeLock, PollMissed, PollStandby, PollAwake, CountTry, Goto, locals,
              Same
<1>4. CASE PollTransition(p)
  <2>1. CASE LastTry(attempt[p] + 1)
    BY <1>4, <1>e, <2>1 DEF PollTransition
  <2>2. CASE ~LastTry(attempt[p] + 1)
    BY <1>4, <2>2 DEF TypeOK, PollTransition, CountTry, Same
  <2> QED
    BY <2>1, <2>2
<1>5. CASE TurnScreenOn(p)
  <2>1. \/ \E code : End(p, code)
        \/ Continue(p, "poll")
        \/ /\ Goto(p, "input") /\ attempt' = [attempt EXCEPT ![p] = 0]
           /\ UNCHANGED <<misses, woke, exit>>
    BY <1>5 DEF TurnScreenOn
  <2> QED
    BY <2>1, <1>e, <1>c DEF TypeOK, Goto, Same
<1>6. CASE SetInput(p)
  <2>1. (\E code : End(p, code)) \/ (CountTry(p) /\ UNCHANGED <<pc, misses, woke, exit>>)
    BY <1>6 DEF SetInput
  <2> QED
    BY <2>1, <1>e DEF TypeOK, CountTry, Same
<1>7. CASE Gate(p) \/ GuardProceeds(p) \/ GuardUnreachable(p) \/ GuardSkips(p)
  BY <1>7, <1>e, <1>c DEF Gate, GuardProceeds, GuardUnreachable, GuardSkips
<1>8. CASE PowerOff(p) \/ TouchFlag(p) \/ TurnScreenOff(p) \/ ReportStatus(p)
  BY <1>8, <1>e, <1>c DEF PowerOff, TouchFlag, TurnScreenOff, ReportStatus
<1> QED
  BY <1>1, <1>2, <1>3, <1>4, <1>5, <1>6, <1>7, <1>8 DEF Step

WokeInv == \A p \in On : WokeEarned(p)

\* An ON switches the input of a shared TV only if the TV was asleep since the
\* ON began or two of its polls in a row failed while the TV was awake: one
\* lost poll, one odd answer or a transition of an awake TV never is enough.
THEOREM InputSafe == HSpec => []InputTakenOnlyFromSleeper
<1>1. HInit => Fresh /\ WokeInv
  BY DEF HInit, Init, CliInit, Fresh, WokeInv, WokeEarned, Waking, Proc
<1>2. TypeOK /\ Fresh /\ seen \in [Proc -> Glimpse] /\ WokeInv /\ [HNext]_hvars => WokeInv'
  <2> SUFFICES ASSUME TypeOK, Fresh, seen \in [Proc -> Glimpse], WokeInv, [HNext]_hvars,
                      NEW q \in On
               PROVE  WokeEarned(q)'
    BY DEF WokeInv
  <2>0. q \in Proc /\ WokeEarned(q)
    BY DEF Proc, WokeInv
  <2>1. CASE UNCHANGED hvars
    BY <2>0, <2>1 DEF hvars, vars, cliVars, WokeEarned
  <2>2. CASE HNext /\ TvStep /\ UNCHANGED cliVars
    BY <2>0, <2>2, WokeFrame DEF cliVars
  <2>3. ASSUME HNext, NEW p \in Proc, Start(p) \/ Step(p) \/ Hang(p) \/ Kill(p) \/ Reap(p)
        PROVE  WokeEarned(q)'
    <3>1. CASE p # q
      BY <2>0, <2>3, <3>1, StepFrame, WokeFrame DEF Same
    <3>2. CASE p = q /\ Step(p)
      BY <2>0, <2>3, <3>2, WokeStep
    <3>3. CASE p = q /\ ~Step(p)
      <4>1. pc'[p] \notin Waking \cup {"input"}
        BY <2>3, <3>3, FirstLabelTyped
           DEF Start, Hang, Kill, Reap, Continue, End, Goto, TypeOK, Waking
      <4> QED
        BY <3>3, <4>1 DEF WokeEarned
    <3> QED
      BY <3>1, <3>2, <3>3
  <2> QED
    BY <2>1, <2>2, <2>3 DEF HNext, Next
<1>3. WokeInv => InputTakenOnlyFromSleeper
  BY DEF WokeInv, WokeEarned, InputTakenOnlyFromSleeper
<1>4. [HNext]_hvars => [Next]_vars
  BY DEF HNext, hvars
<1> QED
  BY <1>1, <1>2, <1>3, <1>4, FreshStep, HTypeCorrect, PTL DEF HSpec

-----------------------------------------------------------------------------
(* OFF and SCREEN_OFF *)

\* When the TV answers whenever it can be reached, the guard lets an OFF of a
\* shared TV through only if the TV has shown our input since it began.
THEOREM OffSafe == HSpec => []OffOnlyOurPicture
<1> DEFINE Past(q) == pc[q] \in {"powerOff", "screenOff"}
<1>1. HInit => OffOnlyOurPicture
  BY DEF HInit, Init, CliInit, OffOnlyOurPicture, Proc
<1>2. TypeOK /\ seen \in [Proc -> Glimpse] /\ OffOnlyOurPicture /\ [HNext]_hvars
      => OffOnlyOurPicture'
  <2> SUFFICES ASSUME TypeOK, seen \in [Proc -> Glimpse], OffOnlyOurPicture, [HNext]_hvars,
                      NEW q \in Off \cup ScreenOff, Shared, FailCodes = {2}, Past(q)'
               PROVE  seen'[q].ours
    BY DEF OffOnlyOurPicture, Shared
  <2>0. q \in Proc /\ (Past(q) => seen[q].ours)
    BY DEF Proc, OffOnlyOurPicture
  <2>k. ASSUME HNext, Past(q) PROVE seen'[q].ours
    BY <2>0, <2>k, Monotone
  <2>1. CASE UNCHANGED hvars
    BY <2>0, <2>1 DEF hvars, vars, cliVars
  <2>2. CASE HNext /\ TvStep /\ UNCHANGED cliVars
    BY <2>2, <2>k DEF cliVars
  <2>3. ASSUME HNext, NEW p \in Proc, Start(p) \/ Step(p) \/ Hang(p) \/ Kill(p) \/ Reap(p)
        PROVE  seen'[q].ours
    <3>1. CASE p # q
      BY <2>0, <2>3, <2>k, <3>1, StepFrame DEF Same
    <3>2. CASE p = q /\ GuardProceeds(q)
      <4>1. Query \cap {1, 3} = {}
        BY DEF Query, TvCmd, Done
      <4>2. HdmiInput \in CurrentApps(tv) /\ HdmiInput # ""
        BY <3>2, <4>1, InputsAssumption DEF GuardProceeds, MayTurnOff, Shared
      <4>3. tv'.app = HdmiInput
        BY <3>2, <4>2 DEF CurrentApps, GuardProceeds
      <4> QED
        BY <2>0, <2>3, <4>3, Monotone
    <3>3. CASE p = q /\ ~GuardProceeds(q)
      <4>1. pc'[q] \notin {"powerOff", "screenOff"}
        BY <2>0, <2>3, <3>3, FirstLabelTyped, CommandAssumption
           DEF TypeOK, Start, Hang, Kill, Reap, Step, End, Continue, Goto,
               TakeLock, DropOn, RunUnlocked, ClearFlag, SendWol, PollMissed, PollTransition,
               PollStandby, PollAwake, TurnScreenOn, SetInput, Gate, GuardUnreachable,
               GuardSkips, PowerOff, TouchFlag, TurnScreenOff, ReportStatus
      <4> QED
        BY <4>1
    <3> QED
      BY <3>1, <3>2, <3>3
  <2> QED
    BY <2>1, <2>2, <2>3 DEF HNext, Next
<1> QED
  BY <1>1, <1>2, HTypeCorrect, PTL DEF HSpec

-----------------------------------------------------------------------------
(* The success of ON.  It turns the screen on only after a poll that found the
   TV awake, and takes -102 for "it is on" for that reason. *)

OnLabels == {"idle", "exited", "lock", "clear", "wol", "poll", "screenOn", "input", "hung"}

Lit(q) == seen[q].lit \/ seen[q].fell

LitOK(q) ==
    /\ pc[q] \in OnLabels
    /\ pc[q] # "exited" => exit[q] = NotRun
    /\ pc[q] = "screenOn" => Awake(tv) \/ seen[q].fell
    /\ pc[q] = "input" => Lit(q)

\* What makes the success of q honest at the step that ends it.
Honest(q) == \/ seen[q].lit \/ tv'.power = "Active"
             \/ seen[q].fell \/ (Awake(tv) /\ ~Awake(tv'))

\* An awake TV that answers 0 or -102 to turn_screen_on has its picture on.
LEMMA ScreenOnLights ==
  ASSUME tv \in Television, Awake(tv), NEW reply \in TvCmd(DoScreenOn(tv)), ScreenIsOn(reply.code)
  PROVE  reply.after.power = "Active"
<1>1. reply.code \in {0, 102}
  BY DEF ScreenIsOn
<1>2. reply = DoScreenOn(tv)
  <2>1. DoScreenOn(tv) \in [code: {0, 1, 102}, after: Television]
    BY CommandsTyped
  <2> QED
    BY <1>1, <2>1, FailAssumption DEF TvCmd, Done
<1> QED
  BY <1>2 DEF DoScreenOn, Done, Settled, Awake, AwakeStates, Television

\* A picture that was seen and a fall that was seen stay seen until the run ends.
LEMMA LitSeen ==
  ASSUME seen \in [Proc -> Glimpse], HNext, NEW q \in Proc,
         pc'[q] \notin {"idle", "exited", "lock"}
  PROVE  /\ seen[q].lit \/ tv'.power = "Active" => seen'[q].lit
         /\ seen[q].fell \/ (Running(q) /\ Awake(tv) /\ ~Awake(tv')) => seen'[q].fell
<1>1. seen'[q] = Update(q)
  BY DEF HNext
<1>2. /\ seen'[q].lit = (seen[q].lit \/ tv'.power = "Active")
      /\ seen'[q].fell = (seen[q].fell \/ (Running(q) /\ Awake(tv) /\ ~Awake(tv')))
  BY <1>1 DEF Update
<1> QED
  BY <1>2

\* Every step keeps what the labels of an ON stand for, and one that ends it with
\* success is honest.
LEMMA LitStep ==
  ASSUME TypeOK, seen \in [Proc -> Glimpse], HNext, NEW q \in On, LitOK(q)
  PROVE  /\ LitOK(q)'
         /\ Running(q) /\ pc[q] # "lock" /\ exit'[q] = 0 => Honest(q)
<1> DEFINE Goal == /\ LitOK(q)'
                   /\ Running(q) /\ pc[q] # "lock" /\ exit'[q] = 0 => Honest(q)
<1>0. q \in Proc /\ q \notin Off /\ q \notin ScreenOff /\ q \notin Status
  BY CommandAssumption DEF Proc
<1>1. ASSUME pc'[q] = pc[q], exit'[q] = exit[q]  PROVE Goal
  <2>1. Running(q) => exit'[q] # 0
    BY <1>1 DEF Running, LitOK, NotRun
  <2>2. CASE pc[q] \in {"screenOn", "input"}
    BY <1>0, <1>1, <2>1, <2>2, LitSeen DEF LitOK, Lit, Running
  <2>3. CASE pc[q] \notin {"screenOn", "input"}
    BY <1>1, <2>1, <2>3 DEF LitOK
  <2> QED
    BY <2>2, <2>3
<1>2. ASSUME NEW code, End(q, code), code = 0 => pc[q] = "lock" \/ Honest(q)  PROVE Goal
  BY <1>0, <1>2 DEF End, Goto, TypeOK, LitOK, OnLabels
<1>3. ASSUME NEW label \in OnLabels \ {"exited", "screenOn", "input"}, Goto(q, label),
             exit' = exit, pc[q] # "exited"
      PROVE  Goal
  BY <1>0, <1>3 DEF Goto, TypeOK, LitOK, NotRun
<1>4. ASSUME Step(q)  PROVE Goal
  <2>1. CASE TakeLock(q) \/ RunUnlocked(q) \/ ClearFlag(q)
    BY <1>3, <2>1 DEF TakeLock, RunUnlocked, ClearFlag, Continue, OnLabels
  <2>2. CASE DropOn(q)
    BY <1>2, <2>2 DEF DropOn
  <2>3. CASE SendWol(q)
    BY <1>2, <1>3, <2>3 DEF SendWol, Continue, OnLabels
  <2>4. CASE PollMissed(q) \/ PollStandby(q)
    BY <1>3, <2>4 DEF PollMissed, PollStandby, OnLabels
  <2>5. CASE PollTransition(q)
    BY <1>1, <1>2, <2>5 DEF PollTransition
  <2>6. CASE PollAwake(q)
    <3>1. pc'[q] = "screenOn" /\ exit'[q] = exit[q] /\ tv' = tv /\ Awake(tv) /\ pc[q] = "poll"
      BY <1>0, <2>6 DEF PollAwake, FoundAwake, Goto, TypeOK
    <3> QED
      BY <3>1 DEF LitOK, OnLabels, NotRun, Awake
  <2>7. CASE TurnScreenOn(q)
    <3>1. PICK reply \in TvCmd(DoScreenOn(tv)) :
            /\ tv' = reply.after
            /\ \/ /\ ScreenIsOn(reply.code)
                  /\ (Goto(q, "input") /\ UNCHANGED exit) \/ End(q, 0)
               \/ /\ ~ScreenIsOn(reply.code)
                  /\ End(q, reply.code) \/ Continue(q, "poll")
      BY <2>7 DEF TurnScreenOn
    <3>2. CASE ScreenIsOn(reply.code)
      <4>1. Awake(tv) => tv'.power = "Active"
        BY <3>1, <3>2, ScreenOnLights DEF TypeOK, TvTypeOK
      <4>2. pc[q] = "screenOn" /\ (Awake(tv) \/ seen[q].fell)
        BY <2>7 DEF TurnScreenOn, LitOK
      <4>3. Honest(q)
        BY <4>1, <4>2 DEF Honest
      <4>4. CASE Goto(q, "input") /\ UNCHANGED exit
        <5>1. pc'[q] = "input" /\ exit'[q] = NotRun
          BY <1>0, <4>2, <4>4 DEF Goto, TypeOK, LitOK
        <5>2. Lit(q)'
          BY <1>0, <4>1, <4>2, <5>1, LitSeen DEF Lit
        <5> QED
          BY <5>1, <5>2 DEF LitOK, OnLabels, NotRun
      <4> QED
        BY <1>2, <3>1, <3>2, <4>3, <4>4
    <3>3. CASE ~ScreenIsOn(reply.code)
      <4>1. reply.code # 0
        BY <3>3 DEF ScreenIsOn
      <4> QED
        BY <1>2, <1>3, <2>7, <3>1, <3>3, <4>1 DEF TurnScreenOn, Continue, OnLabels
    <3> QED
      BY <3>2, <3>3
  <2>8. CASE SetInput(q)
    <3>1. Honest(q)
      BY <2>8 DEF SetInput, LitOK, Lit, Honest
    <3>2. (\E code : End(q, code)) \/ UNCHANGED <<pc, exit>>
      BY <2>8 DEF SetInput
    <3> QED
      BY <1>1, <1>2, <3>1, <3>2
  <2>9. CASE \/ Gate(q) \/ GuardProceeds(q) \/ GuardUnreachable(q) \/ GuardSkips(q)
             \/ PowerOff(q) \/ TouchFlag(q) \/ TurnScreenOff(q) \/ ReportStatus(q)
    BY <2>9 DEF LitOK, OnLabels, Gate, GuardProceeds, GuardUnreachable, GuardSkips, PowerOff,
                TouchFlag, TurnScreenOff, ReportStatus
  <2> QED
    BY <1>4, <2>1, <2>2, <2>3, <2>4, <2>5, <2>6, <2>7, <2>8, <2>9 DEF Step
<1>5. ASSUME NEW p \in Proc, Start(p) \/ Step(p) \/ Hang(p) \/ Kill(p) \/ Reap(p)  PROVE Goal
  <2>1. CASE p # q
    BY <1>0, <1>1, <1>5, <2>1, StepFrame DEF Same
  <2>2. CASE p = q /\ Start(q)
    <3>1. FirstLabel(q) = "lock"
      BY <1>0 DEF FirstLabel
    <3> QED
      BY <1>3, <2>2, <3>1 DEF Start, Continue, OnLabels
  <2>3. CASE p = q /\ Kill(q)
    <3>1. End(q, Killed) /\ Killed # 0
      BY <2>3 DEF Kill, Killed
    <3> QED
      BY <1>2, <3>1
  <2>4. CASE p = q /\ Reap(q)
    BY <1>0, <2>4 DEF Reap, Goto, TypeOK, LitOK, OnLabels, Running
  <2>5. CASE p = q /\ Hang(q)
    BY <1>3, <2>5 DEF Hang, Requests, Continue, OnLabels
  <2> QED
    BY <1>4, <1>5, <2>1, <2>2, <2>3, <2>4, <2>5
<1>6. CASE TvStep /\ UNCHANGED cliVars
  BY <1>1, <1>6 DEF cliVars
<1> QED
  BY <1>5, <1>6 DEF HNext, Next

\* An ON that ran and ends with 0 leaves a TV whose picture was on during the run or
\* that went to sleep under it, for any number of commands and any remote: between
\* the poll and turn_screen_on nothing but a fall makes -102 a lie.
THEOREM SuccessHonest == HSpec => OnSuccessMeansLit
<1> DEFINE Inv == \A q \in On : LitOK(q)
           Success == \A p \in On :
                        Running(p) /\ pc[p] # "lock" /\ exit'[p] = 0
                        => \/ seen[p].lit \/ tv'.power = "Active"
                           \/ seen[p].fell \/ (Awake(tv) /\ ~Awake(tv'))
<1>1. HInit => Inv
  BY DEF HInit, Init, CliInit, LitOK, OnLabels, Proc
<1>2. TypeOK /\ seen \in [Proc -> Glimpse] /\ Inv /\ [HNext]_hvars => Inv' /\ [Success]_hvars
  <2> SUFFICES ASSUME TypeOK, seen \in [Proc -> Glimpse], Inv, [HNext]_hvars
               PROVE  Inv' /\ [Success]_hvars
    OBVIOUS
  <2>1. CASE UNCHANGED hvars
    BY <2>1 DEF hvars, vars, cliVars, LitOK, Lit
  <2>2. CASE HNext
    BY <2>2, LitStep DEF Honest
  <2> QED
    BY <2>1, <2>2
<1> QED
  BY <1>1, <1>2, HTypeCorrect, PTL DEF HSpec, OnSuccessMeansLit
-----------------------------------------------------------------------------
(* The tv-off flag.  Every label of a root ON past its clearing is reached
   from one that was past it, or from the clearing itself. *)

Cleared == {"wol", "poll", "screenOn", "input", "hung"}

\* What NoOldHint says of one invocation.
FlagIsNew(q) == q \in On \cap Root /\ tvOff /\ pc[q] \in Cleared => seen[q].hinted

\* An ON comes past its clearing by the clearing, and moves on from there.
LEMMA ClearedFirst ==
  ASSUME TypeOK, NEW q \in On, Step(q) \/ Hang(q) \/ Start(q) \/ Kill(q) \/ Reap(q),
         pc'[q] \in Cleared, pc[q] \notin Cleared
  PROVE  ClearFlag(q) \/ pc[q] \in {"gate", "guard", "powerOff", "screenOff", "status"}
<1>1. q \in Proc /\ FirstLabel(q) = "lock"
  BY CommandAssumption DEF Proc, FirstLabel
<1> QED
  BY <1>1 DEF TypeOK, Cleared, Requests, Start, Hang, Kill, Reap, Step, End, Continue, Goto,
              TakeLock, DropOn, RunUnlocked, ClearFlag, SendWol, PollMissed, PollTransition,
              PollStandby, PollAwake, TurnScreenOn, SetInput, Gate, GuardProceeds,
              GuardUnreachable, GuardSkips, PowerOff, TouchFlag, TurnScreenOff, ReportStatus

\* No ON works on under the hint of an earlier OFF: whatever the other
\* invocations do, a flag that stands while it drives the TV is a new one.
THEOREM HintCleared == HSpec => []NoOldHint
<1> DEFINE Inv == \A q \in On : LitOK(q) /\ FlagIsNew(q)
<1>1. HInit => Inv
  BY DEF HInit, Init, CliInit, LitOK, OnLabels, FlagIsNew, Cleared, Proc
<1>2. TypeOK /\ seen \in [Proc -> Glimpse] /\ Inv /\ [HNext]_hvars => Inv'
  <2> SUFFICES ASSUME TypeOK, seen \in [Proc -> Glimpse], Inv, [HNext]_hvars, NEW q \in On
               PROVE  LitOK(q)' /\ FlagIsNew(q)'
    OBVIOUS
  <2>0. q \in Proc /\ LitOK(q) /\ FlagIsNew(q)
    BY DEF Proc
  <2>1. CASE UNCHANGED hvars
    BY <2>0, <2>1 DEF hvars, vars, cliVars, LitOK, Lit, FlagIsNew
  <2>2. CASE HNext
    <3>1. LitOK(q)'
      BY <2>0, <2>2, LitStep
    <3>2. CASE pc'[q] \in Cleared /\ pc[q] \in Cleared /\ q \in Root /\ tvOff'
      <4>1. /\ seen[q].hinted => seen'[q].hinted
            /\ ~tvOff => seen'[q].hinted
        BY <2>0, <2>2, <3>2, Monotone DEF Cleared
      <4> QED
        BY <2>0, <3>1, <3>2, <4>1 DEF FlagIsNew
    <3>3. CASE pc'[q] \in Cleared /\ pc[q] \notin Cleared /\ q \in Root
      <4>1. \E p \in Proc : Start(p) \/ Step(p) \/ Hang(p) \/ Kill(p) \/ Reap(p)
        BY <2>2, <3>3 DEF HNext, Next, cliVars
      <4>2. Start(q) \/ Step(q) \/ Hang(q) \/ Kill(q) \/ Reap(q)
        BY <2>0, <3>3, <4>1, StepFrame DEF Same
      <4>3. ClearFlag(q)
        BY <2>0, <3>3, <4>2, ClearedFirst DEF LitOK, OnLabels
      <4> QED
        BY <3>1, <3>3, <4>3 DEF ClearFlag, FlagIsNew
    <3> QED
      BY <3>1, <3>2, <3>3 DEF FlagIsNew
  <2> QED
    BY <2>1, <2>2
<1>3. Inv => NoOldHint
  BY DEF FlagIsNew, Cleared, NoOldHint
<1> QED
  BY <1>1, <1>2, <1>3, HTypeCorrect, PTL DEF HSpec
=============================================================================
