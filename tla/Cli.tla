-------------------------------- MODULE Cli --------------------------------
(***************************************************************************)
(* The lgpowercontrol command: any number of concurrent invocations of ON, *)
(* OFF, SCREEN_OFF and STATUS against one TV (cli.py).  They share the     *)
(* flock on the ON lock file, which drops a second ON, and the tv-off flag *)
(* file, by which an OFF tells the suspend path that the TV is off.        *)
(*                                                                         *)
(* Each label of pc is a point between two things another actor can see:   *)
(* a lock, a flag file, a packet or one request to the TV.                 *)
(***************************************************************************)
EXTENDS Tv

CONSTANTS
    On, Off, ScreenOff, Status, \* the invocations, by their command
    Root,               \* those that run as root and reach /run
    Killable,           \* those that may be killed before they end
    AtSuspend, AtShutdown,      \* the OFFs whose LGPC_SOURCE is such an event
    PowerOffAtSuspend, PowerOffAtShutdown, SharedTv,    \* the conf
    HdmiInput,          \* the conf's HDMI_INPUT as an app id; "" when unset
    WakeAttempts, SetInputAttempts,
    FailCodes,          \* how a request to a TV that is there can fail
    Free                \* the owner of the lock nobody holds

Proc == On \cup Off \cup ScreenOff \cup Status

ASSUME CommandAssumption ==
    /\ On \cap (Off \cup ScreenOff \cup Status) = {}
    /\ Off \cap (ScreenOff \cup Status) = {} /\ ScreenOff \cap Status = {}
ASSUME RootAssumption == Root \subseteq Proc /\ Free \notin Proc
ASSUME BudgetAssumption == WakeAttempts \in Nat \ {0} /\ SetInputAttempts \in Nat \ {0}
ASSUME FailAssumption == 2 \in FailCodes /\ FailCodes \subseteq {1, 2, 3}

VARIABLES
    pc, attempt, misses, woke,  \* attempt, consecutive_unreachable, woke_from_standby
    exit,                       \* the exit code, from a run's end to its being read
    lock,                       \* who holds the flock on ON_LOCK
    tvOff                       \* whether TV_OFF_FLAG exists

locals == <<attempt, misses, woke>>
cliVars == <<pc, attempt, misses, woke, exit, lock, tvOff>>
vars == <<tv, cliVars>>

Labels == {"idle", "exited", "lock", "clear", "wol", "poll", "screenOn", "input",
           "gate", "guard", "powerOff", "touch", "screenOff", "status", "hung"}
NotRun == -1
Killed == -9
Codes == {NotRun, Killed, 0, 1, 2, 3}

-----------------------------------------------------------------------------
(* Steps of a run. *)

Running(p) == pc[p] \notin {"idle", "exited"}

Goto(p, label) == pc' = [pc EXCEPT ![p] = label]

\* Mutants: a lock that the end of any run frees, and one that outlives its owner.
End_FreesAny(p, code) ==
    /\ Goto(p, "exited")
    /\ exit' = [exit EXCEPT ![p] = code]
    /\ lock' = Free
    /\ attempt' = [attempt EXCEPT ![p] = 0]
    /\ misses' = [misses EXCEPT ![p] = 0]
    /\ woke' = [woke EXCEPT ![p] = FALSE]

End_KeepsLock(p, code) ==
    /\ Goto(p, "exited")
    /\ exit' = [exit EXCEPT ![p] = code]
    /\ attempt' = [attempt EXCEPT ![p] = 0]
    /\ misses' = [misses EXCEPT ![p] = 0]
    /\ woke' = [woke EXCEPT ![p] = FALSE]
    /\ UNCHANGED lock

\* The process ends: its lock file is closed with it.
End(p, code) ==
    /\ Goto(p, "exited")
    /\ exit' = [exit EXCEPT ![p] = code]
    /\ attempt' = [attempt EXCEPT ![p] = 0]
    /\ misses' = [misses EXCEPT ![p] = 0]
    /\ woke' = [woke EXCEPT ![p] = FALSE]
    /\ lock' = IF lock = p THEN Free ELSE lock

Continue(p, label) == Goto(p, label) /\ UNCHANGED <<locals, exit, lock>>

\* One request, done when it is received: tv_cmd's code, and the TV after it.
\* A connection cut after the request leaves 2 with the request carried out.
TvCmd(done) ==
    IF Reachable(tv)
    THEN {done, [done EXCEPT !.code = 2]} \cup {Done(code, tv) : code \in FailCodes}
    ELSE {Done(2, tv)}

\* SHARED_TV counts only together with an HDMI_INPUT that names an input.
Shared == SharedTv /\ HdmiInput \in Inputs

-----------------------------------------------------------------------------
(* ON *)

\* Root opens the lock file and takes the lock, or finds it taken and drops
\* this ON as if it had succeeded; /run is closed to anybody else, who goes on
\* without a lock.
TakeLock(p) ==
    /\ pc[p] = "lock" /\ p \in Root /\ lock = Free
    /\ Goto(p, "clear") /\ lock' = p
    /\ UNCHANGED <<tv, locals, exit, tvOff>>

DropOn(p) ==
    /\ pc[p] = "lock" /\ p \in Root /\ lock # Free
    /\ End(p, 0)
    /\ UNCHANGED <<tv, tvOff>>

RunUnlocked(p) ==
    /\ pc[p] = "lock" /\ p \notin Root
    /\ Continue(p, "clear")
    /\ UNCHANGED <<tv, tvOff>>

\* Mutant: a flag that was there stays.
ClearFlag_Keeps(p) ==
    /\ pc[p] = "clear"
    /\ Continue(p, "wol")
    /\ UNCHANGED <<tv, tvOff>>

ClearFlag(p) ==
    /\ pc[p] = "clear"
    /\ tvOff' = (tvOff /\ p \notin Root)
    /\ Continue(p, "wol")
    /\ UNCHANGED tv

\* Mutant: one attempt too many.
LastTry_Late(n) == n > WakeAttempts

LastTry(n) == n = WakeAttempts

\* The first packet goes out after nm-online, whatever that says; the others
\* after a poll that did not find the TV awake.  A packet can be lost.
SendWol(p) ==
    /\ pc[p] = "wol"
    /\ tv' \in {tv, ReceiveWol(tv)}
    /\ IF LastTry(attempt[p]) THEN End(p, 1) ELSE Continue(p, "poll")
    /\ UNCHANGED tvOff

\* Mutant: a try that is not counted.
CountTry_Forgets(p) == UNCHANGED attempt

CountTry(p) == attempt' = [attempt EXCEPT ![p] = @ + 1]

\* Mutant: one miss is enough.
DownAfter_OneMiss(missed) == missed > 0

\* One miss is the network; two in a row are a TV that was down.
DownAfter(missed) == missed > 1

PollMissed(p) ==
    /\ pc[p] = "poll"
    /\ CountTry(p)
    /\ misses' = [misses EXCEPT ![p] = @ + 1]
    /\ woke' = [woke EXCEPT ![p] = @ \/ DownAfter(misses[p] + 1)]
    /\ Goto(p, "wol")
    /\ UNCHANGED <<tv, exit, lock, tvOff>>

\* Mid-transition: wait for a plain state, and send nothing.
OursWhenMidTransition(t) == ~Awake(t)

PollTransition(p) ==
    /\ pc[p] = "poll" /\ Reachable(tv) /\ tv.processing
    /\ IF LastTry(attempt[p] + 1)
       THEN End(p, 1)
       ELSE /\ CountTry(p)
            /\ misses' = [misses EXCEPT ![p] = 0]
            /\ woke' = [woke EXCEPT ![p] = @ \/ OursWhenMidTransition(tv)]
            /\ UNCHANGED <<pc, exit, lock>>
    /\ UNCHANGED <<tv, tvOff>>

PollStandby(p) ==
    /\ pc[p] = "poll" /\ Reachable(tv) /\ ~tv.processing /\ ~Awake(tv)
    /\ CountTry(p)
    /\ misses' = [misses EXCEPT ![p] = 0]
    /\ woke' = [woke EXCEPT ![p] = TRUE]
    /\ Goto(p, "wol")
    /\ UNCHANGED <<tv, exit, lock, tvOff>>

\* Mutant: any plain state is taken for an awake TV.
FoundAwake_AnyPlain(t) == ~t.processing

FoundAwake(t) == ~t.processing /\ Awake(t)

PollAwake(p) ==
    /\ pc[p] = "poll" /\ Reachable(tv) /\ FoundAwake(tv)
    /\ CountTry(p)
    /\ misses' = [misses EXCEPT ![p] = 0]
    /\ Goto(p, "screenOn")
    /\ UNCHANGED <<tv, woke, exit, lock, tvOff>>

\* Mutant: -102 is kept for an error.
ScreenIsOn_Keeps102(code) == code = 0

\* -102 counts as success here: the poll before it saw the TV awake.
ScreenIsOn(code) == code \in {0, 102}

TakesInput(p) == HdmiInput # "" /\ (~Shared \/ woke[p])

TurnScreenOn(p) ==
    /\ pc[p] = "screenOn"
    /\ \E reply \in TvCmd(DoScreenOn(tv)) :
        /\ tv' = reply.after
        /\ IF ScreenIsOn(reply.code)
           THEN IF TakesInput(p)
                THEN /\ Goto(p, "input")
                     /\ attempt' = [attempt EXCEPT ![p] = 0]
                     /\ UNCHANGED <<misses, woke, exit, lock>>
                ELSE End(p, 0)
           ELSE IF LastTry(attempt[p]) THEN End(p, reply.code) ELSE Continue(p, "poll")
    /\ UNCHANGED tvOff

SetInput(p) ==
    /\ pc[p] = "input"
    /\ \E reply \in TvCmd(DoSetInput(tv, HdmiInput)) :
        /\ tv' = reply.after
        /\ IF reply.code = 0
           THEN End(p, 0)
           ELSE IF attempt[p] + 1 = SetInputAttempts
                THEN End(p, 1)
                ELSE CountTry(p) /\ UNCHANGED <<pc, misses, woke, exit, lock>>
    /\ UNCHANGED tvOff

-----------------------------------------------------------------------------
(* OFF and SCREEN_OFF *)

Disabled(p) == \/ p \in AtSuspend /\ ~PowerOffAtSuspend
               \/ p \in AtShutdown /\ ~PowerOffAtShutdown

Gate(p) ==
    /\ pc[p] = "gate"
    /\ IF Disabled(p) THEN End(p, 0) ELSE Continue(p, "guard")
    /\ UNCHANGED <<tv, tvOff>>

AfterGuard(p) == IF p \in Off THEN "powerOff" ELSE "screenOff"

\* check_power_off_guard: a TV that is not shared, that shows our input, or
\* that fails to say what it shows may be turned off.
Query == {reply.code : reply \in TvCmd(Done(0, tv))}

\* Mutant: a TV that names no app is taken for one that shows ours.
MayTurnOff_OrNone(app) == app \in {HdmiInput, ""}

MayTurnOff(app) == app = HdmiInput

GuardProceeds(p) ==
    /\ pc[p] = "guard"
    /\ \/ ~Shared
       \/ 0 \in Query /\ \E app \in CurrentApps(tv) : MayTurnOff(app)
       \/ Query \cap {1, 3} # {}
    /\ Continue(p, AfterGuard(p))
    /\ UNCHANGED <<tv, tvOff>>

GuardUnreachable(p) ==
    /\ pc[p] = "guard" /\ Shared /\ 2 \in Query
    /\ End(p, 2)
    /\ UNCHANGED <<tv, tvOff>>

GuardSkips(p) ==
    /\ pc[p] = "guard" /\ Shared /\ 0 \in Query
    /\ \E app \in CurrentApps(tv) : ~MayTurnOff(app)
    /\ End(p, 0)
    /\ UNCHANGED <<tv, tvOff>>

PowerOff(p) ==
    /\ pc[p] = "powerOff"
    /\ \E done \in DoPowerOff(tv) : \E reply \in TvCmd(done) :
        /\ tv' = reply.after
        /\ IF reply.code = 0 THEN Continue(p, "touch") ELSE End(p, reply.code)
    /\ UNCHANGED tvOff

TouchFlag(p) ==
    /\ pc[p] = "touch"
    /\ tvOff' = (tvOff \/ p \in Root)
    /\ End(p, 0)
    /\ UNCHANGED tv

TurnScreenOff(p) ==
    /\ pc[p] = "screenOff"
    /\ \E reply \in TvCmd(DoScreenOff(tv)) : tv' = reply.after /\ End(p, reply.code)
    /\ UNCHANGED tvOff

(* STATUS *)
ReportStatus(p) ==
    /\ pc[p] = "status"
    /\ \E code \in Query : End(p, code)
    /\ UNCHANGED <<tv, tvOff>>

-----------------------------------------------------------------------------
(* A TV that takes the connection and then says nothing.  Only connecting has
   a timeout; a request that is never answered is waited for without end. *)

Requests == {"poll", "screenOn", "input", "guard", "powerOff", "screenOff", "status"}

\* The TV after the request it never answers, had it carried it out.
Taken(p) == CASE pc[p] = "screenOn" -> DoScreenOn(tv).after
              [] pc[p] = "input" -> DoSetInput(tv, HdmiInput).after
              [] pc[p] = "screenOff" -> DoScreenOff(tv).after
              [] OTHER -> tv

Hang(p) ==
    /\ pc[p] \in Requests /\ (pc[p] = "guard" => Shared)
    /\ Reachable(tv)
    /\ tv' \in {tv, Taken(p)}
    /\ Continue(p, "hung")
    /\ UNCHANGED tvOff

-----------------------------------------------------------------------------
FirstLabel(p) == CASE p \in On -> "lock" [] p \in Off -> "gate"
                   [] p \in ScreenOff -> "guard" [] p \in Status -> "status"

Start(p) ==
    /\ pc[p] = "idle"
    /\ Continue(p, FirstLabel(p))
    /\ UNCHANGED <<tv, tvOff>>

\* Whoever started the process reads its exit code.
Reap(p) ==
    /\ pc[p] = "exited"
    /\ Goto(p, "idle")
    /\ exit' = [exit EXCEPT ![p] = NotRun]
    /\ UNCHANGED <<tv, locals, lock, tvOff>>

\* The process is killed: by Ctrl-C, or with the unit that ran it.
Kill(p) ==
    /\ Running(p) /\ p \in Killable
    /\ End(p, Killed)
    /\ UNCHANGED <<tv, tvOff>>

Step(p) ==
    \/ TakeLock(p) \/ DropOn(p) \/ RunUnlocked(p) \/ ClearFlag(p) \/ SendWol(p)
    \/ PollMissed(p) \/ PollTransition(p) \/ PollStandby(p) \/ PollAwake(p)
    \/ TurnScreenOn(p) \/ SetInput(p)
    \/ Gate(p) \/ GuardProceeds(p) \/ GuardUnreachable(p) \/ GuardSkips(p)
    \/ PowerOff(p) \/ TouchFlag(p) \/ TurnScreenOff(p) \/ ReportStatus(p)

CliInit ==
    /\ pc = [p \in Proc |-> "idle"]
    /\ attempt = [p \in Proc |-> 0]
    /\ misses = [p \in Proc |-> 0]
    /\ woke = [p \in Proc |-> FALSE]
    /\ exit = [p \in Proc |-> NotRun]
    /\ lock = Free
    /\ tvOff = FALSE

Init == TvInit /\ CliInit

Next == \/ \E p \in Proc : Start(p) \/ Step(p) \/ Hang(p) \/ Kill(p) \/ Reap(p)
        \/ TvStep /\ UNCHANGED cliVars

\* A running process is scheduled, and a request it sent is answered, fails or
\* hangs it for good; a TV that has started to wake gets there.
Fairness == /\ \A p \in Proc : WF_vars(Step(p))
            /\ WF_vars(WakeDone /\ UNCHANGED cliVars)

Spec == Init /\ [][Next]_vars /\ Fairness

-----------------------------------------------------------------------------
TypeOK ==
    /\ TvTypeOK
    /\ pc \in [Proc -> Labels]
    /\ attempt \in [Proc -> Nat]
    /\ misses \in [Proc -> Nat]
    /\ woke \in [Proc -> BOOLEAN]
    /\ exit \in [Proc -> Codes]
    /\ lock \in Proc \cup {Free}
    /\ tvOff \in BOOLEAN

\* No ON polls more than WAKE_ATTEMPTS times or tries its input more than
\* SET_INPUT_ATTEMPTS times, down whichever branches of the loop it went; it
\* never counts more misses than polls.
BudgetKept ==
    \A p \in Proc :
        /\ pc[p] = "poll" => attempt[p] < WakeAttempts
        /\ pc[p] \in {"wol", "screenOn"} => attempt[p] <= WakeAttempts
        /\ pc[p] \in {"poll", "wol", "screenOn"} => misses[p] <= attempt[p]
        /\ pc[p] = "input" => attempt[p] < SetInputAttempts

\* At most one ON that took the lock is between taking it and its end: the
\* flock really is what keeps two wakes from driving the TV at once.
OneLockedOn ==
    \A p, q \in On \cap Root :
        /\ Running(p) /\ pc[p] # "lock"
        /\ Running(q) /\ pc[q] # "lock"
        => p = q

\* Every invocation ends, unless the TV takes its connection and never answers:
\* both loops of ON are bounded, so nothing but a silent TV keeps the lock.
OnlySilenceHangs == \A p \in Proc : Running(p) ~> ~Running(p) \/ pc[p] = "hung"

\* An ON that finds the lock taken is dropped with 0 and is not a wake lost: the
\* TV comes up all the same, or the ON that runs reports that it gave up, or it
\* waits for a TV that never answers.
DroppedOnIsServed ==
    \A p \in On \cap Root :
        pc[p] = "lock" /\ lock # Free
        ~> \/ Awake(tv)
           \/ \E q \in On : exit[q] \notin {NotRun, 0}
           \/ \E q \in On \cap Root : pc[q] = "hung"

\* What dropping an ON with the exit code of a success claims: the ON that
\* runs wakes the TV, or reports that it gave up.
DropIsRedundant ==
    \A p \in On \cap Root :
        pc[p] = "lock" /\ lock # Free
        ~> Awake(tv) \/ \E q \in On : exit[q] \notin {NotRun, 0}
=============================================================================
