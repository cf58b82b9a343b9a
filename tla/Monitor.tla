------------------------------ MODULE Monitor ------------------------------
(***************************************************************************)
(* The DPMS watcher (monitor.py): it follows the display and has the TV    *)
(* turned on and its screen off, and after ESCALATE_AFTER_SECONDS of a     *)
(* dark display it has the TV powered off, before the TV's own timer drops *)
(* it into deep standby.  Time is discrete and the clock is the wall clock *)
(* the code reads, so a suspend shows as a jump of it.                     *)
(*                                                                         *)
(* Each label of pc is a point where the watcher reads something another   *)
(* process can change, or waits: for its sleep(1), or for the command it   *)
(* runs and blocks on.                                                     *)
(***************************************************************************)
EXTENDS Integers

CONSTANTS
    EscalateAfter,  \* ESCALATE_AFTER_SECONDS
    JumpLimit,      \* the 30 of tick(): a longer gap between ticks is a suspend
    OnBlock, OffBlock,  \* the longest an ON, an OFF or a SCREEN_OFF can take
    MaxNap,         \* the longest the machine is suspended
    Horizon         \* where the clock stops, to bound the model

ASSUME TimeAssumption ==
    /\ EscalateAfter \in Nat \ {0} /\ JumpLimit \in Nat
    /\ OnBlock \in Nat /\ OffBlock \in Nat /\ MaxNap \in Nat /\ Horizon \in Nat

VARIABLES
    now,                \* time.time()
    dpms,               \* what get_dpms_state() would return
    preparing,          \* logind's PreparingForSleep
    sleepFlag,          \* whether SLEEP_FLAG exists
    pc, since,          \* where the watcher is; when it came there, as if the
                        \* machine had never slept since
    state,              \* the reading of this tick
    prev, offSince, escalated, lastTick     \* DpmsWatcher's fields

environment == <<dpms, preparing, sleepFlag>>
watcher == <<pc, since, state, prev, offSince, escalated, lastTick>>
mvars == <<now, environment, watcher>>

Unknown == ""   \* no connected output
Readings == {"on", "off", Unknown}
NoTime == -1

-----------------------------------------------------------------------------
(* DpmsWatcher *)

\* Mutant: the time the machine slept counts towards the escalation.
Counted_Always(gap, start) == start

\* tick: a gap of more than JumpLimit restarts the count.
Counted(gap, start) == IF start # NoTime /\ gap > JumpLimit THEN now ELSE start

Tick ==
    /\ pc = "sleep" /\ now - since >= 1
    /\ offSince' = Counted(now - lastTick, offSince)
    /\ lastTick' = now
    /\ state' = dpms
    /\ pc' = IF dpms # Unknown /\ dpms # prev
             THEN IF dpms = "off" THEN "gate" ELSE "command"
             ELSE "escalate"
    /\ UNCHANGED <<now, environment, since, prev, escalated>>

\* Mutant: a fresh reading is remembered, not the one acted on.
Transition_Fresh ==
    /\ prev' = dpms
    /\ IF state = "off"
       THEN offSince' = lastTick /\ escalated' = FALSE
       ELSE offSince' = NoTime /\ UNCHANGED escalated
    /\ pc' = "escalate"
    /\ UNCHANGED <<now, environment, since, state, lastTick>>

\* The end of _transition: the display changed when this tick began.
Transition ==
    /\ prev' = state
    /\ IF state = "off"
       THEN offSince' = lastTick /\ escalated' = FALSE
       ELSE offSince' = NoTime /\ UNCHANGED escalated
    /\ pc' = "escalate"
    /\ UNCHANGED <<now, environment, since, state, lastTick>>

\* A display that goes dark in a suspend is left to the sleep path.
GateSuspend == pc = "gate" /\ preparing /\ Transition

GateAwake ==
    /\ pc = "gate" /\ ~preparing
    /\ pc' = "stale"
    /\ UNCHANGED <<now, environment, since, state, prev, offSince, escalated, lastTick>>

RemoveStaleFlag ==
    /\ pc = "stale"
    /\ sleepFlag' = FALSE
    /\ pc' = "command"
    /\ UNCHANGED <<now, dpms, preparing, since, state, prev, offSince, escalated, lastTick>>

\* run_lgpc: the watcher blocks on the command.
RunCommand ==
    /\ pc = "command"
    /\ pc' = "running" /\ since' = now
    /\ UNCHANGED <<now, environment, state, prev, offSince, escalated, lastTick>>

CommandReturns == pc = "running" /\ Transition

\* Mutant: the deadline is missed by one.
Overdue_Late(start) == lastTick - start > EscalateAfter

Overdue(start) == lastTick - start >= EscalateAfter

Due == offSince # NoTime /\ ~escalated /\ ~sleepFlag /\ Overdue(offSince)

Escalate ==
    /\ pc = "escalate" /\ Due
    /\ escalated' = TRUE
    /\ pc' = "powerOff" /\ since' = now
    /\ UNCHANGED <<now, environment, state, prev, offSince, lastTick>>

Sleep1 ==
    /\ \/ pc = "escalate" /\ ~Due
       \/ pc = "powerOff"
    /\ pc' = "sleep" /\ since' = now
    /\ UNCHANGED <<now, environment, state, prev, offSince, escalated, lastTick>>

Step == Tick \/ GateSuspend \/ GateAwake \/ RemoveStaleFlag \/ RunCommand \/ CommandReturns
        \/ Escalate \/ Sleep1

-----------------------------------------------------------------------------
(* The machine around it *)

\* The wait the watcher is in: its sleep, or the command it runs.
Patience == CASE pc = "sleep" -> 1
              [] pc = "running" /\ state = "on" -> OnBlock
              [] pc = "running" /\ state = "off" -> OffBlock
              [] pc = "powerOff" -> OffBlock
              [] OTHER -> 0

\* The watcher is never kept waiting for the processor.
TimePasses ==
    /\ now < Horizon /\ now - since < Patience
    /\ now' = now + 1
    /\ UNCHANGED <<environment, watcher>>

\* The machine sleeps: the wall clock goes on, the waits of the watcher and of
\* its child do not.
Nap(length) ==
    /\ preparing /\ now + length <= Horizon
    /\ now' = now + length /\ since' = since + length
    /\ UNCHANGED <<environment, pc, state, prev, offSince, escalated, lastTick>>

Display == /\ dpms' \in Readings \ {dpms}
           /\ UNCHANGED <<now, preparing, sleepFlag, watcher>>

Prepare == /\ ~preparing /\ preparing' = TRUE
           /\ UNCHANGED <<now, dpms, sleepFlag, watcher>>

\* The resume, or a suspend that did not come about.
Awaken == /\ preparing /\ preparing' = FALSE
          /\ UNCHANGED <<now, dpms, sleepFlag, watcher>>

\* The NetworkManager dispatcher: pre-down in a suspend, up at any time.
PreDown == /\ preparing /\ ~sleepFlag /\ sleepFlag' = TRUE
           /\ UNCHANGED <<now, dpms, preparing, watcher>>

Up == /\ sleepFlag /\ sleepFlag' = FALSE
      /\ UNCHANGED <<now, dpms, preparing, watcher>>

\* Mutant: the clock is read before the watcher is there.
StartWatcher_Early ==
    /\ pc' = "sleep" /\ since' = now - 1
    /\ state' = Unknown /\ prev' = dpms
    /\ offSince' = NoTime /\ escalated' = FALSE /\ lastTick' = since'

StartWatcher ==
    /\ pc' = "sleep" /\ since' = now - 1     \* the first tick waits for nothing
    /\ state' = Unknown /\ prev' = dpms
    /\ offSince' = NoTime /\ escalated' = FALSE /\ lastTick' = now

\* The watcher dies with its child, and systemd starts it again.
Restart == StartWatcher /\ UNCHANGED <<now, environment>>

Environment == TimePasses \/ (\E length \in 1 .. MaxNap : Nap(length)) \/ Display \/ Prepare \/ Awaken \/ PreDown \/ Up \/ Restart

MInit ==
    /\ now = 0
    /\ dpms \in Readings /\ preparing = FALSE /\ sleepFlag \in BOOLEAN
    /\ pc = "sleep" /\ since = -1
    /\ state = Unknown /\ prev = dpms
    /\ offSince = NoTime /\ escalated = FALSE /\ lastTick = 0

MNext == Step \/ Environment

MSpec == MInit /\ [][MNext]_mvars

-----------------------------------------------------------------------------
MTypeOK ==
    /\ now \in Nat
    /\ dpms \in Readings /\ preparing \in BOOLEAN /\ sleepFlag \in BOOLEAN
    /\ pc \in {"sleep", "gate", "stale", "command", "running", "escalate", "powerOff"}
    /\ since \in Int /\ state \in Readings /\ prev \in Readings
    /\ offSince \in Nat \cup {NoTime} /\ escalated \in BOOLEAN /\ lastTick \in Nat
=============================================================================
