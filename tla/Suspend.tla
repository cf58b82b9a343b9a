------------------------------ MODULE Suspend ------------------------------
(***************************************************************************)
(* The suspend entry points (suspend.py): the NetworkManager dispatcher,   *)
(* the systemd-sleep hook and the listener for machines where no hook can  *)
(* be installed.  Each turns the TV off before the machine sleeps and has  *)
(* it turned on at the resume, and each stands down for a suspend another  *)
(* one has; what they know of each other are two flag files.               *)
(*                                                                         *)
(* Around them: logind, which announces a suspend and waits for inhibitors *)
(* for a limited time; NetworkManager, which runs its dispatcher scripts   *)
(* one at a time; the kernel, which freezes everything at any step; and    *)
(* the two commands they run, reduced to what matters here.                *)
(***************************************************************************)
EXTENDS Naturals, Sequences

CONSTANTS
    Setups,         \* the machines: the number of devices NetworkManager takes
                    \* down at a suspend (one with Wake-on-LAN is not), and
                    \* what is installed besides the dispatcher
    GracePolls,     \* how often the listener looks for the dispatcher's flag
    DelayExpires,   \* whether logind may tire of waiting for inhibitors
    Calm,           \* whether a suspend comes only when the last is over:
                    \* the network back, the listener told of the resume
    ListenerDies,   \* whether the listener may die; systemd starts it again
    Escalates,      \* whether the watcher powers an idle TV off
    Darkens,        \* whether the display may go dark near a suspend, other
                    \* than for it
    MaxQueue        \* bound on the events NetworkManager has pending

ASSUME SuspendAssumption ==
    /\ \A s \in Setups : s.nics \in Nat /\ s.fallback \in {"hook", "listener"}
    /\ GracePolls \in Nat /\ MaxQueue \in Nat \ {0}
    /\ {DelayExpires, Calm, ListenerDies, Escalates, Darkens} \subseteq BOOLEAN

VARIABLES
    setup,          \* the machine, one of Setups
    stage,          \* where logind and the kernel are
    links,          \* how many of those devices are connected
    queue,          \* the events NetworkManager has not run its script for
    inbox,          \* the PrepareForSleep signals the listener has not read
    inhibited,      \* whether the listener's inhibitor is held
    at,             \* where each entry point is, and the watcher
    polls,          \* the listener's grace wait
    flag,           \* SLEEP_FLAG and HOOK_SLEEP_FLAG
    tvOff,          \* TV_OFF_FLAG
    on,             \* where the ON that holds the lock is
    tv              \* whether the TV is on

machine == <<setup, stage, links, queue, inbox>>
outcome == <<tvOff, on, tv>>
svars == <<machine, inhibited, at, polls, flag, outcome>>

Entries == {"dispatcher", "hook", "listener"}
Frozen == stage = "asleep"
PreparingForSleep == stage # "awake"

FlagOf(e) == IF e = "dispatcher" THEN "sleep" ELSE "hook"

-----------------------------------------------------------------------------
(* The commands *)

\* A detached ON is dropped when another holds the lock.
RequestOn == on' = IF on = "none" THEN "clear" ELSE on

RunOn ==
    /\ ~Frozen
    /\ \/ on = "clear" /\ on' = "wake" /\ tvOff' = FALSE /\ UNCHANGED tv
       \/ on = "wake" /\ on' = "input" /\ tv' = TRUE /\ UNCHANGED tvOff
       \/ on = "wake" /\ on' = "none" /\ UNCHANGED <<tvOff, tv>>
       \/ on = "input" /\ on' = "none" /\ UNCHANGED <<tvOff, tv>>
    /\ UNCHANGED <<machine, inhibited, at, polls, flag>>

\* Mutant: the dispatcher takes itself for a hook.
Over_HookLike(e) == IF e = "listener" THEN "release" ELSE "done"

\* Where an entry point goes when its OFF is over or not needed.
Over(e) == IF e = "listener" THEN "release" ELSE IF e = "hook" THEN "done" ELSE "idle"

Goto(e, label) == at' = [at EXCEPT ![e] = label]

\* The dispatcher's script ends: NetworkManager lets the device go down.
ScriptEnds(e) == IF e = "dispatcher" THEN queue' = Tail(queue) ELSE UNCHANGED queue

\* OFF: it may leave the TV on (unreachable, not ours, switched off in the
\* conf).  Only a request that was sent leaves the hint, carried out or not.
PowerOff(e) ==
    /\ ~Frozen /\ at[e] = "off"
    /\ \/ tv' \in {FALSE, tv} /\ Goto(e, "mark") /\ UNCHANGED queue
       \/ Goto(e, Over(e)) /\ ScriptEnds(e) /\ UNCHANGED tv
    /\ UNCHANGED <<setup, stage, links, inbox, inhibited, polls, flag, tvOff, on>>

MarkOff(e) ==
    /\ ~Frozen /\ at[e] = "mark"
    /\ tvOff' = TRUE
    /\ Goto(e, Over(e)) /\ ScriptEnds(e)
    /\ UNCHANGED <<setup, stage, links, inbox, inhibited, polls, flag, on, tv>>

-----------------------------------------------------------------------------
(* _tv_off and _tv_on *)

\* Mutant: the flag is laid only once the TV is known to be on.
Claim_Late(e) == Goto(e, "hint") /\ UNCHANGED flag

\* The flag comes first, so that a suspend that finds the TV off, or fails to
\* turn it off, has its ON all the same.
Claim(e) == Goto(e, "hint") /\ flag' = [flag EXCEPT ![FlagOf(e)] = TRUE]

SkipKnownOff(e) ==
    /\ ~Frozen /\ at[e] = "hint"
    /\ IF tvOff THEN Goto(e, Over(e)) /\ ScriptEnds(e) ELSE Goto(e, "off") /\ UNCHANGED queue
    /\ UNCHANGED <<setup, stage, links, inbox, inhibited, polls, flag, outcome>>

\* Mutant: the flag is left where it is.
TvOn_KeepsFlag(e) == IF flag[FlagOf(e)] THEN RequestOn /\ UNCHANGED flag ELSE UNCHANGED <<flag, on>>

TvOn(e) == IF flag[FlagOf(e)]
           THEN flag' = [flag EXCEPT ![FlagOf(e)] = FALSE] /\ RequestOn
           ELSE UNCHANGED <<flag, on>>

-----------------------------------------------------------------------------
(* dispatcher *)

Event(action) == queue # <<>> /\ Head(queue) = action

\* logind tells a suspend from a link that goes down for another reason.
PreDown ==
    /\ ~Frozen /\ at["dispatcher"] = "idle" /\ Event("pre-down")
    /\ IF PreparingForSleep THEN Goto("dispatcher", "claim") /\ UNCHANGED queue
                            ELSE queue' = Tail(queue) /\ UNCHANGED at
    /\ UNCHANGED <<setup, stage, links, inbox, inhibited, polls, flag, outcome>>

\* Mutant: every device turns the TV off.
DispatcherClaims_EachNic ==
    /\ ~Frozen /\ at["dispatcher"] = "claim"
    /\ Claim("dispatcher")
    /\ UNCHANGED <<machine, inhibited, polls, outcome>>

\* Only the first device acts.
DispatcherClaims ==
    /\ ~Frozen /\ at["dispatcher"] = "claim"
    /\ IF flag["sleep"]
       THEN Goto("dispatcher", "idle") /\ queue' = Tail(queue) /\ UNCHANGED flag
       ELSE Claim("dispatcher") /\ UNCHANGED queue
    /\ UNCHANGED <<setup, stage, links, inbox, inhibited, polls, outcome>>

Up ==
    /\ ~Frozen /\ at["dispatcher"] = "idle" /\ Event("up")
    /\ TvOn("dispatcher") /\ queue' = Tail(queue)
    /\ UNCHANGED <<setup, stage, links, inbox, inhibited, at, polls, tvOff, tv>>

(* hook *)

HookPre ==
    /\ setup.fallback = "hook" /\ stage = "hooks" /\ at["hook"] = "idle"
    /\ IF flag["sleep"] THEN Goto("hook", "done") /\ UNCHANGED flag ELSE Claim("hook")
    /\ UNCHANGED <<machine, inhibited, polls, outcome>>

HookPost ==
    /\ stage = "waking" /\ at["hook"] = "done"
    /\ TvOn("hook") /\ Goto("hook", "idle")
    /\ UNCHANGED <<machine, inhibited, polls, tvOff, tv>>

(* listener *)

ReadSignal(preparing) ==
    /\ ~Frozen /\ at["listener"] = "idle"
    /\ inbox # <<>> /\ Head(inbox) = preparing
    /\ inbox' = Tail(inbox)

SleepSignal ==
    /\ ReadSignal(TRUE)
    /\ Goto("listener", "grace") /\ polls' = 0
    /\ UNCHANGED <<setup, stage, links, queue, inhibited, flag, outcome>>

\* Mutant: the inhibitor is released before the TV is off.
Grace_ReleasesEarly ==
    /\ ~Frozen /\ at["listener"] = "grace"
    /\ Claim("listener") /\ inhibited' = FALSE
    /\ UNCHANGED <<machine, polls, outcome>>

Grace ==
    /\ ~Frozen /\ at["listener"] = "grace"
    /\ IF polls < GracePolls
       THEN /\ UNCHANGED flag
            /\ IF flag["sleep"] THEN Goto("listener", "release") /\ UNCHANGED polls
                                ELSE polls' = polls + 1 /\ UNCHANGED at
       ELSE Claim("listener") /\ UNCHANGED polls
    /\ UNCHANGED <<machine, inhibited, outcome>>

Release ==
    /\ ~Frozen /\ at["listener"] = "release"
    /\ inhibited' = FALSE /\ Goto("listener", "idle")
    /\ UNCHANGED <<machine, polls, flag, outcome>>

ResumeSignal ==
    /\ ReadSignal(FALSE)
    /\ inhibited' = TRUE
    /\ TvOn("listener")
    /\ UNCHANGED <<setup, stage, links, queue, at, polls, tvOff, tv>>

\* Its inhibitor and its OFF die with it, and the signals it would have read.
DieListener ==
    /\ ListenerDies /\ ~Frozen /\ setup.fallback = "listener" /\ at["listener"] # "dead"
    /\ Goto("listener", "dead")
    /\ inhibited' = FALSE /\ inbox' = <<>>
    /\ UNCHANGED <<setup, stage, links, queue, polls, flag, outcome>>

\* logind takes no new inhibitor while it prepares for sleep.
StartListener ==
    /\ ~Frozen /\ at["listener"] = "dead"
    /\ Goto("listener", "idle")
    /\ inhibited' = ~PreparingForSleep
    /\ UNCHANGED <<machine, polls, flag, outcome>>

-----------------------------------------------------------------------------
(* The watcher's part: an ON when the display comes back; when it goes dark,
   a sleep flag is stale if logind knows of no suspend; when it has been dark
   for long, an OFF. *)

WatcherOn ==
    /\ ~Frozen /\ RequestOn
    /\ UNCHANGED <<machine, inhibited, at, polls, flag, tvOff, tv>>

GateAwake ==
    /\ Darkens /\ ~Frozen /\ at["watcher"] = "idle" /\ ~PreparingForSleep /\ flag["sleep"]
    /\ Goto("watcher", "stale")
    /\ UNCHANGED <<machine, inhibited, polls, flag, outcome>>

RemoveStaleFlag ==
    /\ ~Frozen /\ at["watcher"] = "stale"
    /\ flag' = [flag EXCEPT !["sleep"] = FALSE] /\ Goto("watcher", "idle")
    /\ UNCHANGED <<machine, inhibited, polls, outcome>>

Escalate ==
    /\ Escalates /\ ~Frozen /\ at["watcher"] = "idle" /\ ~flag["sleep"]
    /\ Goto("watcher", "off")
    /\ UNCHANGED <<machine, inhibited, polls, flag, outcome>>

-----------------------------------------------------------------------------
(* logind, NetworkManager, the kernel *)

Pending == {queue[i] : i \in DOMAIN queue}

Signal(preparing) == inbox' = IF setup.fallback = "listener" /\ at["listener"] # "dead" THEN Append(inbox, preparing) ELSE inbox

Prepare ==
    /\ stage = "awake"
    /\ Calm => links = setup.nics /\ "pre-down" \notin Pending /\ inbox = <<>>
    /\ Len(queue) + links <= MaxQueue /\ Len(inbox) < 2
    /\ stage' = "preparing"
    /\ queue' = queue \o [i \in 1 .. links |-> "pre-down"]
    /\ links' = 0
    /\ Signal(TRUE)
    /\ UNCHANGED <<setup, inhibited, at, polls, flag, outcome>>

\* logind goes on when nobody inhibits it any more: NetworkManager does until
\* it has run its scripts, the listener until it releases its own.
InhibitorsGone == ~inhibited /\ "pre-down" \notin Pending

ToHooks ==
    /\ stage = "preparing" /\ (InhibitorsGone \/ DelayExpires)
    /\ stage' = "hooks"
    /\ UNCHANGED <<setup, links, queue, inbox, inhibited, at, polls, flag, outcome>>

Freeze ==
    /\ stage = "hooks" /\ (setup.fallback = "hook" => at["hook"] = "done")
    /\ stage' = "asleep"
    /\ UNCHANGED <<setup, links, queue, inbox, inhibited, at, polls, flag, outcome>>

Thaw ==
    /\ stage = "asleep" /\ stage' = "waking"
    /\ UNCHANGED <<setup, links, queue, inbox, inhibited, at, polls, flag, outcome>>

Resumed ==
    /\ stage = "waking" /\ at["hook"] = "idle"
    /\ stage' = "awake" /\ Signal(FALSE)
    /\ UNCHANGED <<setup, links, queue, inhibited, at, polls, flag, outcome>>

LinkUp ==
    /\ stage = "awake" /\ links < setup.nics /\ Len(queue) < MaxQueue
    /\ links' = links + 1 /\ queue' = Append(queue, "up")
    /\ UNCHANGED <<setup, stage, inbox, inhibited, at, polls, flag, outcome>>

\* Somebody takes a connection down, or plugs a cable in again.
LinkDown ==
    /\ stage = "awake" /\ links > 0 /\ queue = <<>>
    /\ links' = links - 1 /\ queue' = <<"pre-down">>
    /\ UNCHANGED <<setup, stage, inbox, inhibited, at, polls, flag, outcome>>

Replug ==
    /\ stage = "awake" /\ links > 0 /\ queue = <<>>
    /\ queue' = <<"up">>
    /\ UNCHANGED <<setup, stage, links, inbox, inhibited, at, polls, flag, outcome>>

-----------------------------------------------------------------------------
SInit ==
    /\ setup \in Setups
    /\ stage = "awake" /\ links = setup.nics /\ queue = <<>> /\ inbox = <<>>
    /\ inhibited = (setup.fallback = "listener")
    /\ at = [e \in Entries \cup {"watcher"} |-> "idle"]
    /\ polls = 0
    /\ flag = [f \in {"sleep", "hook"} |-> FALSE]
    /\ tvOff = FALSE /\ on = "none" /\ tv = TRUE

Off(e) == SkipKnownOff(e) \/ PowerOff(e) \/ MarkOff(e)

Dispatcher == PreDown \/ DispatcherClaims \/ Up \/ Off("dispatcher")
Hook == HookPre \/ HookPost \/ Off("hook")
Listener == SleepSignal \/ Grace \/ Release \/ ResumeSignal \/ StartListener \/ Off("listener")
Watcher == WatcherOn \/ GateAwake \/ RemoveStaleFlag \/ Escalate \/ PowerOff("watcher") \/ MarkOff("watcher")
Around == Prepare \/ ToHooks \/ Freeze \/ Thaw \/ Resumed \/ LinkUp \/ LinkDown \/ Replug

SNext == Dispatcher \/ Hook \/ Listener \/ DieListener \/ RunOn \/ Watcher \/ Around

\* Every process that can go on does, logind completes a resume, and a
\* connection that is down comes back.  Nobody has to suspend or wake the
\* machine.
SFairness == /\ WF_svars(Dispatcher) /\ WF_svars(Hook) /\ WF_svars(Listener)
             /\ WF_svars(RunOn) /\ WF_svars(Resumed) /\ WF_svars(LinkUp)

SSpec == SInit /\ [][SNext]_svars /\ SFairness
=============================================================================
