--------------------------- MODULE SuspendHistory ---------------------------
(***************************************************************************)
(* Suspend with history variables: the number of entry points that have    *)
(* taken the present suspend for theirs, with what it has to do with the   *)
(* promise of SleepCycle, and whether the listener has died since it last  *)
(* heard of a resume.                                                      *)
(***************************************************************************)
EXTENDS Suspend

VARIABLES claims, deaf

hsvars == <<svars, claims, deaf>>

Claiming == \E e \in Entries : at[e] # "hint" /\ at'[e] = "hint"

HSInit == SInit /\ claims = 0 /\ deaf = FALSE

HSNext == /\ SNext
          /\ claims' = IF stage = "awake" /\ stage' = "preparing" THEN 0
                       ELSE IF Claiming /\ claims < 2 THEN claims + 1
                       ELSE claims
          /\ deaf' = (at'["listener"] = "dead" \/ (deaf /\ ~ResumeSignal))

HSSpec == HSInit /\ [][HSNext]_hsvars /\ SFairness

Owed == flag["sleep"] \/ flag["hook"]

Stage == IF stage = "hooks" THEN "preparing" ELSE IF stage = "waking" THEN "awake" ELSE stage

Promise == INSTANCE SleepCycle WITH stage <- Stage, handled <- claims, owed <- Owed

-----------------------------------------------------------------------------
STypeOK ==
    /\ stage \in {"awake", "preparing", "hooks", "asleep", "waking"}
    /\ setup \in Setups /\ links \in 0 .. setup.nics
    /\ queue \in Seq({"pre-down", "up"}) /\ Len(queue) <= MaxQueue
    /\ inbox \in Seq(BOOLEAN) /\ Len(inbox) <= 3
    /\ inhibited \in BOOLEAN
    /\ at \in [Entries \cup {"watcher"} -> {"idle", "claim", "grace", "hint", "off", "mark",
                                          "release", "done", "stale", "dead"}]
    /\ at["dispatcher"] \in {"idle", "claim", "hint", "off", "mark"}
    /\ at["dispatcher"] # "idle" => Event("pre-down")
    /\ polls \in 0 .. GracePolls
    /\ flag \in [{"sleep", "hook"} -> BOOLEAN]
    /\ tvOff \in BOOLEAN /\ tv \in BOOLEAN
    /\ on \in {"none", "clear", "wake", "input"}

\* The entry points keep their promise: each suspend is handled by exactly one
\* of them before the machine sleeps, however many devices go down, and
\* answered once after it, in time for the next.
CycleKept == Promise!Spec

\* A resume from a suspend that an entry point took for its own gets its ON,
\* or finds one under way, also when the OFF failed or was not needed.
ResumeAnswered ==
    stage = "asleep" /\ claims > 0 /\ <>(stage = "waking")
        ~> stage # "asleep" /\ on # "none"

\* No entry point's OFF is cut by the sleep: the machine does not sleep while
\* one of them has begun to turn the TV off and is not done.
NoOffAcrossSleep ==
    stage = "asleep" => \A e \in Entries : at[e] \notin {"hint", "off", "mark"}

Settled ==
    /\ stage = "awake" /\ links = setup.nics /\ queue = <<>> /\ inbox = <<>>
    /\ \A e \in Entries \cup {"watcher"} : at[e] = "idle"
    /\ on = "none"

\* Even when logind tires of waiting, a suspend interrupts an OFF or follows
\* the last one at once: when everything has come to rest and the network is
\* back, no flag of a past suspend is left to make the next one stand down.  A
\* listener that died leaves its flag until it hears of a resume, and no longer.
SettledOwesNothing == Settled => ~flag["sleep"] /\ (~deaf => ~flag["hook"])

\* What the hook's comment says of a sleep flag it finds: the dispatcher has
\* handled this suspend.  So a machine never sleeps through a suspend that
\* nobody handled.
SuspendHandled == stage = "asleep" => claims > 0
=============================================================================
