--------------------------- MODULE MonitorHistory ---------------------------
(***************************************************************************)
(* Monitor with history variables: how long the display has really been    *)
(* dark or unchanged, and which reading the watcher has acted on.  They    *)
(* restrict nothing, and they count only time the machine was awake.       *)
(***************************************************************************)
EXTENDS Monitor

VARIABLES
    idle,       \* since the tick that saw the display go off; a nap of up to
                \* JumpLimit counts too, a tick cannot tell it from a delay
    dark,       \* since the display went off, when the watcher had heeded it on
                \* and nothing but time has passed since; else NoTime
    steady,     \* since the display last changed
    heeded      \* the reading the watcher last acted on, or began with

ghosts == <<idle, dark, steady, heeded>>
hmvars == <<mvars, ghosts>>

Dimming == pc \in {"gate", "stale", "command", "running"} /\ state = "off"
Counting == offSince # NoTime \/ Dimming

\* No property asks for more than that.
Longest == EscalateAfter + OnBlock + OffBlock + 2
Grow(n) == IF n = NoTime \/ n = Longest THEN n ELSE n + 1

HWatcher ==
    /\ Step
    /\ idle' = IF Tick /\ state' = "off" /\ prev # "off" THEN 0 ELSE idle
    /\ heeded' = IF RunCommand \/ GateSuspend THEN state ELSE heeded
    /\ UNCHANGED <<dark, steady>>

HTime ==
    /\ TimePasses
    /\ idle' = IF Counting THEN idle + 1 ELSE 0
    /\ dark' = Grow(dark) /\ steady' = Grow(steady)
    /\ UNCHANGED heeded

HNap(length) ==
    /\ Nap(length)
    /\ idle' = IF Counting /\ length <= JumpLimit THEN idle + length ELSE idle
    /\ UNCHANGED <<dark, steady, heeded>>

HDisplay ==
    /\ Display
    /\ dark' = IF dpms' = "off" /\ heeded = "on" /\ ~Dimming /\ ~preparing
               THEN 0 ELSE NoTime
    /\ steady' = 0
    /\ UNCHANGED <<idle, heeded>>

HSuspend ==
    /\ Prepare \/ Awaken \/ PreDown \/ Up
    /\ dark' = IF preparing' THEN NoTime ELSE dark
    /\ UNCHANGED <<idle, steady, heeded>>

HRestart ==
    /\ Restart
    /\ idle' = 0 /\ dark' = NoTime /\ steady' = 0 /\ heeded' = dpms

HMInit == MInit /\ idle = 0 /\ dark = NoTime /\ steady = 0 /\ heeded = dpms

HMNext == HWatcher \/ HTime \/ (\E length \in 1 .. MaxNap : HNap(length))
          \/ HDisplay \/ HSuspend \/ HRestart

HMSpec == HMInit /\ [][HMNext]_hmvars

-----------------------------------------------------------------------------
\* The TV is powered off only after the machine has been awake with a dark
\* display for EscalateAfter: neither a suspend, nor a period of darkness
\* before this one, nor a blocking command makes it earlier (the count starts
\* at the tick that saw the display go off, not before).
EscalationNotEarly == pc = "powerOff" => idle >= EscalateAfter

\* With a SCREEN_OFF shorter than the jump limit and than the escalation (both are
\* needed: a longer one makes the tick after it a jump, or late), a display that
\* goes dark in normal use has the TV powered off within EscalateAfter, the ON the
\* watcher may be blocked on and a tick: a stale sleep flag does not prevent it, the
\* blocking SCREEN_OFF does not delay it.
EscalatesInTime ==
    OffBlock < JumpLimit /\ OffBlock < EscalateAfter /\ dark > EscalateAfter + OnBlock + 1
        => escalated

\* No change of the display is lost to a blocking command: once the display
\* has been the same for as long as a command and a tick take, the watcher
\* has acted on it.
DisplayHeeded ==
    dpms # Unknown /\ steady > OnBlock + OffBlock + 1 => heeded = dpms
=============================================================================
