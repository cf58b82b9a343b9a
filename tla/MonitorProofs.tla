--------------------------- MODULE MonitorProofs ---------------------------
(***************************************************************************)
(* Theorems about the DPMS watcher, for every length of the escalation, of *)
(* the jump limit, of the commands and of the naps.                        *)
(***************************************************************************)
EXTENDS MonitorHistory, TLAPS

USE TimeAssumption

(* MTypeOK in two parts: the clocks and readings, and the flags. *)
Clocks ==
    /\ now \in Nat /\ since \in Int /\ lastTick \in Nat /\ offSince \in Nat \cup {NoTime}
    /\ dpms \in Readings /\ state \in Readings /\ prev \in Readings
    /\ pc \in {"sleep", "gate", "stale", "command", "running", "escalate", "powerOff"}

Flags == preparing \in BOOLEAN /\ sleepFlag \in BOOLEAN /\ escalated \in BOOLEAN

\* Every action of the watcher and of the machine keeps the clocks.
LEMMA ClocksStep == Clocks /\ [MNext]_mvars => Clocks'
<1> SUFFICES ASSUME Clocks, [MNext]_mvars  PROVE Clocks'
  OBVIOUS
<1> USE DEF Clocks, Readings, NoTime
<1>1. CASE UNCHANGED mvars
  BY <1>1 DEF mvars, environment, watcher
<1>2. CASE Tick
  BY <1>2 DEF Tick, Counted, environment
<1>3. CASE Step /\ ~Tick
  <2>1. CASE GateSuspend \/ CommandReturns
    BY <2>1 DEF GateSuspend, CommandReturns, Transition, environment
  <2>2. CASE GateAwake \/ RemoveStaleFlag \/ RunCommand
    BY <2>2 DEF GateAwake, RemoveStaleFlag, RunCommand, environment
  <2>3. CASE Escalate \/ Sleep1
    BY <2>3 DEF Escalate, Sleep1, environment
  <2> QED
    BY <1>3, <2>1, <2>2, <2>3 DEF Step
<1>4. CASE Environment
  <2>1. CASE TimePasses
    BY <2>1 DEF TimePasses, environment, watcher
  <2>2. ASSUME NEW length \in 1 .. MaxNap, Nap(length)  PROVE Clocks'
    BY <2>2 DEF Nap, environment
  <2>3. CASE Display \/ Prepare \/ Awaken \/ PreDown \/ Up
    BY <2>3 DEF Display, Prepare, Awaken, PreDown, Up, watcher
  <2>4. CASE Restart
    BY <2>4 DEF Restart, StartWatcher, environment
  <2> QED
    BY <1>4, <2>1, <2>2, <2>3, <2>4 DEF Environment
<1> QED
  BY <1>1, <1>2, <1>3, <1>4 DEF MNext

\* And the flags.
LEMMA FlagsStep == Flags /\ [MNext]_mvars => Flags'
<1> SUFFICES ASSUME Flags, [MNext]_mvars  PROVE Flags'
  OBVIOUS
<1> USE DEF Flags, environment, watcher
<1>1. CASE UNCHANGED mvars
  BY <1>1 DEF mvars
<1>2. CASE Step
  <2>1. CASE Tick \/ GateAwake \/ RunCommand \/ Sleep1
    BY <2>1, Zenon DEF Tick, GateAwake, RunCommand, Sleep1
  <2>2. CASE GateSuspend \/ CommandReturns
    BY <2>2, Zenon DEF GateSuspend, CommandReturns, Transition
  <2>3. CASE RemoveStaleFlag
    BY <2>3, Zenon DEF RemoveStaleFlag
  <2>4. CASE Escalate
    BY <2>4, Zenon DEF Escalate
  <2> QED
    BY <1>2, <2>1, <2>2, <2>3, <2>4 DEF Step
<1>3. CASE Environment
  <2>1. CASE TimePasses \/ Display
    BY <2>1, Zenon DEF TimePasses, Display
  <2>2. ASSUME NEW length \in 1 .. MaxNap, Nap(length)  PROVE Flags'
    BY <2>2, Zenon DEF Nap
  <2>3. CASE Prepare \/ Awaken
    BY <2>3, Zenon DEF Prepare, Awaken
  <2>4. CASE PreDown \/ Up
    BY <2>4, Zenon DEF PreDown, Up
  <2>5. CASE Restart
    BY <2>5, Zenon DEF Restart, StartWatcher
  <2> QED
    BY <1>3, <2>1, <2>2, <2>3, <2>4, <2>5 DEF Environment
<1> QED
  BY <1>1, <1>2, <1>3 DEF MNext

\* A step of the history is a step of the watcher or of its machine.
LEMMA HistoryStep == [HMNext]_hmvars => [MNext]_mvars
<1> SUFFICES ASSUME HMNext  PROVE MNext
  BY DEF hmvars
<1> QED
  BY DEF HMNext, HWatcher, HTime, HNap, HDisplay, HSuspend, HRestart, MNext, Environment

(* What makes EscalationNotEarly inductive: a count belongs to a dark
   display, and the time it counts has really been idle: all of it up to the
   last tick, and all of it up to now unless the next tick will reset it. *)
CountIsIdle ==
    /\ lastTick <= now /\ idle \in Nat
    /\ offSince # NoTime => /\ prev = "off"
                            /\ offSince <= lastTick
                            /\ lastTick - offSince <= idle
                            /\ now - lastTick <= JumpLimit => now - offSince <= idle
    /\ Dimming => prev # "off" /\ (now - lastTick <= JumpLimit => now - lastTick <= idle)
    /\ pc = "powerOff" => idle >= EscalateAfter /\ offSince # NoTime

\* No step of the watcher, no nap and no change around it breaks that.
LEMMA CountStep ==
    ASSUME Clocks, Clocks', CountIsIdle, [HMNext]_hmvars  PROVE CountIsIdle'
<1> USE DEF CountIsIdle, Clocks, Readings, NoTime, Dimming, Counting
<1>1. CASE UNCHANGED hmvars
  BY <1>1 DEF hmvars, mvars, ghosts, environment, watcher
<1>2. CASE HWatcher
  <2>1. CASE Tick
    <3>1. idle' \in Nat /\ lastTick' = now /\ now' = now /\ prev' = prev
          /\ pc' # "powerOff" /\ (pc' \in {"gate", "stale", "command", "running"} => dpms # prev)
          /\ state' = dpms
      BY <1>2, <2>1 DEF HWatcher, Tick
    <3>2. CASE state' = "off" /\ prev # "off"
      BY <3>1, <3>2, <1>2, <2>1 DEF HWatcher, Tick, Counted, environment
    <3>3. CASE ~(state' = "off" /\ prev # "off")
      BY <3>1, <3>3, <1>2, <2>1 DEF HWatcher, Tick, Counted, environment
    <3> QED
      BY <3>2, <3>3
  <2>2. ~Tick => idle' = idle
    BY <1>2 DEF HWatcher
  <2>3. CASE GateSuspend \/ CommandReturns
    <3>1. /\ Transition
          /\ pc = "gate" \/ pc = "running"
          /\ idle' = idle
      BY <2>2, <2>3 DEF GateSuspend, CommandReturns, Tick
    <3>2. /\ prev' = state /\ pc' = "escalate"
          /\ offSince' = IF state = "off" THEN lastTick ELSE NoTime
          /\ UNCHANGED <<now, dpms, since, state, lastTick>>
      BY <3>1 DEF Transition, environment
    <3> QED
      BY <3>1, <3>2
  <2>4. CASE GateAwake \/ RemoveStaleFlag \/ RunCommand
    <3>1. idle' = idle
      BY <2>2, <2>4 DEF GateAwake, RemoveStaleFlag, RunCommand, Tick
    <3> QED
      BY <3>1, <2>4 DEF GateAwake, RemoveStaleFlag, RunCommand, environment
  <2>5. CASE Escalate
    <3>1. /\ pc = "escalate" /\ pc' = "powerOff" /\ offSince # NoTime
          /\ lastTick - offSince >= EscalateAfter
          /\ UNCHANGED <<now, dpms, state, prev, offSince, lastTick>>
      BY <2>5 DEF Escalate, Due, Overdue, environment
    <3>2. idle' = idle
      BY <2>2, <3>1 DEF Tick
    <3> QED
      BY <3>1, <3>2
  <2>6. CASE Sleep1
    <3>1. idle' = idle
      BY <2>2, <2>6 DEF Sleep1, Tick
    <3> QED
      BY <3>1, <2>6 DEF Sleep1, environment
  <2> QED
    BY <1>2, <2>1, <2>3, <2>4, <2>5, <2>6 DEF HWatcher, Step
<1>3. CASE HTime
  BY <1>3 DEF HTime, TimePasses, environment, watcher
<1>4. ASSUME NEW length \in 1 .. MaxNap, HNap(length)  PROVE CountIsIdle'
  BY <1>4 DEF HNap, Nap, environment
<1>5. CASE HDisplay \/ HSuspend
  BY <1>5 DEF HDisplay, HSuspend, Display, Prepare, Awaken, PreDown, Up, watcher
<1>6. CASE HRestart
  BY <1>6 DEF HRestart, Restart, StartWatcher, environment
<1> QED
  BY <1>1, <1>2, <1>3, <1>4, <1>5, <1>6 DEF HMNext

(* What a wait can take, and which reading the watcher has acted on: the one
   it remembers, or the one whose command it runs. *)
Waits ==
    /\ since <= now /\ lastTick <= now
    /\ pc = "sleep" => now - since <= 1
    /\ pc = "running" => IF state = "on" THEN now - since <= OnBlock ELSE now - since <= OffBlock
    /\ pc = "powerOff" => now - since <= OffBlock /\ escalated /\ offSince # NoTime

Acted ==
    /\ heeded = IF pc = "running" THEN state ELSE prev
    /\ pc \in {"gate", "stale", "command", "running"} => state # Unknown /\ state # prev
    /\ pc \in {"gate", "stale"} => state = "off"
    /\ offSince # NoTime => prev = "off" /\ offSince <= lastTick

Grown == steady \in Nat /\ dark \in Nat \cup {NoTime}

\* A command is waited for no longer than it can take, a tick no longer than 1.
LEMMA WaitsStep == Clocks /\ Waits /\ [MNext]_mvars => Waits'
<1> SUFFICES ASSUME Clocks, Waits, [MNext]_mvars  PROVE Waits'
  OBVIOUS
<1> USE DEF Clocks, Waits, Readings, NoTime
<1>1. CASE UNCHANGED mvars
  BY <1>1 DEF mvars, environment, watcher
<1>2. CASE Tick
  BY <1>2 DEF Tick, environment
<1>3. CASE GateSuspend \/ CommandReturns
  BY <1>3 DEF GateSuspend, CommandReturns, Transition, environment
<1>4. CASE GateAwake \/ RemoveStaleFlag \/ RunCommand
  BY <1>4 DEF GateAwake, RemoveStaleFlag, RunCommand, environment
<1>5. CASE Escalate
  BY <1>5 DEF Escalate, Due, environment
<1>6. CASE Sleep1
  BY <1>6 DEF Sleep1, environment
<1>7. CASE TimePasses
  BY <1>7 DEF TimePasses, Patience, environment, watcher
<1>8. ASSUME NEW length \in 1 .. MaxNap, Nap(length)  PROVE Waits'
  BY <1>8 DEF Nap, environment
<1>9. CASE Display \/ Prepare \/ Awaken \/ PreDown \/ Up
  BY <1>9 DEF Display, Prepare, Awaken, PreDown, Up, watcher
<1>10. CASE Restart
  BY <1>10 DEF Restart, StartWatcher, environment
<1> QED
  BY <1>1, <1>2, <1>3, <1>4, <1>5, <1>6, <1>7, <1>8, <1>9, <1>10 DEF MNext, Step, Environment

\* Every transition is acted on, and none but a transition.
LEMMA ActedStep == Clocks /\ Waits /\ Acted /\ [HMNext]_hmvars => Acted'
<1> SUFFICES ASSUME Clocks, Waits, Acted, [HMNext]_hmvars  PROVE Acted'
  OBVIOUS
<1> USE DEF Clocks, Acted, Readings, NoTime
<1>1. CASE UNCHANGED hmvars
  BY <1>1 DEF hmvars, mvars, ghosts, environment, watcher
<1>2. CASE HWatcher
  <2>1. heeded' = IF RunCommand \/ GateSuspend THEN state ELSE heeded
    BY <1>2 DEF HWatcher
  <2>2. CASE Tick
    <3>1. heeded' = heeded
      BY <2>1, <2>2 DEF Tick, RunCommand, GateSuspend
    <3> QED
      BY <3>1, <2>2 DEF Tick, Counted, environment, Waits
  <2>3. CASE GateSuspend
    BY <2>1, <2>3 DEF GateSuspend, Transition, environment
  <2>4. CASE CommandReturns
    <3>1. heeded' = heeded
      BY <2>1, <2>4 DEF CommandReturns, RunCommand, GateSuspend
    <3> QED
      BY <3>1, <2>4 DEF CommandReturns, Transition, environment
  <2>5. CASE GateAwake \/ RemoveStaleFlag
    <3>1. heeded' = heeded
      BY <2>1, <2>5 DEF GateAwake, RemoveStaleFlag, RunCommand, GateSuspend
    <3> QED
      BY <3>1, <2>5 DEF GateAwake, RemoveStaleFlag, environment
  <2>6. CASE RunCommand
    BY <2>1, <2>6 DEF RunCommand, environment
  <2>7. CASE Escalate \/ Sleep1
    <3>1. heeded' = heeded
      BY <2>1, <2>7 DEF Escalate, Sleep1, RunCommand, GateSuspend
    <3> QED
      BY <3>1, <2>7 DEF Escalate, Sleep1, environment
  <2> QED
    BY <1>2, <2>2, <2>3, <2>4, <2>5, <2>6, <2>7 DEF HWatcher, Step
<1>3. CASE HTime
  BY <1>3 DEF HTime, TimePasses, environment, watcher
<1>4. ASSUME NEW length \in 1 .. MaxNap, HNap(length)  PROVE Acted'
  BY <1>4 DEF HNap, Nap, environment
<1>5. CASE HDisplay \/ HSuspend
  BY <1>5 DEF HDisplay, HSuspend, Display, Prepare, Awaken, PreDown, Up, watcher
<1>6. CASE HRestart
  BY <1>6 DEF HRestart, Restart, StartWatcher, environment
<1> QED
  BY <1>1, <1>2, <1>3, <1>4, <1>5, <1>6 DEF HMNext

\* The ages grow by 1 as time passes, until no property asks for more.
LEMMA GrowsByOne ==
    ASSUME NEW n \in Nat \cup {NoTime}
    PROVE  /\ Grow(n) \in Nat \cup {NoTime}
           /\ n \in Nat => Grow(n) \in Nat /\ Grow(n) <= n + 1
           /\ Grow(n) = NoTime <=> n = NoTime
BY DEF Grow, NoTime

\* The ages keep their types.
LEMMA GrownStep == Grown /\ [HMNext]_hmvars => Grown'
<1> SUFFICES ASSUME Grown, [HMNext]_hmvars  PROVE Grown'
  OBVIOUS
<1> USE DEF Grown, NoTime
<1>1. CASE HTime
  BY <1>1, GrowsByOne DEF HTime
<1>2. CASE HDisplay \/ HSuspend \/ HRestart
  BY <1>2 DEF HDisplay, HSuspend, HRestart
<1>3. CASE HWatcher \/ UNCHANGED hmvars \/ \E length \in 1 .. MaxNap : HNap(length)
  BY <1>3 DEF HWatcher, HNap, hmvars, ghosts
<1> QED
  BY <1>1, <1>2, <1>3 DEF HMNext

(* What makes DisplayHeeded inductive: how old a change of the display can be
   that the watcher has not acted on, at each point of its loop. *)
Unheeded == dpms # Unknown /\ dpms # heeded

Heeding ==
    /\ pc \in {"gate", "stale", "command"} /\ dpms # state => steady = 0
    /\ Unheeded =>
        /\ pc = "sleep" => steady <= OnBlock + OffBlock + (now - since)
        /\ pc \in {"gate", "stale", "command"} => steady <= OnBlock + OffBlock + 1
        /\ pc \in {"running", "powerOff"} => steady <= now - since
        /\ pc = "escalate" => \/ steady = 0
                              \/ steady <= OnBlock + OffBlock /\ offSince \in {NoTime, lastTick}

\* No step makes a change of the display older than that before it is heeded.
LEMMA HeedingStep ==
    ASSUME Clocks, Clocks', Waits, Waits', Acted, Acted', Grown, Heeding, [HMNext]_hmvars
    PROVE  Heeding'
<1> USE DEF Clocks, Readings, NoTime, Grown, Heeding, Unheeded
<1>1. CASE UNCHANGED hmvars
  BY <1>1 DEF hmvars, mvars, ghosts, environment, watcher
<1>2. CASE HWatcher
  <2>1. steady' = steady /\ heeded' = (IF RunCommand \/ GateSuspend THEN state ELSE heeded)
    BY <1>2 DEF HWatcher
  <2>2. CASE Tick
    BY <2>1, <2>2 DEF Tick, RunCommand, GateSuspend, environment, Waits, Acted
  <2>3. CASE GateSuspend
    <3>1. heeded' = state /\ pc = "gate" /\ pc' = "escalate" /\ UNCHANGED <<now, dpms>>
      BY <2>1, <2>3 DEF GateSuspend, Transition, environment
    <3> QED
      BY <3>1, <2>1
  <2>4. CASE CommandReturns
    <3>1. heeded' = heeded /\ pc = "running" /\ pc' = "escalate"
          /\ UNCHANGED <<now, dpms, since, state, lastTick>>
          /\ offSince' = IF state = "off" THEN lastTick ELSE NoTime
      BY <2>1, <2>4 DEF CommandReturns, RunCommand, GateSuspend, Transition, environment
    <3> QED
      BY <3>1, <2>1 DEF Waits
  <2>5. CASE GateAwake \/ RemoveStaleFlag
    BY <2>1, <2>5 DEF GateAwake, RemoveStaleFlag, RunCommand, GateSuspend, environment
  <2>6. CASE RunCommand
    <3>1. heeded' = state /\ pc = "command" /\ pc' = "running" /\ since' = now
          /\ UNCHANGED <<now, dpms>>
      BY <2>1, <2>6 DEF RunCommand, environment
    <3> QED
      BY <3>1, <2>1
  <2>7. CASE Escalate
    <3>1. heeded' = heeded /\ pc = "escalate" /\ pc' = "powerOff" /\ since' = now
          /\ UNCHANGED <<now, dpms, state, lastTick, offSince>>
          /\ offSince # NoTime /\ lastTick - offSince >= EscalateAfter
      BY <2>1, <2>7 DEF Escalate, RunCommand, GateSuspend, Due, Overdue, environment
    <3> QED
      BY <3>1, <2>1
  <2>8. CASE Sleep1
    BY <2>1, <2>8 DEF Sleep1, RunCommand, GateSuspend, environment, Waits
  <2> QED
    BY <1>2, <2>2, <2>3, <2>4, <2>5, <2>6, <2>7, <2>8 DEF HWatcher, Step
<1>3. CASE HTime
  <2>1. /\ steady' \in Nat /\ steady' <= steady + 1
        /\ now' = now + 1 /\ now - since < Patience
        /\ UNCHANGED <<dpms, pc, since, state, heeded, offSince, lastTick>>
    BY <1>3, GrowsByOne DEF HTime, TimePasses, environment, watcher
  <2>2. pc \in {"sleep", "running", "powerOff"}
    BY <2>1 DEF Patience, Waits
  <2> QED
    BY <2>1, <2>2
<1>4. ASSUME NEW length \in 1 .. MaxNap, HNap(length)  PROVE Heeding'
  BY <1>4 DEF HNap, Nap, environment
<1>5. CASE HDisplay
  BY <1>5 DEF HDisplay, Display, watcher, Waits
<1>6. CASE HSuspend
  BY <1>6 DEF HSuspend, Prepare, Awaken, PreDown, Up, watcher
<1>7. CASE HRestart
  BY <1>7 DEF HRestart, Restart, environment
<1> QED
  BY <1>1, <1>2, <1>3, <1>4, <1>5, <1>6, <1>7 DEF HMNext

(* What makes EscalatesInTime inductive.  While dark counts, the display is
   off and no suspend begins; the watcher has not seen it yet, or it counts
   towards the escalation, no tick of that count passing for a suspend. *)
Unseen ==
    /\ pc # "powerOff"
    /\ pc = "running" => dark <= now - since
    /\ pc = "escalate" => dark <= OnBlock
    /\ pc = "sleep" => dark <= OnBlock + (now - since)
    /\ pc \in {"gate", "stale", "command"} => dark <= OnBlock + 1 /\ lastTick = now /\ state = "off"
    /\ pc = "command" => sleepFlag = FALSE

Seen ==
    /\ sleepFlag = FALSE /\ pc \notin {"gate", "stale", "command"}
    /\ pc = "running" => dark <= OnBlock + 1 + (now - since) /\ since = lastTick
    /\ pc # "running" /\ escalated # TRUE =>
        /\ offSince # NoTime /\ dark <= OnBlock + 1 + (now - offSince)
        /\ now - offSince <= EscalateAfter
        /\ pc = "escalate" => now - lastTick <= OffBlock /\ lastTick \in {now, offSince}
        /\ pc = "sleep" => since - offSince < EscalateAfter /\ since - lastTick <= OffBlock

Darkened ==
    dark # NoTime =>
        /\ dpms = "off" /\ preparing = FALSE /\ heeded \in {"on", "off"}
        /\ heeded = "on" => Unseen
        /\ heeded = "off" => Seen

\* With a short enough SCREEN_OFF, no step lets a darkness go uncounted.
LEMMA DarkenedStep ==
    ASSUME Clocks, Clocks', Flags, Flags', Waits, Waits', Acted, Acted', Grown, Darkened,
           OffBlock < JumpLimit, OffBlock < EscalateAfter, [HMNext]_hmvars
    PROVE  Darkened'
<1> SUFFICES ASSUME dark' # NoTime  PROVE Darkened'
  BY DEF Darkened
<1> USE DEF Clocks, Readings, NoTime, Grown
<1>1. CASE UNCHANGED hmvars
  BY <1>1 DEF hmvars, mvars, ghosts, environment, watcher, Darkened, Seen, Unseen
<1>2. CASE HWatcher
  <2>1. /\ dark' = dark /\ heeded' = (IF RunCommand \/ GateSuspend THEN state ELSE heeded)
        /\ dpms = "off" /\ preparing = FALSE /\ heeded \in {"on", "off"}
        /\ heeded = "on" => Unseen
        /\ heeded = "off" => Seen
    BY <1>2 DEF HWatcher, Darkened
  <2>2. CASE Tick
    <3>1. /\ heeded' = heeded /\ pc = "sleep" /\ now - since >= 1 /\ prev = heeded
          /\ UNCHANGED <<now, since, dpms, preparing, sleepFlag, escalated>>
          /\ lastTick' = now /\ offSince' = Counted(now - lastTick, offSince)
          /\ state' = "off"
          /\ pc' = IF prev # "off" THEN "gate" ELSE "escalate"
      BY <2>1, <2>2 DEF Tick, RunCommand, GateSuspend, environment, Acted, Unknown
    <3>2. CASE heeded = "on"
      BY <3>1, <3>2, <2>1 DEF Darkened, Unseen, Waits
    <3>3. CASE heeded = "off"
      <4>1. /\ Seen /\ pc' = "escalate" /\ now' = now /\ now - since <= 1
            /\ dpms' = "off" /\ preparing' = FALSE /\ heeded' = "off" /\ sleepFlag' = FALSE
        BY <3>1, <3>3, <2>1 DEF Waits, Seen
      <4>2. CASE escalated = TRUE
        BY <3>1, <4>1, <4>2 DEF Darkened, Seen
      <4>3. CASE escalated # TRUE
        <5>1. offSince # NoTime /\ now - lastTick <= JumpLimit
              /\ since - offSince < EscalateAfter /\ dark <= OnBlock + 1 + (now - offSince)
          BY <3>1, <4>1, <4>3 DEF Seen
        <5>2. offSince' = offSince
          BY <3>1, <5>1 DEF Counted
        <5>3. now' - lastTick' <= OffBlock /\ lastTick' = now' /\ dark' <= OnBlock + 1 + (now' - offSince')
              /\ now' - offSince' <= EscalateAfter /\ offSince' # NoTime
          BY <3>1, <4>1, <5>1, <5>2, <2>1
        <5>4. Seen'
          BY <4>1, <5>3 DEF Seen
        <5> QED
          BY <4>1, <5>4 DEF Darkened
      <4> QED
        BY <4>2, <4>3
    <3> QED
      BY <2>1, <3>2, <3>3
  <2>3. CASE GateSuspend
    BY <2>1, <2>3 DEF GateSuspend
  <2>4. CASE CommandReturns
    <3>1. /\ heeded' = heeded /\ pc = "running" /\ pc' = "escalate" /\ heeded = state
          /\ UNCHANGED <<now, since, dpms, preparing, sleepFlag, state, lastTick>>
          /\ state = "off" => offSince' = lastTick /\ escalated' = FALSE
      BY <2>1, <2>4 DEF CommandReturns, RunCommand, GateSuspend, Transition, environment, Acted
    <3>2. CASE heeded = "on"
      BY <3>1, <3>2, <2>1 DEF Darkened, Unseen, Waits
    <3>3. CASE heeded = "off"
      <4>1. /\ dark <= OnBlock + 1 + (now - lastTick) /\ now - lastTick <= OffBlock
            /\ offSince' = lastTick /\ sleepFlag' = FALSE
        BY <3>1, <3>3, <2>1 DEF Seen, Waits
      <4>2. /\ dark' <= OnBlock + 1 + (now' - offSince') /\ now' - offSince' <= EscalateAfter
            /\ now' - lastTick' <= OffBlock /\ lastTick' = offSince' /\ offSince' # NoTime
        BY <3>1, <2>1, <4>1
      <4>3. Seen'
        BY <3>1, <4>1, <4>2 DEF Seen
      <4> QED
        BY <3>1, <3>3, <2>1, <4>3 DEF Darkened
    <3> QED
      BY <2>1, <3>2, <3>3
  <2>5. CASE GateAwake \/ RemoveStaleFlag
    <3>1. /\ heeded' = heeded /\ pc \in {"gate", "stale"} /\ pc' \in {"stale", "command"}
          /\ UNCHANGED <<now, since, dpms, preparing, escalated, state, lastTick, offSince>>
          /\ pc' = "command" => sleepFlag' = FALSE
      BY <2>1, <2>5 DEF GateAwake, RemoveStaleFlag, RunCommand, GateSuspend, environment
    <3> QED
      BY <3>1, <2>1 DEF Darkened, Seen, Unseen
  <2>6. CASE RunCommand
    <3>1. /\ heeded' = state /\ pc = "command" /\ pc' = "running" /\ since' = now
          /\ UNCHANGED <<now, dpms, preparing, sleepFlag, state, lastTick>>
      BY <2>1, <2>6 DEF RunCommand, environment
    <3> QED
      BY <3>1, <2>1 DEF Darkened, Seen, Unseen
  <2>7. CASE Escalate
    <3>1. /\ heeded' = heeded /\ pc = "escalate" /\ pc' = "powerOff" /\ escalated' = TRUE
          /\ UNCHANGED <<now, dpms, preparing, sleepFlag>> /\ prev = heeded /\ offSince # NoTime
      BY <2>1, <2>7 DEF Escalate, Due, RunCommand, GateSuspend, environment, Acted
    <3> QED
      BY <3>1, <2>1 DEF Darkened, Seen, Acted
  <2>8. CASE Sleep1
    <3>1. /\ heeded' = heeded /\ pc' = "sleep" /\ since' = now
          /\ UNCHANGED <<now, dpms, preparing, sleepFlag, escalated, lastTick, offSince>>
          /\ pc = "powerOff" \/ (pc = "escalate" /\ ~Due)
      BY <2>1, <2>8 DEF Sleep1, RunCommand, GateSuspend, environment
    <3>2. CASE heeded = "on"
      BY <3>1, <3>2, <2>1 DEF Darkened, Unseen
    <3>3. CASE heeded = "off"
      <4>1. CASE escalated = TRUE
        BY <3>1, <3>3, <2>1, <4>1 DEF Darkened, Seen
      <4>2. CASE escalated # TRUE
        <5>1. pc = "escalate" /\ ~Due /\ ~escalated
          BY <3>1, <4>2 DEF Waits, Flags
        <5>2. offSince # NoTime /\ dark <= OnBlock + 1 + (now - offSince)
              /\ now - lastTick <= OffBlock /\ lastTick \in {now, offSince}
          BY <3>3, <2>1, <4>2, <5>1 DEF Seen
        <5>3. ~sleepFlag
          BY <3>3, <2>1 DEF Seen
        <5>4. lastTick - offSince < EscalateAfter
          BY <5>1, <5>2, <5>3 DEF Due, Overdue
        <5>5. now - offSince < EscalateAfter
          BY <5>2, <5>4
        <5> QED
          BY <3>1, <3>3, <2>1, <5>2, <5>5 DEF Darkened, Seen
      <4> QED
        BY <4>1, <4>2
    <3> QED
      BY <2>1, <3>2, <3>3
  <2> QED
    BY <1>2, <2>2, <2>3, <2>4, <2>5, <2>6, <2>7, <2>8 DEF HWatcher, Step
<1>3. CASE HTime
  <2>1. /\ dark # NoTime /\ dark \in Nat /\ dark' \in Nat /\ dark' <= dark + 1
        /\ now' = now + 1 /\ now - since < Patience
        /\ UNCHANGED <<dpms, preparing, sleepFlag, pc, since, state, heeded, escalated, offSince, lastTick>>
    BY <1>3, GrowsByOne DEF HTime, TimePasses, environment, watcher
  <2>2. pc \in {"sleep", "running", "powerOff"} /\ (pc = "sleep" => now - since < 1)
    BY <2>1 DEF Patience, Waits
  <2>3. CASE heeded = "on"
    BY <2>1, <2>2, <2>3 DEF Darkened, Unseen
  <2>4. CASE heeded = "off"
    <3>1. Seen /\ sleepFlag' = FALSE
      BY <2>1, <2>4 DEF Darkened, Seen
    <3>2. CASE pc = "running"
      BY <2>1, <2>4, <3>1, <3>2 DEF Darkened, Seen
    <3>3. CASE escalated = TRUE /\ pc # "running"
      BY <2>1, <2>2, <2>4, <3>1, <3>3 DEF Darkened, Seen
    <3>4. CASE escalated # TRUE /\ pc # "running"
      <4>1. pc = "sleep"
        BY <2>2, <3>4 DEF Waits
      <4> QED
        BY <2>1, <2>2, <2>4, <3>1, <3>4, <4>1 DEF Darkened, Seen
    <3> QED
      BY <3>2, <3>3, <3>4
  <2> QED
    BY <2>1, <2>3, <2>4 DEF Darkened
<1>4. ASSUME NEW length \in 1 .. MaxNap, HNap(length)  PROVE Darkened'
  BY <1>4 DEF HNap, Nap, Darkened
<1>5. CASE HDisplay
  <2>1. /\ dpms' = "off" /\ heeded = "on" /\ ~Dimming /\ preparing = FALSE /\ dark' = 0
        /\ UNCHANGED <<now, preparing, pc, since, state, heeded, lastTick>>
    BY <1>5 DEF HDisplay, Display, watcher, Flags
  <2> QED
    BY <2>1 DEF Darkened, Unseen, Waits, Acted, Dimming
<1>6. CASE HSuspend
  <2>1. /\ preparing' = FALSE /\ dark' = dark /\ heeded' = heeded
        /\ UNCHANGED <<now, dpms, pc, since, state, escalated, offSince, lastTick>>
        /\ sleepFlag' \in {sleepFlag, FALSE} \/ preparing
        /\ preparing \/ preparing' = preparing
    BY <1>6 DEF HSuspend, Prepare, Awaken, PreDown, Up, watcher, Flags
  <2> QED
    BY <2>1 DEF Darkened, Seen, Unseen
<1>7. CASE HRestart
  BY <1>7 DEF HRestart
<1> QED
  BY <1>1, <1>2, <1>3, <1>4, <1>5, <1>6, <1>7 DEF HMNext

\* The watcher's clocks and readings keep their types.
LEMMA ClocksCorrect == HMSpec => []Clocks
<1>1. HMInit => Clocks
  BY DEF HMInit, MInit, Clocks, Readings, NoTime
<1> QED
  BY <1>1, ClocksStep, HistoryStep, PTL DEF HMSpec

\* The watcher and the machine around it keep their types.
THEOREM MTypeCorrect == HMSpec => []MTypeOK
<1>1. HMInit => Flags
  BY Zenon DEF HMInit, MInit, Flags
<1>2. Clocks /\ Flags => MTypeOK
  BY Zenon DEF Clocks, Flags, MTypeOK
<1> QED
  BY <1>1, <1>2, ClocksCorrect, FlagsStep, HistoryStep, PTL DEF HMSpec

\* The escalation never comes early: whatever the commands, naps, flags and
\* restarts, the machine has been awake with a dark display for long enough.
THEOREM NotEarly == HMSpec => []EscalationNotEarly
<1>1. HMInit => CountIsIdle
  BY DEF HMInit, MInit, CountIsIdle, Dimming, NoTime
<1>2. Clocks /\ Clocks' /\ CountIsIdle /\ [HMNext]_hmvars => CountIsIdle'
  BY CountStep
<1>3. CountIsIdle => EscalationNotEarly
  BY DEF CountIsIdle, EscalationNotEarly
<1> QED
  BY <1>1, <1>2, <1>3, ClocksCorrect, PTL DEF HMSpec

\* Waits, readings and ages stay as the two theorems below need them.
LEMMA PaceCorrect == HMSpec => [](Clocks /\ Waits /\ Acted /\ Grown)
<1>1. HMInit => Waits /\ Acted /\ Grown
  BY DEF HMInit, MInit, Waits, Acted, Grown, NoTime, Readings
<1> QED
  BY <1>1, ClocksCorrect, WaitsStep, ActedStep, GrownStep, HistoryStep, PTL DEF HMSpec

\* No change of the display is lost to a blocking command: the watcher acts on
\* every one that lasts as long as two commands and a tick.
THEOREM NoChangeLost == HMSpec => []DisplayHeeded
<1>1. HMInit => Heeding
  BY DEF HMInit, MInit, Heeding, Unheeded
<1>2. Clocks /\ Clocks' /\ Waits /\ Waits' /\ Acted /\ Acted' /\ Grown /\ Heeding
      /\ [HMNext]_hmvars => Heeding'
  BY HeedingStep
<1>3. Clocks /\ Waits /\ Grown /\ Heeding => DisplayHeeded
  BY DEF Clocks, Waits, Grown, Heeding, Unheeded, DisplayHeeded
<1> QED
  BY <1>1, <1>2, <1>3, PaceCorrect, PTL DEF HMSpec

\* A display that goes dark in normal use has the TV powered off in time:
\* neither a stale flag nor a command the watcher is blocked on prevents it.
THEOREM InTime == HMSpec => []EscalatesInTime
<1> DEFINE Short == OffBlock < JumpLimit /\ OffBlock < EscalateAfter
           DarkInv == Short => Darkened
<1>1. HMInit => DarkInv
  BY DEF HMInit, Darkened
<1>2. Clocks /\ Clocks' /\ Flags /\ Flags' /\ Waits /\ Waits' /\ Acted /\ Acted' /\ Grown
      /\ DarkInv /\ [HMNext]_hmvars => DarkInv'
  BY DarkenedStep
<1>3. Clocks /\ Flags /\ Waits /\ Acted /\ Grown /\ DarkInv => EscalatesInTime
  <2> SUFFICES ASSUME Clocks, Flags, Waits, Acted, Grown, Short, Darkened, dark > EscalateAfter + OnBlock + 1
               PROVE  escalated
    BY DEF EscalatesInTime
  <2>1. dark # NoTime /\ dark \in Nat
    BY DEF Grown, NoTime
  <2>2. ~Unseen
    BY <2>1 DEF Clocks, Waits, Acted, Unseen, Readings, Darkened
  <2>3. Seen /\ heeded = "off"
    BY <2>1, <2>2 DEF Darkened
  <2>4. pc # "running"
    BY <2>1, <2>3 DEF Clocks, Waits, Acted, Seen
  <2>5. escalated = TRUE
    <3> SUFFICES ASSUME escalated # TRUE  PROVE FALSE
      OBVIOUS
    <3>1. offSince # NoTime /\ dark <= OnBlock + 1 + (now - offSince) /\ now - offSince <= EscalateAfter
      BY <2>3, <2>4 DEF Seen
    <3> QED
      BY <2>1, <3>1 DEF Clocks, NoTime
  <2> QED
    BY <2>5
<1>4. HMSpec => []Flags
  <2>1. HMInit => Flags
    BY Zenon DEF HMInit, MInit, Flags
  <2> QED
    BY <2>1, FlagsStep, HistoryStep, PTL DEF HMSpec
<1> QED
  BY <1>1, <1>2, <1>3, <1>4, PaceCorrect, PTL DEF HMSpec
=============================================================================
