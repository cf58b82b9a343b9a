---------------------------- MODULE CycleProofs ----------------------------
(* That the suspend entry points keep their promise where suspends are not  *)
(* hurried: each finds the last one over, and logind waits for inhibitors.  *)
EXTENDS SuspendProofs

\* Suspends that leave everybody the time they need.
Unhurried == Calm /\ ~DelayExpires /\ ~ListenerDies

--------------------------------------------------------------------------
(* No OFF across the sleep.                                               *)

\* The only pending signal.
PendsSleep == Len(inbox) = 1 /\ Head(inbox) = TRUE
PendsResume == Len(inbox) = 1 /\ Head(inbox) = FALSE

\* NetworkManager is done with its scripts when the suspend goes ahead.
Patient == "pre-down" \in Pending => stage \notin {"hooks", "asleep"}

\* The listener holds its inhibitor from the resume to the end of its OFF.
ListenInv ==
    /\ at["listener"] # "dead"
    /\ setup.fallback = "hook" => inbox = <<>> /\ ~inhibited
    /\ setup.fallback = "listener" =>
         /\ stage = "awake" => /\ at["listener"] = "idle"
                               /\ inhibited => inbox = <<>>
                               /\ ~inhibited => PendsResume
         /\ stage = "preparing" =>
              /\ inhibited => \/ PendsSleep /\ at["listener"] = "idle"
                              \/ inbox = <<>> /\ at["listener"] # "idle"
              /\ ~inhibited => inbox = <<>> /\ at["listener"] = "idle"
         /\ stage \in {"hooks", "asleep", "waking"} =>
              inbox = <<>> /\ ~inhibited /\ at["listener"] = "idle"

\* What a listener knows of its signals.
LEMMA OneSignal ==
    TInv => /\ inbox = <<>> => ~PendsSleep /\ ~PendsResume
            /\ ~(PendsSleep /\ PendsResume)
            /\ SleepSignal => ~PendsResume /\ inbox # <<>> /\ (PendsSleep => inbox' = <<>>)
            /\ ResumeSignal => ~PendsSleep /\ inbox # <<>> /\ (PendsResume => inbox' = <<>>)
            /\ inbox = <<>> /\ inbox' = Append(inbox, TRUE) => PendsSleep'
            /\ inbox = <<>> /\ inbox' = Append(inbox, FALSE) => PendsResume'
            /\ UNCHANGED inbox => (PendsSleep' <=> PendsSleep) /\ (PendsResume' <=> PendsResume)
<1> SUFFICES ASSUME TInv
             PROVE  /\ inbox = <<>> => ~PendsSleep /\ ~PendsResume
                    /\ ~(PendsSleep /\ PendsResume)
                    /\ SleepSignal => ~PendsResume /\ inbox # <<>> /\ (PendsSleep => inbox' = <<>>)
                    /\ ResumeSignal => ~PendsSleep /\ inbox # <<>> /\ (PendsResume => inbox' = <<>>)
                    /\ inbox = <<>> /\ inbox' = Append(inbox, TRUE) => PendsSleep'
                    /\ inbox = <<>> /\ inbox' = Append(inbox, FALSE) => PendsResume'
                    /\ UNCHANGED inbox => (PendsSleep' <=> PendsSleep) /\ (PendsResume' <=> PendsResume)
  OBVIOUS
<1>1. inbox \in Seq(BOOLEAN) /\ Len(inbox) \in Nat
  BY LenProperties DEF TInv, STypeOK
<1>2. Len(<<>>) = 0 /\ 0 # 1 /\ TRUE # FALSE
  OBVIOUS
<1>3. inbox = <<>> => ~PendsSleep /\ ~PendsResume
  BY <1>2, Zenon DEF PendsSleep, PendsResume
<1>4. ~(PendsSleep /\ PendsResume)
  BY <1>2, Zenon DEF PendsSleep, PendsResume
<1>5. ASSUME inbox # <<>>, inbox' = Tail(inbox), Len(inbox) = 1  PROVE inbox' = <<>>
  <2>1. inbox' \in Seq(BOOLEAN) /\ Len(inbox') = Len(inbox) - 1
    BY <1>1, <1>5, TailMembers, Zenon
  <2> QED
    BY <1>1, <1>5, <2>1, EmptySeq
<1>6. SleepSignal => ~PendsResume /\ inbox # <<>> /\ (PendsSleep => inbox' = <<>>)
  BY <1>2, <1>5, Zenon DEF SleepSignal, ReadSignal, PendsSleep, PendsResume
<1>7. ResumeSignal => ~PendsSleep /\ inbox # <<>> /\ (PendsResume => inbox' = <<>>)
  BY <1>2, <1>5, Zenon DEF ResumeSignal, ReadSignal, PendsSleep, PendsResume
<1>8. ASSUME NEW b \in BOOLEAN, inbox = <<>>, inbox' = Append(inbox, b)  PROVE Len(inbox') = 1 /\ Head(inbox') = b
  <2>1. inbox' \in Seq(BOOLEAN) /\ inbox' # <<>> /\ Len(inbox') = Len(inbox) + 1 /\ inbox'[Len(inbox) + 1] = b
    <3>1. inbox \in Seq(BOOLEAN) /\ b \in BOOLEAN
      BY <1>1
    <3>2. /\ Append(inbox, b) \in Seq(BOOLEAN) /\ Len(Append(inbox, b)) = Len(inbox) + 1
          /\ Append(inbox, b) # <<>> /\ Append(inbox, b)[Len(inbox) + 1] = b
      BY <3>1, AppendMembers, ZenonT(30)
    <3> QED
      BY <1>8, <3>2, Zenon
  <2>2. Len(inbox) = 0 /\ 0 + 1 = 1
    BY <1>2, <1>8
  <2>3. Head(inbox') = inbox'[1]
    BY <2>1, TailMembers, Zenon
  <2> QED
    BY <2>1, <2>2, <2>3, Zenon
<1>9. TRUE \in BOOLEAN /\ FALSE \in BOOLEAN
  OBVIOUS
<1>10. inbox = <<>> /\ inbox' = Append(inbox, TRUE) => PendsSleep'
  BY <1>8, <1>9, Zenon DEF PendsSleep
<1>11. inbox = <<>> /\ inbox' = Append(inbox, FALSE) => PendsResume'
  BY <1>8, <1>9, Zenon DEF PendsResume
<1>12. UNCHANGED inbox => (PendsSleep' <=> PendsSleep) /\ (PendsResume' <=> PendsResume)
  BY Zenon DEF PendsSleep, PendsResume
<1> QED
  BY <1>3, <1>4, <1>6, <1>7, <1>10, <1>11, <1>12, Zenon

\* Events that NetworkManager has not run its script for do not come by its running one.
LEMMA PendingStays ==
    ASSUME TInv, queue' = queue \/ (queue # <<>> /\ queue' = Tail(queue))
    PROVE  Pending' \subseteq Pending
<1>1. queue \in Seq(Events)
  BY DEF TInv, STypeOK, Events
<1>2. CASE queue' = queue
  BY <1>2 DEF Pending
<1>3. CASE queue # <<>> /\ queue' = Tail(queue)
  <2>1. Members(Tail(queue)) \subseteq Members(queue)
    BY <1>1, <1>3, TailMembers, Zenon
  <2> QED
    BY <1>3, <2>1 DEF Members, Pending
<1> QED
  BY <1>2, <1>3

\* Every step leaves the suspend waiting for NetworkManager.
LEMMA PatientStep == TInv /\ Patient /\ ~DelayExpires /\ [SNext]_svars => Patient'
<1> SUFFICES ASSUME TInv, Patient, ~DelayExpires, [SNext]_svars PROVE Patient'
  OBVIOUS
<1>1. at["dispatcher"] # "idle" => Event("pre-down")
  BY DEF TInv, STypeOK
<1> USE DEF machine, outcome, Event
<1>2. ASSUME UNCHANGED stage, queue' = queue \/ (queue # <<>> /\ queue' = Tail(queue))
      PROVE  Patient'
  BY <1>2, PendingStays DEF Patient
<1>3. CASE UNCHANGED svars
  BY <1>2, <1>3 DEF svars
<1>4. ASSUME NEW e \in Walkers, SkipKnownOff(e) \/ PowerOff(e) \/ MarkOff(e)  PROVE Patient'
  <2>1. PICK to \in {"off", "mark", Over(e)} : OffMoves(e, to)
    BY <1>4, OffStep
  <2> QED
    BY <1>1, <1>2, <2>1 DEF OffMoves
<1>5. CASE PreDown \/ DispatcherClaims \/ Up
  BY <1>1, <1>2, <1>5 DEF PreDown, DispatcherClaims, Up
<1>6. CASE HookPre \/ HookPost \/ SleepSignal \/ Grace \/ Release \/ ResumeSignal
  BY <1>2, <1>6 DEF HookPre, HookPost, SleepSignal, Grace, Release, ResumeSignal
<1>7. CASE DieListener \/ StartListener \/ RunOn
  BY <1>2, <1>7 DEF DieListener, StartListener, RunOn
<1>8. CASE WatcherOn \/ GateAwake \/ RemoveStaleFlag \/ Escalate
  BY <1>2, <1>8 DEF WatcherOn, GateAwake, RemoveStaleFlag, Escalate
<1>9. CASE Prepare \/ Thaw \/ Resumed \/ LinkUp \/ LinkDown \/ Replug
  <2>1. stage' \notin {"hooks", "asleep"}
    BY <1>9 DEF Prepare, Thaw, Resumed, LinkUp, LinkDown, Replug
  <2> QED
    BY <2>1 DEF Patient
<1>10. CASE ToHooks \/ Freeze
  <2>1. "pre-down" \notin Pending /\ queue' = queue
    BY <1>10 DEF ToHooks, Freeze, InhibitorsGone, Patient
  <2> QED
    BY <2>1 DEF Patient, Pending
<1> QED
  BY <1>3, <1>4, <1>5, <1>6, <1>7, <1>8, <1>9, <1>10
     DEF SNext, Dispatcher, Hook, Listener, Watcher, Around, Off, Walkers, Entries

\* A step that is nothing to the listener, or takes its OFF further.
LEMMA ListenQuiet ==
    ASSUME TInv, ListenInv, UNCHANGED <<setup, stage, inbox>>, inhibited' <=> inhibited,
           at'["listener"] # "dead", at'["listener"] = "idle" <=> at["listener"] = "idle"
    PROVE  ListenInv'
<1>1. (PendsSleep' <=> PendsSleep) /\ (PendsResume' <=> PendsResume)
  BY OneSignal
<1> QED
  BY <1>1 DEF ListenInv

\* Every step leaves the listener its inhibitor until its OFF is over.
LEMMA ListenStep == TInv /\ HookInv /\ ListenInv /\ Unhurried /\ [SNext]_svars => ListenInv'
<1> SUFFICES ASSUME TInv, HookInv, ListenInv, Unhurried, [SNext]_svars PROVE ListenInv'
  OBVIOUS
<1>1. /\ at \in [Walkers -> Points] /\ stage \in {"awake", "preparing", "hooks", "asleep", "waking"}
      /\ setup.fallback \in {"hook", "listener"}
      /\ inbox # <<>> \/ at["listener"] # "idle" => setup.fallback = "listener"
  <2>1. setup.fallback \in {"hook", "listener"}
    BY SuspendAssumption DEF TInv, STypeOK
  <2>2. at \in [Walkers -> Points] /\ stage \in {"awake", "preparing", "hooks", "asleep", "waking"}
    BY DEF TInv, STypeOK, Walkers, Points, Entries
  <2>3. inbox # <<>> \/ at["listener"] # "idle" => setup.fallback = "listener"
    BY DEF HookInv
  <2> QED
    BY <2>1, <2>2, <2>3
<1> USE DEF Walkers, Entries, machine, outcome, Goto
<1>2. ASSUME UNCHANGED <<setup, stage, inbox>>, inhibited' <=> inhibited, at'["listener"] = at["listener"]
      PROVE  ListenInv'
  BY <1>2, ListenQuiet DEF ListenInv
<1>3. CASE UNCHANGED svars
  <2>1. inhibited' <=> inhibited
    BY <1>3, Zenon DEF svars
  <2> QED
    BY <1>2, <1>3, <2>1 DEF svars
<1>4. ASSUME NEW e \in Walkers, SkipKnownOff(e) \/ PowerOff(e) \/ MarkOff(e)  PROVE ListenInv'
  <2>1. PICK to \in {"off", "mark", Over(e)} : OffMoves(e, to)
    BY <1>4, OffStep
  <2>2. inhibited' <=> inhibited
    BY <2>1, Zenon DEF OffMoves
  <2>3. /\ UNCHANGED <<setup, stage, inbox>> /\ at["listener"] # "dead"
        /\ at' = [at EXCEPT ![e] = to] /\ at[e] # "idle" /\ (e = "listener" => to \notin {"idle", "dead"})
    BY <2>1 DEF OffMoves, Over, ListenInv
  <2> QED
    BY <1>1, <2>2, <2>3, ListenQuiet
<1>5. CASE PreDown \/ DispatcherClaims \/ Up \/ HookPre \/ HookPost
  <2>1. inhibited' <=> inhibited
    BY <1>5 DEF PreDown, DispatcherClaims, Up, HookPre, HookPost
  <2> QED
    BY <1>1, <1>2, <1>5, <2>1 DEF PreDown, DispatcherClaims, Up, HookPre, HookPost, Claim
<1>6. CASE WatcherOn \/ GateAwake \/ RemoveStaleFlag \/ Escalate \/ RunOn
  <2>1. inhibited' <=> inhibited
    BY <1>6 DEF WatcherOn, GateAwake, RemoveStaleFlag, Escalate, RunOn
  <2> QED
    BY <1>1, <1>2, <1>6, <2>1 DEF WatcherOn, GateAwake, RemoveStaleFlag, Escalate, RunOn
<1>7. CASE LinkUp \/ LinkDown \/ Replug
  <2>1. inhibited' <=> inhibited
    BY <1>7 DEF LinkUp, LinkDown, Replug
  <2> QED
    BY <1>2, <1>7, <2>1 DEF LinkUp, LinkDown, Replug
<1>8. CASE Grace
  <2>1. inhibited' <=> inhibited
    BY <1>8, Zenon DEF Grace
  <2>2. UNCHANGED <<setup, stage, inbox>> /\ at["listener"] = "grace" /\ at'["listener"] \in {"grace", "release", "hint"}
    BY <1>1, <1>8 DEF Grace, Claim
  <2> QED
    BY <2>1, <2>2, ListenQuiet
<1>9. CASE SleepSignal
  <2>1. UNCHANGED <<setup, stage>> /\ at["listener"] = "idle" /\ at'["listener"] = "grace"
    BY <1>1, <1>9 DEF SleepSignal, ReadSignal
  <2>2. inhibited' <=> inhibited
    BY <1>9, Zenon DEF SleepSignal
  <2>3. ~PendsResume /\ inbox # <<>> /\ (PendsSleep => inbox' = <<>>)
    BY <1>9, OneSignal
  <2> QED
    BY <1>1, <2>1, <2>2, <2>3 DEF ListenInv
<1>10. CASE Release
  <2>1. UNCHANGED <<setup, stage, inbox>> /\ at["listener"] = "release" /\ at'["listener"] = "idle"
    BY <1>1, <1>10 DEF Release
  <2>2. ~inhibited'
    BY <1>10, Zenon DEF Release
  <2> QED
    BY <1>1, <2>1, <2>2 DEF ListenInv
<1>11. CASE ResumeSignal
  <2>1. UNCHANGED <<setup, stage, at>> /\ at["listener"] = "idle"
    BY <1>11 DEF ResumeSignal, ReadSignal
  <2>2. inhibited'
    BY <1>11, Zenon DEF ResumeSignal
  <2>3. ~PendsSleep /\ inbox # <<>> /\ (PendsResume => inbox' = <<>>)
    BY <1>11, OneSignal
  <2> QED
    BY <1>1, <2>1, <2>2, <2>3 DEF ListenInv
<1>12. CASE DieListener \/ StartListener
  BY <1>12 DEF DieListener, StartListener, Unhurried, ListenInv
<1>13. CASE Prepare
  <2>1. UNCHANGED <<setup, at>> /\ stage = "awake" /\ stage' = "preparing" /\ inbox = <<>>
    BY <1>13 DEF Prepare, Unhurried
  <2>2. inhibited' <=> inhibited
    BY <1>13, Zenon DEF Prepare
  <2>3. CASE setup.fallback = "listener"
    <3>1. inbox' = Append(inbox, TRUE) /\ inhibited /\ at["listener"] = "idle"
      BY <1>13, <2>1, <2>3, OneSignal DEF Prepare, Signal, ListenInv
    <3>2. PendsSleep'
      BY <2>1, <3>1, OneSignal
    <3> QED
      BY <2>1, <2>2, <2>3, <3>1, <3>2 DEF ListenInv
  <2>4. CASE setup.fallback = "hook"
    BY <1>13, <2>1, <2>2, <2>4 DEF Prepare, Signal, ListenInv
  <2> QED
    BY <1>1, <2>3, <2>4
<1>14. CASE ToHooks \/ Freeze \/ Thaw
  <2>1. inhibited' <=> inhibited
    BY <1>14 DEF ToHooks, Freeze, Thaw
  <2>2. /\ UNCHANGED <<setup, at, inbox>> /\ stage' \in {"hooks", "asleep", "waking"}
        /\ stage \in {"hooks", "asleep", "waking"} \/ (stage = "preparing" /\ ~inhibited)
    BY <1>14 DEF ToHooks, Freeze, Thaw, InhibitorsGone, Unhurried
  <2> QED
    BY <2>1, <2>2 DEF ListenInv
<1>15. CASE Resumed
  <2>1. inhibited' <=> inhibited
    BY <1>15, Zenon DEF Resumed
  <2>2. UNCHANGED <<setup, at>> /\ stage = "waking" /\ stage' = "awake"
    BY <1>15 DEF Resumed
  <2>3. CASE setup.fallback = "listener"
    <3>1. inbox' = Append(inbox, FALSE) /\ inbox = <<>> /\ ~inhibited /\ at["listener"] = "idle"
      BY <1>15, <2>2, <2>3 DEF Resumed, Signal, ListenInv
    <3>2. PendsResume'
      BY <3>1, OneSignal
    <3> QED
      BY <2>1, <2>2, <2>3, <3>1, <3>2 DEF ListenInv
  <2>4. CASE setup.fallback = "hook"
    BY <1>15, <2>1, <2>2, <2>4 DEF Resumed, Signal, ListenInv
  <2> QED
    BY <1>1, <2>3, <2>4
<1> QED
  BY <1>3, <1>4, <1>5, <1>6, <1>7, <1>8, <1>9, <1>10, <1>11, <1>12, <1>13, <1>14, <1>15
     DEF SNext, Dispatcher, Hook, Listener, Watcher, Around, Off

\* At the beginning nothing is pending and the listener inhibits.
LEMMA ListenInitially == SInit => HookInv /\ Patient /\ ListenInv
<1> SUFFICES ASSUME SInit PROVE HookInv /\ Patient /\ ListenInv
  OBVIOUS
<1>1. /\ queue = <<>> /\ inbox = <<>> /\ stage = "awake"
      /\ ~flag["sleep"] /\ ~flag["hook"] /\ \A e \in Walkers : at[e] = "idle"
      /\ setup.fallback \in {"hook", "listener"}
  BY SuspendAssumption DEF SInit, Walkers
<1>2. inhibited <=> setup.fallback = "listener"
  BY Zenon DEF SInit
<1>3. Pending = {}
  BY <1>1 DEF Pending
<1> QED
  BY <1>1, <1>2, <1>3 DEF HookInv, Patient, ListenInv, Walkers, Entries

\* No OFF of an entry point is cut by the sleep, for every machine, where suspends
\* find the last one over, logind waits for inhibitors and the listener lives.
THEOREM NoOffSafe == ASSUME Unhurried PROVE HSSpec => []NoOffAcrossSleep
<1> DEFINE Inv == TInv /\ HookInv /\ Patient /\ ListenInv
<1>1. HSInit => Inv
  BY TypedInitially, ListenInitially DEF HSInit
<1>2. Inv /\ [HSNext]_hsvars => Inv'
  BY TypedStep, HookStep, PatientStep, ListenStep, HistoryStep DEF Unhurried
<1>3. Inv => NoOffAcrossSleep
  <2> SUFFICES ASSUME Inv, stage = "asleep", NEW e \in Entries, at[e] \in {"hint", "off", "mark"} PROVE FALSE
    BY DEF NoOffAcrossSleep
  <2>1. CASE e = "dispatcher"
    <3>1. queue \in Seq(Events) /\ Event("pre-down")
      BY <2>1 DEF TInv, STypeOK, Events
    <3>2. Head(queue) \in Members(queue) /\ Head(queue) = "pre-down"
      BY <3>1, TailMembers, Zenon DEF Event
    <3>3. "pre-down" \in Pending
      BY <3>2 DEF Members, Pending
    <3> QED
      BY <3>3 DEF Patient
  <2>2. CASE e = "hook"
    BY <2>2 DEF HookInv
  <2>3. CASE e = "listener"
    BY <2>3 DEF ListenInv, HookInv
  <2> QED
    BY <2>1, <2>2, <2>3 DEF Entries
<1> QED
  BY <1>1, <1>2, <1>3, PTL DEF HSSpec

--------------------------------------------------------------------------
(* The promise of SleepCycle.                                             *)

\* Where the dispatcher acts there is no listener, and nothing takes its flag from it.
Apart == ~Darkens /\ \A s \in Setups : s.fallback = "listener" => s.nics = 0

\* The devices that go down come after those that came up.
Ordered == \A i, j \in DOMAIN queue : i < j /\ queue[i] = "pre-down" => queue[j] = "pre-down"

Once == claims \in {0, 1} /\ at["watcher"] # "stale"

\* On a machine with devices that go down the dispatcher handles the suspend, after
\* it has answered the last one.
NetCycle ==
    setup.nics > 0 =>
      /\ ~flag["hook"] /\ at["hook"] \in {"idle", "done"}
      /\ at["dispatcher"] # "idle" => stage = "preparing"
      /\ at["dispatcher"] \in {"hint", "off", "mark"} => claims = 1
      /\ stage = "preparing" =>
            /\ Ordered
            /\ claims = 0 => "pre-down" \in Pending /\ (flag["sleep"] => Head(queue) = "up")
            /\ claims = 1 => flag["sleep"] /\ "up" \notin Pending
      /\ stage \in {"hooks", "asleep", "waking"} => queue = <<>> /\ claims = 1 /\ flag["sleep"]

\* On one without, the hook.
HookCycle ==
    setup.nics = 0 /\ setup.fallback = "hook" =>
      /\ stage = "preparing" => claims = 0
      /\ stage = "hooks" /\ at["hook"] = "idle" => claims = 0
      /\ stage = "hooks" /\ at["hook"] # "idle" => claims = 1
      /\ stage = "asleep" => claims = 1

\* Or the listener.
ListenerCycle ==
    setup.fallback = "listener" =>
      /\ stage = "preparing" /\ (PendsSleep \/ at["listener"] = "grace") => claims = 0 /\ ~flag["hook"]
      /\ stage = "preparing" /\ ~PendsSleep /\ at["listener"] # "grace" => claims = 1
      /\ stage \in {"hooks", "asleep"} => claims = 1
      /\ stage = "awake" /\ inhibited => ~flag["hook"]

CycleInv == Once /\ NetCycle /\ HookCycle /\ ListenerCycle

\* Running the script for the first event of an ordered queue.
LEMMA OrderedQueue ==
    TInv => /\ Ordered /\ Event("pre-down") => "up" \notin Pending
            /\ Ordered /\ queue # <<>> /\ queue' = Tail(queue) => Ordered'
            /\ Event("up") /\ queue' = Tail(queue) /\ "pre-down" \in Pending => "pre-down" \in Pending'
            /\ queue # <<>> /\ "pre-down" \notin Pending => Head(queue) = "up"
            /\ "pre-down" \notin Pending /\ "up" \notin Pending => queue = <<>>
<1> SUFFICES ASSUME TInv
             PROVE  /\ Ordered /\ Event("pre-down") => "up" \notin Pending
                    /\ Ordered /\ queue # <<>> /\ queue' = Tail(queue) => Ordered'
                    /\ Event("up") /\ queue' = Tail(queue) /\ "pre-down" \in Pending => "pre-down" \in Pending'
                    /\ queue # <<>> /\ "pre-down" \notin Pending => Head(queue) = "up"
                    /\ "pre-down" \notin Pending /\ "up" \notin Pending => queue = <<>>
  OBVIOUS
<1>1. queue \in Seq(Events) /\ Len(queue) \in Nat /\ DOMAIN queue = 1..Len(queue)
  BY LenProperties DEF TInv, STypeOK, Events
<1>2. Members(queue) = Pending
  BY DEF Members, Pending
<1>3. queue # <<>> => /\ Head(queue) = queue[1] /\ Head(queue) \in Pending /\ Head(queue) \in Events
                      /\ Len(queue) >= 1
                      /\ DOMAIN Tail(queue) = 1..Len(queue) - 1
                      /\ \A i \in 1..Len(queue) - 1 : Tail(queue)[i] = queue[i + 1]
                      /\ \A x \in Pending : x # Head(queue) => x \in Members(Tail(queue))
  BY <1>1, <1>2, TailMembers, EmptySeq, HeadTailProperties
<1>4. ASSUME Ordered, Event("pre-down")  PROVE "up" \notin Pending
  <2>1. \A j \in 1..Len(queue) : queue[j] = "pre-down"
    BY <1>1, <1>3, <1>4 DEF Ordered, Event
  <2> QED
    BY <1>1, <2>1 DEF Pending
<1>5. ASSUME Ordered, queue # <<>>, queue' = Tail(queue)  PROVE Ordered'
  BY <1>1, <1>3, <1>5 DEF Ordered
<1>6. ASSUME Event("up"), queue' = Tail(queue), "pre-down" \in Pending  PROVE "pre-down" \in Pending'
  BY <1>3, <1>6 DEF Event, Members, Pending
<1>7. queue # <<>> /\ "pre-down" \notin Pending => Head(queue) = "up"
  BY <1>3 DEF Events
<1>8. "pre-down" \notin Pending /\ "up" \notin Pending => queue = <<>>
  BY <1>3 DEF Events
<1> QED
  BY <1>4, <1>5, <1>6, <1>7, <1>8

\* A suspend that finds no device going down leaves an ordered queue.
LEMMA OrderedAtPrepare ==
    TInv /\ Prepare /\ "pre-down" \notin Pending => Ordered'
<1> SUFFICES ASSUME TInv, Prepare, "pre-down" \notin Pending PROVE Ordered'
  OBVIOUS
<1>1. /\ DOMAIN queue = 1..Len(queue) /\ DOMAIN queue' = 1..Len(queue) + links
      /\ \A i \in 1..Len(queue) : queue'[i] = queue[i]
      /\ \A i \in Len(queue) + 1..Len(queue) + links : queue'[i] = "pre-down"
  BY PreDownQueue
<1>2. Len(queue) \in Nat /\ links \in Nat
  BY Queues, SuspendAssumption DEF TInv, STypeOK
<1>3. \A i \in 1..Len(queue) : queue'[i] # "pre-down"
  BY <1>1 DEF Pending
<1> QED
  BY <1>1, <1>2, <1>3 DEF Ordered

\* An entry point that takes a suspend for its own handles it.
LEMMA Handled ==
    ASSUME Stage = "preparing", Stage' = Stage, claims = 0, claims' = 1, ~Owed, Owed'
    PROVE  Promise!Next
BY Zenon DEF Promise!Next, Promise!Handle, Owed

\* One that turns the TV on answers it.
LEMMA Answered ==
    ASSUME Stage' = Stage, claims' = claims, Owed, ~Owed',
           Stage = "awake" \/ (Stage = "preparing" /\ claims = 0)
    PROVE  Promise!Next
BY Zenon DEF Promise!Next, Promise!Answer, Owed

\* And the machine goes through the cycle.
LEMMA Passes ==
    ASSUME Owed' <=> Owed
    PROVE  /\ Stage' = Stage /\ claims' = claims => UNCHANGED Promise!cycle
           /\ Stage = "awake" /\ Stage' = "preparing" /\ claims' = 0 => Promise!Next
           /\ Stage = "preparing" /\ claims = 1 /\ Stage' = "asleep" /\ claims' = claims => Promise!Next
           /\ Stage = "asleep" /\ Stage' = "awake" /\ claims' = claims => Promise!Next
<1>1. Owed' = Owed
  BY Zenon DEF Owed
<1> QED
  BY <1>1, Zenon DEF Promise!Next, Promise!Prepare, Promise!Sleep, Promise!Wake, Promise!cycle

\* What the invariants say together.
Ready == TInv /\ NetInv /\ HookInv /\ Patient /\ ListenInv /\ CycleInv

\* What is to be shown of a step.
KeepsPromise == CycleInv' /\ (Promise!Next \/ UNCHANGED Promise!cycle)

\* Which entry point acts on which machine.
LEMMA Actors ==
    Ready /\ Apart =>
        /\ setup.nics \in Nat /\ setup.fallback \in {"hook", "listener"}
        /\ setup.fallback = "listener" => setup.nics = 0
        /\ queue # <<>> \/ flag["sleep"] \/ at["dispatcher"] # "idle" => setup.nics > 0
        /\ inbox # <<>> \/ at["listener"] # "idle" => setup.fallback = "listener"
        /\ at["dispatcher"] # "idle" => Event("pre-down")
        /\ at \in [Walkers -> Points] /\ flag \in [{"sleep", "hook"} -> BOOLEAN]
        /\ stage \in {"awake", "preparing", "hooks", "asleep", "waking"}
        /\ claims \in {0, 1}
<1> SUFFICES ASSUME Ready, Apart
             PROVE  /\ setup.nics \in Nat /\ setup.fallback \in {"hook", "listener"}
                    /\ setup.fallback = "listener" => setup.nics = 0
                    /\ queue # <<>> \/ flag["sleep"] \/ at["dispatcher"] # "idle" => setup.nics > 0
                    /\ inbox # <<>> \/ at["listener"] # "idle" => setup.fallback = "listener"
                    /\ at["dispatcher"] # "idle" => Event("pre-down")
                    /\ at \in [Walkers -> Points] /\ flag \in [{"sleep", "hook"} -> BOOLEAN]
                    /\ stage \in {"awake", "preparing", "hooks", "asleep", "waking"}
                    /\ claims \in {0, 1}
  OBVIOUS
<1>1. setup \in Setups /\ setup.nics \in Nat /\ setup.fallback \in {"hook", "listener"}
  BY SuspendAssumption DEF Ready, TInv, STypeOK
<1>2. setup.fallback = "listener" => setup.nics = 0
  BY <1>1 DEF Apart
<1>3. /\ at["dispatcher"] # "idle" => Event("pre-down")
      /\ at \in [Walkers -> Points] /\ flag \in [{"sleep", "hook"} -> BOOLEAN]
      /\ stage \in {"awake", "preparing", "hooks", "asleep", "waking"}
  BY DEF Ready, TInv, STypeOK, Walkers, Points, Entries
<1>4. queue # <<>> \/ flag["sleep"] \/ at["dispatcher"] # "idle" => setup.nics > 0
  BY <1>1, <1>3 DEF Ready, NetInv, Event
<1>5. inbox # <<>> \/ at["listener"] # "idle" => setup.fallback = "listener"
  BY DEF Ready, HookInv
<1>6. claims \in {0, 1}
  BY DEF Ready, CycleInv, Once
<1> QED
  BY <1>1, <1>2, <1>3, <1>4, <1>5, <1>6

\* How a step counts.
LEMMA Counting ==
    ASSUME HSNext, claims \in {0, 1}, ~(stage = "awake" /\ stage' = "preparing")
    PROVE  /\ (\A e \in Entries : at[e] = "hint" \/ at'[e] # "hint") => claims' = claims
           /\ \A e \in Entries : claims = 0 /\ at[e] # "hint" /\ at'[e] = "hint" => claims' = 1
BY DEF HSNext, Claiming

\* A step that changes nothing the promise is about.
LEMMA CycleQuiet ==
    ASSUME Ready, UNCHANGED <<setup, stage, queue, inbox, claims>>, inhibited' <=> inhibited,
           flag'["sleep"] <=> flag["sleep"], flag'["hook"] <=> flag["hook"],
           at'["dispatcher"] = at["dispatcher"], at'["hook"] = at["hook"],
           at'["listener"] = "grace" <=> at["listener"] = "grace", at'["watcher"] # "stale"
    PROVE  KeepsPromise
<1>1. (PendsSleep' <=> PendsSleep) /\ (Ordered' <=> Ordered) /\ Pending' = Pending
  BY OneSignal DEF Ready, Ordered, Pending
<1>2. CycleInv'
  BY <1>1 DEF Ready, CycleInv, Once, NetCycle, HookCycle, ListenerCycle
<1>3. Stage' = Stage /\ (Owed' <=> Owed)
  BY DEF Stage, Owed
<1> QED
  BY <1>2, <1>3, Passes DEF KeepsPromise

\* The OFFs keep the promise.
LEMMA CycleOff ==
    ASSUME Ready, Apart, HSNext, NEW e \in Walkers, SkipKnownOff(e) \/ PowerOff(e) \/ MarkOff(e)
    PROVE  KeepsPromise
<1>1. PICK to \in {"off", "mark", Over(e)} : OffMoves(e, to)
  BY OffStep DEF Ready
<1>2. /\ UNCHANGED <<setup, stage, inbox, flag>> /\ at' = [at EXCEPT ![e] = to]
      /\ at[e] \in {"hint", "off", "mark"} /\ to \notin {"hint", "stale", "grace", "claim"}
      /\ e # "dispatcher" => queue' = queue
      /\ queue' = queue \/ queue' = Tail(queue)
  BY <1>1 DEF OffMoves, Over
<1>3. inhibited' <=> inhibited
  BY <1>1, Zenon DEF OffMoves
<1>4. at \in [Walkers -> Points] /\ stage' = stage /\ claims \in {0, 1}
  BY <1>2, Actors
<1>5. claims' = claims
  BY <1>2, <1>4, Counting DEF Walkers, Entries
<1>6. CASE e \in {"listener", "watcher"}
  BY <1>2, <1>3, <1>4, <1>5, <1>6, CycleQuiet DEF Walkers, Entries, Ready, CycleInv, Once
<1>7. Stage' = Stage /\ (Owed' <=> Owed)
  BY <1>2 DEF Stage, Owed
<1>8. UNCHANGED Promise!cycle
  BY <1>5, <1>7, Passes
<1>9. /\ at'["watcher"] # "stale" \/ e = "watcher"
      /\ PendsSleep' <=> PendsSleep
  BY <1>2, <1>4, OneSignal DEF Walkers, Ready, CycleInv, Once
<1>10. CASE e = "dispatcher"
  <2>1. setup.nics > 0 /\ setup.fallback = "hook" /\ Event("pre-down") /\ queue # <<>>
    BY <1>2, <1>10, Actors DEF Event
  <2>2. /\ at'["dispatcher"] \in {"off", "mark", "idle"}
        /\ at'["hook"] = at["hook"]
    BY <1>1, <1>2, <1>4, <1>10 DEF Walkers, Entries, Over
  <2>3. stage = "preparing" /\ claims = 1 /\ flag["sleep"] /\ "up" \notin Pending /\ Ordered
    BY <1>2, <1>10, <2>1 DEF Ready, CycleInv, NetCycle
  <2>4. "up" \notin Pending' /\ Ordered'
    <3>1. Pending' \subseteq Pending
      BY <1>2, <2>1, PendingStays DEF Ready
    <3>2. queue' = queue => Ordered'
      BY <2>3 DEF Ordered
    <3> QED
      BY <1>2, <2>1, <2>3, <3>1, <3>2, OrderedQueue DEF Ready
  <2>5. NetCycle'
    BY <1>2, <1>5, <2>1, <2>2, <2>3, <2>4 DEF Ready, CycleInv, NetCycle
  <2>6. HookCycle' /\ ListenerCycle' /\ Once'
    BY <1>2, <1>4, <1>5, <1>9, <1>10, <2>1 DEF HookCycle, ListenerCycle, Once
  <2> QED
    BY <1>8, <2>5, <2>6 DEF KeepsPromise, CycleInv
<1>11. CASE e = "hook"
  <2>1. setup.fallback = "hook" /\ setup.nics = 0 /\ stage = "hooks"
    BY <1>2, <1>11, Actors DEF Ready, HookInv, CycleInv, NetCycle
  <2>2. at'["hook"] # "idle"
    BY <1>1, <1>2, <1>4, <1>11 DEF Walkers, Entries, Over
  <2>3. CycleInv'
    BY <1>2, <1>4, <1>5, <1>9, <1>11, <2>1, <2>2 DEF Ready, CycleInv, NetCycle, HookCycle, ListenerCycle, Once
  <2> QED
    BY <1>8, <2>3 DEF KeepsPromise
<1> QED
  BY <1>6, <1>10, <1>11 DEF Walkers, Entries

\* The dispatcher keeps the promise.
LEMMA CycleDispatcher ==
    ASSUME Ready, Apart, HSNext, PreDown \/ DispatcherClaims \/ Up
    PROVE  KeepsPromise
<1>1. /\ UNCHANGED <<setup, stage, inbox>> /\ at'["hook"] = at["hook"]
      /\ at'["listener"] = at["listener"] /\ at'["watcher"] = at["watcher"]
      /\ flag'["hook"] = flag["hook"] /\ queue # <<>>
  BY Actors DEF PreDown, DispatcherClaims, Up, Claim, TvOn, Goto, FlagOf, machine, outcome, Event, Walkers, Entries
<1>2. inhibited' <=> inhibited
  BY DEF PreDown, DispatcherClaims, Up
<1>3. /\ setup.nics > 0 /\ setup.fallback = "hook" /\ ~flag["hook"] /\ claims \in {0, 1}
      /\ at \in [Walkers -> Points] /\ flag \in [{"sleep", "hook"} -> BOOLEAN]
      /\ PendsSleep' <=> PendsSleep
      /\ at["dispatcher"] # "idle" => Event("pre-down")
  BY <1>1, Actors, OneSignal DEF Ready, CycleInv, NetCycle
<1>4. ASSUME claims' \in {0, 1}  PROVE Once' /\ HookCycle' /\ ListenerCycle'
  BY <1>1, <1>3, <1>4 DEF Ready, CycleInv, Once, HookCycle, ListenerCycle
<1>5. stage \in {"awake", "preparing"}
  BY <1>1, <1>3, Actors DEF Ready, CycleInv, NetCycle
<1>6. Stage' = Stage /\ Stage = stage
  BY <1>1, <1>5 DEF Stage
<1>7. CASE PreDown
  <2>1. /\ flag' = flag /\ Event("pre-down") /\ at["dispatcher"] = "idle"
        /\ at'["dispatcher"] \in {"idle", "claim"}
        /\ stage = "preparing" => queue' = queue
        /\ stage # "preparing" => at'["dispatcher"] = "idle"
    BY <1>3, <1>5, <1>7 DEF PreDown, Goto, PreparingForSleep, Walkers, Entries
  <2>2. claims' = claims
    BY <1>1, <1>3, <2>1, Counting DEF Entries
  <2>3. NetCycle'
    BY <1>1, <1>3, <1>5, <2>1, <2>2 DEF Ready, CycleInv, NetCycle, Ordered, Pending
  <2>4. Owed' <=> Owed
    BY <2>1 DEF Owed
  <2> QED
    BY <1>3, <1>4, <1>6, <2>2, <2>3, <2>4, Passes DEF KeepsPromise, CycleInv
<1>8. CASE DispatcherClaims
  <2>1. at["dispatcher"] = "claim" /\ stage = "preparing" /\ Ordered /\ Event("pre-down") /\ "up" \notin Pending
    BY <1>3, <1>8, OrderedQueue DEF DispatcherClaims, Ready, CycleInv, NetCycle
  <2>2. CASE flag["sleep"]
    <3>1. at'["dispatcher"] = "idle" /\ queue' = Tail(queue) /\ flag' = flag
      BY <1>3, <1>8, <2>2 DEF DispatcherClaims, Goto, Walkers, Entries
    <3>2. claims = 1
      BY <1>3, <2>1, <2>2 DEF Ready, CycleInv, NetCycle, Event
    <3>3. claims' = claims
      BY <1>1, <1>3, <3>1, Counting DEF Entries
    <3>4. Ordered' /\ Pending' \subseteq Pending
      BY <1>1, <2>1, <3>1, OrderedQueue, PendingStays DEF Ready
    <3>5. NetCycle'
      BY <1>1, <1>3, <2>1, <2>2, <3>1, <3>2, <3>3, <3>4 DEF Ready, CycleInv, NetCycle
    <3>6. Owed' <=> Owed
      BY <3>1 DEF Owed
    <3> QED
      BY <1>3, <1>4, <1>6, <3>3, <3>5, <3>6, Passes DEF KeepsPromise, CycleInv
  <2>3. CASE ~flag["sleep"]
    <3>1. at'["dispatcher"] = "hint" /\ queue' = queue /\ flag'["sleep"]
      BY <1>3, <1>8, <2>3 DEF DispatcherClaims, Claim, Goto, FlagOf, Walkers, Entries, machine
    <3>2. claims = 0
      BY <1>3, <2>1, <2>3 DEF Ready, CycleInv, NetCycle
    <3>3. claims' = 1
      BY <1>1, <1>3, <2>1, <3>1, <3>2, Counting DEF Entries
    <3>4. Ordered' /\ Pending' = Pending
      BY <2>1, <3>1 DEF Ordered, Pending
    <3>5. NetCycle'
      BY <1>1, <1>3, <2>1, <3>1, <3>3, <3>4 DEF Ready, CycleInv, NetCycle
    <3>6. ~Owed /\ Owed'
      BY <1>3, <2>3, <3>1 DEF Owed
    <3>7. Promise!Next
      BY <1>6, <2>1, <3>2, <3>3, <3>6, Handled
    <3> QED
      BY <1>4, <3>3, <3>5, <3>7 DEF KeepsPromise, CycleInv
  <2> QED
    BY <2>2, <2>3
<1>9. CASE Up
  <2>1. at' = at /\ queue' = Tail(queue) /\ ~flag'["sleep"] /\ Event("up") /\ at["dispatcher"] = "idle"
    BY <1>3, <1>9 DEF Up, TvOn, FlagOf
  <2>2. claims' = claims
    BY <1>1, <1>3, <2>1, Counting DEF Entries
  <2>3. stage = "preparing" => claims = 0
    <3>1. queue \in Seq(Events) /\ Head(queue) = "up"
      BY <2>1 DEF Ready, TInv, STypeOK, Events, Event
    <3>2. "up" \in Pending
      BY <1>1, <3>1, TailMembers DEF Members, Pending
    <3> QED
      BY <1>3, <3>2 DEF Ready, CycleInv, NetCycle
  <2>4. stage = "preparing" => Ordered' /\ "pre-down" \in Pending'
    BY <1>1, <1>3, <2>1, <2>3, OrderedQueue DEF Ready, CycleInv, NetCycle
  <2>5. NetCycle'
    BY <1>1, <1>3, <1>5, <2>1, <2>2, <2>3, <2>4 DEF Ready, CycleInv, NetCycle
  <2>6. CASE flag["sleep"]
    <3>1. Owed /\ ~Owed'
      BY <1>1, <1>3, <2>1, <2>6 DEF Owed
    <3>2. Promise!Next
      BY <1>5, <1>6, <2>2, <2>3, <3>1, Answered
    <3> QED
      BY <1>3, <1>4, <2>2, <2>5, <3>2 DEF KeepsPromise, CycleInv
  <2>7. CASE ~flag["sleep"]
    <3>1. Owed' <=> Owed
      BY <1>1, <1>3, <2>1, <2>7 DEF Owed
    <3> QED
      BY <1>3, <1>4, <1>6, <2>2, <2>5, <3>1, Passes DEF KeepsPromise, CycleInv
  <2> QED
    BY <2>6, <2>7
<1> QED
  BY <1>7, <1>8, <1>9

\* The hook keeps the promise.
LEMMA CycleHook ==
    ASSUME Ready, Apart, HSNext, HookPre \/ HookPost
    PROVE  KeepsPromise
<1>1. /\ UNCHANGED <<setup, stage, links, queue, inbox>> /\ at'["dispatcher"] = at["dispatcher"]
      /\ at'["listener"] = at["listener"] /\ at'["watcher"] = at["watcher"]
      /\ flag'["sleep"] = flag["sleep"] /\ setup.fallback = "hook" /\ stage \in {"hooks", "waking"}
  <2>1. at["hook"] # "idle" => setup.fallback = "hook"
    BY DEF Ready, HookInv
  <2> QED
    BY <2>1, Actors DEF HookPre, HookPost, Claim, TvOn, Goto, FlagOf, machine, outcome, Walkers, Entries
<1>2. inhibited' <=> inhibited
  BY DEF HookPre, HookPost
<1>3. /\ claims \in {0, 1} /\ setup.nics \in Nat
      /\ at \in [Walkers -> Points] /\ flag \in [{"sleep", "hook"} -> BOOLEAN]
      /\ PendsSleep' <=> PendsSleep
  BY <1>1, Actors, OneSignal DEF Ready
<1>4. Pending' = Pending /\ (Ordered' <=> Ordered)
  BY <1>1 DEF Pending, Ordered
<1>5. ASSUME claims' \in {0, 1}  PROVE Once' /\ ListenerCycle'
  BY <1>1, <1>3, <1>5 DEF Ready, CycleInv, Once, ListenerCycle
<1>6. CASE HookPre
  <2>1. stage = "hooks" /\ Stage = "preparing" /\ Stage' = Stage /\ at["hook"] = "idle"
    BY <1>1, <1>6 DEF HookPre, Stage
  <2>2. ~flag["hook"]
    BY <1>1, <2>1 DEF Ready, HookInv
  <2>3. CASE flag["sleep"]
    <3>1. at'["hook"] = "done" /\ flag' = flag /\ setup.nics > 0
      BY <1>3, <1>6, <2>3, Actors DEF HookPre, Goto, Walkers, Entries
    <3>2. claims' = claims
      BY <1>1, <1>3, <3>1, Counting DEF Entries
    <3>3. NetCycle' /\ HookCycle'
      BY <1>1, <1>3, <2>1, <3>1, <3>2 DEF Ready, CycleInv, NetCycle, HookCycle
    <3>4. Owed' <=> Owed
      BY <3>1 DEF Owed
    <3> QED
      BY <1>3, <1>5, <2>1, <3>2, <3>3, <3>4, Passes DEF KeepsPromise, CycleInv
  <2>4. CASE ~flag["sleep"]
    <3>1. at'["hook"] = "hint" /\ flag'["hook"]
      BY <1>3, <1>6, <2>4 DEF HookPre, Claim, Goto, FlagOf, Walkers, Entries
    <3>2. setup.nics = 0 /\ claims = 0
      BY <1>1, <1>3, <2>1, <2>4 DEF Ready, CycleInv, NetCycle, HookCycle
    <3>3. claims' = 1
      BY <1>1, <1>3, <2>1, <3>1, <3>2, Counting DEF Entries
    <3>4. NetCycle' /\ HookCycle'
      BY <1>1, <2>1, <3>1, <3>2, <3>3 DEF NetCycle, HookCycle
    <3>5. ~Owed /\ Owed'
      BY <2>2, <2>4, <3>1 DEF Owed
    <3>6. Promise!Next
      BY <2>1, <3>2, <3>3, <3>5, Handled
    <3> QED
      BY <1>5, <3>3, <3>4, <3>6 DEF KeepsPromise, CycleInv
  <2> QED
    BY <2>3, <2>4
<1>7. CASE HookPost
  <2>1. stage = "waking" /\ Stage = "awake" /\ Stage' = Stage
    BY <1>1, <1>7 DEF HookPost, Stage
  <2>2. at["hook"] = "done" /\ at'["hook"] = "idle" /\ ~flag'["hook"]
    BY <1>3, <1>7 DEF HookPost, TvOn, Goto, FlagOf, Walkers, Entries
  <2>3. claims' = claims
    BY <1>1, <1>3, <2>2, Counting DEF Entries
  <2>4. NetCycle' /\ HookCycle'
    BY <1>1, <1>3, <1>4, <2>1, <2>2, <2>3 DEF Ready, CycleInv, NetCycle, HookCycle
  <2>5. CASE flag["hook"]
    <3>1. setup.nics = 0 /\ ~flag["sleep"]
      BY <1>3, <2>5, Actors DEF Ready, CycleInv, NetCycle
    <3>2. Owed /\ ~Owed'
      BY <1>1, <2>2, <2>5, <3>1 DEF Owed
    <3>3. Promise!Next
      BY <2>1, <2>3, <3>2, Answered
    <3> QED
      BY <1>3, <1>5, <2>3, <2>4, <3>3 DEF KeepsPromise, CycleInv
  <2>6. CASE ~flag["hook"]
    <3>1. Owed' <=> Owed
      BY <1>1, <2>2, <2>6 DEF Owed
    <3> QED
      BY <1>3, <1>5, <2>1, <2>3, <2>4, <3>1, Passes DEF KeepsPromise, CycleInv
  <2> QED
    BY <2>5, <2>6
<1> QED
  BY <1>6, <1>7

\* The listener keeps the promise.
LEMMA CycleListener ==
    ASSUME Ready, Apart, HSNext, SleepSignal \/ Grace \/ Release \/ ResumeSignal
    PROVE  KeepsPromise
<1>1. /\ UNCHANGED <<setup, stage, queue>> /\ at'["dispatcher"] = at["dispatcher"]
      /\ at'["hook"] = at["hook"] /\ at'["watcher"] = at["watcher"] /\ flag'["sleep"] = flag["sleep"]
      /\ setup.fallback = "listener"
  BY Actors DEF SleepSignal, Grace, Release, ResumeSignal, ReadSignal, Claim, TvOn, Goto, FlagOf, machine,
                outcome, Walkers, Entries
<1>2. /\ setup.nics = 0 /\ ~flag["sleep"] /\ claims \in {0, 1}
      /\ at \in [Walkers -> Points] /\ flag \in [{"sleep", "hook"} -> BOOLEAN]
  BY <1>1, Actors
<1>3. Stage' = Stage
  BY <1>1 DEF Stage
<1>4. ASSUME claims' \in {0, 1}  PROVE Once' /\ NetCycle' /\ HookCycle'
  BY <1>1, <1>2, <1>4 DEF Ready, CycleInv, Once, NetCycle, HookCycle
<1>5. CASE SleepSignal
  <2>1. flag' = flag /\ at["listener"] = "idle" /\ at'["listener"] = "grace"
    BY <1>2, <1>5 DEF SleepSignal, ReadSignal, Goto, outcome, Walkers, Entries
  <2>2. (inhibited' <=> inhibited) /\ ~PendsResume /\ inbox # <<>>
    BY <1>5, OneSignal DEF SleepSignal, Ready
  <2>3. claims' = claims
    BY <1>1, <1>2, <2>1, Counting DEF Entries
  <2>4. stage = "preparing" /\ PendsSleep
    BY <1>1, <1>2, <2>1, <2>2, Actors DEF Ready, ListenInv
  <2>5. ListenerCycle'
    BY <1>1, <2>1, <2>3, <2>4 DEF Ready, CycleInv, ListenerCycle
  <2>6. Owed' <=> Owed
    BY <2>1 DEF Owed
  <2> QED
    BY <1>2, <1>3, <1>4, <2>3, <2>5, <2>6, Passes DEF KeepsPromise, CycleInv
<1>6. CASE Grace
  <2>1. at["listener"] = "grace" /\ UNCHANGED inbox
    BY <1>6 DEF Grace, machine
  <2>2. inhibited' <=> inhibited
    BY <1>6, Zenon DEF Grace
  <2>3. stage = "preparing" /\ inbox = <<>> /\ ~PendsSleep'
    BY <1>1, <2>1, Actors, OneSignal DEF Ready, ListenInv
  <2>4. claims = 0 /\ ~flag["hook"]
    BY <1>1, <2>1, <2>3 DEF Ready, CycleInv, ListenerCycle
  <2>5. CASE polls < GracePolls
    <3>1. at' = at /\ flag' = flag
      BY <1>2, <1>6, <2>5 DEF Grace
    <3> QED
      BY <1>1, <1>2, <2>1, <2>2, <3>1, Counting, CycleQuiet DEF Entries, Ready, CycleInv, Once
  <2>6. CASE ~(polls < GracePolls)
    <3>1. at'["listener"] = "hint" /\ flag'["hook"]
      BY <1>2, <1>6, <2>6 DEF Grace, Claim, Goto, FlagOf, Walkers, Entries
    <3>2. claims' = 1
      BY <1>1, <1>2, <2>1, <2>3, <2>4, <3>1, Counting DEF Entries
    <3>3. ListenerCycle'
      BY <1>1, <2>3, <3>1, <3>2 DEF ListenerCycle
    <3>4. ~Owed /\ Owed'
      BY <1>2, <2>4, <3>1 DEF Owed
    <3>5. Stage = "preparing"
      BY <2>3 DEF Stage
    <3>6. Promise!Next
      BY <1>3, <2>4, <3>2, <3>4, <3>5, Handled
    <3> QED
      BY <1>4, <3>2, <3>3, <3>6 DEF KeepsPromise, CycleInv
  <2> QED
    BY <2>5, <2>6
<1>7. CASE Release
  <2>1. flag' = flag /\ at["listener"] = "release" /\ at'["listener"] = "idle" /\ UNCHANGED inbox
    BY <1>2, <1>7 DEF Release, Goto, machine, outcome, Walkers, Entries
  <2>2. claims' = claims
    BY <1>1, <1>2, <2>1, Counting DEF Entries
  <2>3. stage = "preparing" /\ inbox = <<>> /\ ~PendsSleep /\ ~PendsSleep'
    BY <1>1, <2>1, Actors, OneSignal DEF Ready, ListenInv
  <2>4. ListenerCycle'
    BY <1>1, <2>1, <2>2, <2>3 DEF Ready, CycleInv, ListenerCycle
  <2>5. Owed' <=> Owed
    BY <2>1 DEF Owed
  <2> QED
    BY <1>2, <1>3, <1>4, <2>2, <2>4, <2>5, Passes DEF KeepsPromise, CycleInv
<1>8. CASE ResumeSignal
  <2>1. at' = at /\ at["listener"] = "idle" /\ ~flag'["hook"]
    BY <1>2, <1>8 DEF ResumeSignal, ReadSignal, TvOn, FlagOf
  <2>2. inbox # <<>> /\ ~PendsSleep
    BY <1>8, OneSignal DEF Ready
  <2>3. stage = "awake" /\ Stage = "awake"
    BY <1>1, <1>2, <2>1, <2>2, Actors DEF Ready, ListenInv, Stage
  <2>4. claims' = claims
    BY <1>1, <1>2, <2>1, Counting DEF Entries
  <2>5. ListenerCycle'
    BY <1>1, <2>1, <2>3 DEF ListenerCycle
  <2>6. CASE flag["hook"]
    <3>1. Owed /\ ~Owed'
      BY <1>1, <1>2, <2>1, <2>6 DEF Owed
    <3>2. Promise!Next
      BY <1>3, <2>3, <2>4, <3>1, Answered
    <3> QED
      BY <1>2, <1>4, <2>4, <2>5, <3>2 DEF KeepsPromise, CycleInv
  <2>7. CASE ~flag["hook"]
    <3>1. Owed' <=> Owed
      BY <1>1, <2>1, <2>7 DEF Owed
    <3> QED
      BY <1>2, <1>3, <1>4, <2>4, <2>5, <3>1, Passes DEF KeepsPromise, CycleInv
  <2> QED
    BY <2>6, <2>7
<1> QED
  BY <1>5, <1>6, <1>7, <1>8

\* Commands and the watcher keep the promise: nothing takes the dispatcher's flag.
LEMMA CycleApart ==
    ASSUME Ready, Apart, HSNext, WatcherOn \/ GateAwake \/ RemoveStaleFlag \/ Escalate \/ RunOn
    PROVE  KeepsPromise
<1>1. WatcherOn \/ Escalate \/ RunOn
  BY DEF GateAwake, RemoveStaleFlag, Apart, Ready, CycleInv, Once
<1>2. /\ UNCHANGED <<setup, stage, queue, inbox, flag>>
      /\ \A e \in Entries : at'[e] = at[e]
      /\ at'["watcher"] # "stale"
  BY <1>1, Actors DEF WatcherOn, Escalate, RunOn, Goto, machine, outcome, Walkers, Entries, Ready, CycleInv, Once
<1>3. inhibited' <=> inhibited
  BY <1>1 DEF WatcherOn, Escalate, RunOn
<1>4. claims' = claims
  BY <1>2, Actors, Counting
<1> QED
  BY <1>2, <1>3, <1>4, CycleQuiet DEF Entries

\* So do the machine's own steps: logind waits until one entry point has handled the
\* suspend, and no suspend comes before the last is answered.
LEMMA CycleMachine ==
    ASSUME Ready, Apart, Unhurried, HSNext, Around
    PROVE  KeepsPromise
<1>1. UNCHANGED <<setup, at, flag>>
  BY DEF Around, Prepare, ToHooks, Freeze, Thaw, Resumed, LinkUp, LinkDown, Replug
<1>2. inhibited' <=> inhibited
  <2>1. CASE Prepare
    BY <2>1, Zenon DEF Prepare
  <2>2. CASE ToHooks \/ Freeze \/ Thaw
    BY <2>2 DEF ToHooks, Freeze, Thaw
  <2>3. CASE Resumed
    BY <2>3, Zenon DEF Resumed
  <2>4. CASE LinkUp \/ LinkDown \/ Replug
    BY <2>4 DEF LinkUp, LinkDown, Replug
  <2> QED
    BY <2>1, <2>2, <2>3, <2>4 DEF Around
<1>3. /\ claims \in {0, 1} /\ setup.nics \in Nat /\ setup.fallback \in {"hook", "listener"}
      /\ at["dispatcher"] # "idle" => queue # <<>>
      /\ setup.fallback = "listener" => setup.nics = 0
      /\ Owed' <=> Owed
  BY <1>1, Actors DEF Event, Owed
<1>4. ASSUME ~(stage = "awake" /\ stage' = "preparing")  PROVE claims' = claims
  BY <1>1, <1>3, <1>4, Counting
<1>5. ASSUME claims' \in {0, 1}  PROVE Once'
  BY <1>1, <1>5 DEF Ready, CycleInv, Once
<1>6. CASE LinkUp \/ LinkDown \/ Replug
  <2>1. UNCHANGED <<stage, inbox>> /\ stage = "awake"
    BY <1>6 DEF LinkUp, LinkDown, Replug
  <2>2. claims' = claims /\ Stage' = Stage
    BY <1>4, <2>1 DEF Stage
  <2>3. NetCycle' /\ HookCycle' /\ ListenerCycle'
    BY <1>1, <1>2, <2>1 DEF Ready, CycleInv, NetCycle, HookCycle, ListenerCycle
  <2> QED
    BY <1>3, <1>5, <2>2, <2>3, Passes DEF KeepsPromise, CycleInv
<1>7. CASE Prepare
  <2>1. /\ stage = "awake" /\ stage' = "preparing"
        /\ links = setup.nics /\ "pre-down" \notin Pending /\ inbox = <<>>
    BY <1>7 DEF Prepare, Unhurried
  <2>2. claims' = 0 /\ Stage = "awake" /\ Stage' = "preparing"
    BY <2>1 DEF HSNext, Stage
  <2>3. Promise!Next
    BY <1>3, <2>2, Passes
  <2>4. ASSUME setup.nics > 0  PROVE NetCycle'
    <3>1. Ordered' /\ "pre-down" \in Pending'
      BY <1>7, <2>1, <2>4, OrderedAtPrepare, PreDownQueue DEF Ready
    <3>2. ASSUME flag["sleep"]  PROVE Head(queue') = "up"
      <4>1. "up" \in Pending
        BY <1>3, <2>1, <3>2 DEF Ready, NetInv
      <4>2. queue # <<>>
        BY <4>1 DEF Pending
      <4> QED
        BY <1>7, <2>1, <4>2, PreDownQueue, OrderedQueue DEF Ready
    <3> QED
      BY <1>1, <2>1, <2>2, <2>4, <3>1, <3>2 DEF Ready, CycleInv, NetCycle
  <2>5. NetCycle'
    BY <1>1, <2>4 DEF NetCycle
  <2>6. HookCycle'
    BY <1>1, <2>1, <2>2 DEF HookCycle
  <2>7. ASSUME setup.fallback = "listener"  PROVE PendsSleep' /\ ~flag["hook"]
    <3>1. inhibited /\ at["listener"] = "idle"
      BY <2>1, <2>7, OneSignal DEF Ready, ListenInv
    <3>2. inbox' = Append(inbox, TRUE)
      BY <1>7, <2>7, <3>1 DEF Prepare, Signal
    <3> QED
      BY <2>1, <2>7, <3>1, <3>2, OneSignal DEF Ready, CycleInv, ListenerCycle
  <2>8. ListenerCycle'
    BY <1>1, <2>1, <2>2, <2>7 DEF ListenerCycle
  <2> QED
    BY <1>5, <2>2, <2>3, <2>5, <2>6, <2>8 DEF KeepsPromise, CycleInv
<1>8. CASE ToHooks
  <2>1. /\ stage = "preparing" /\ stage' = "hooks" /\ UNCHANGED <<queue, inbox>>
        /\ ~inhibited /\ "pre-down" \notin Pending
    BY <1>8 DEF ToHooks, InhibitorsGone, Unhurried
  <2>2. claims' = claims /\ Stage' = Stage
    BY <1>4, <2>1 DEF Stage
  <2>3. ASSUME setup.nics > 0  PROVE queue = <<>> /\ claims = 1 /\ flag["sleep"] /\ at["hook"] \in {"idle", "done"}
    BY <1>3, <2>1, <2>3, OrderedQueue DEF Ready, CycleInv, NetCycle
  <2>4. NetCycle'
    BY <1>1, <1>3, <2>1, <2>2, <2>3 DEF Ready, CycleInv, NetCycle
  <2>5. HookCycle'
    BY <1>1, <2>1, <2>2 DEF Ready, HookInv, CycleInv, HookCycle
  <2>6. ASSUME setup.fallback = "listener"  PROVE claims = 1
    BY <2>1, <2>6, OneSignal DEF Ready, ListenInv, CycleInv, ListenerCycle
  <2>7. ListenerCycle'
    BY <1>1, <2>1, <2>2, <2>6 DEF ListenerCycle
  <2> QED
    BY <1>3, <1>5, <2>2, <2>4, <2>5, <2>7, Passes DEF KeepsPromise, CycleInv
<1>9. CASE Freeze
  <2>1. /\ stage = "hooks" /\ stage' = "asleep" /\ UNCHANGED <<queue, inbox>>
        /\ setup.fallback = "hook" => at["hook"] = "done"
    BY <1>9 DEF Freeze
  <2>2. claims' = claims /\ Stage = "preparing" /\ Stage' = "asleep"
    BY <1>4, <2>1 DEF Stage
  <2>3. claims = 1
    BY <1>3, <2>1 DEF Ready, CycleInv, NetCycle, HookCycle, ListenerCycle
  <2>4. NetCycle' /\ HookCycle' /\ ListenerCycle'
    BY <1>1, <1>2, <2>1, <2>2, <2>3 DEF Ready, CycleInv, NetCycle, HookCycle, ListenerCycle
  <2> QED
    BY <1>3, <1>5, <2>2, <2>3, <2>4, Passes DEF KeepsPromise, CycleInv
<1>10. CASE Thaw
  <2>1. stage = "asleep" /\ stage' = "waking" /\ UNCHANGED <<queue, inbox>>
    BY <1>10 DEF Thaw
  <2>2. claims' = claims /\ Stage = "asleep" /\ Stage' = "awake"
    BY <1>4, <2>1 DEF Stage
  <2>3. NetCycle' /\ HookCycle' /\ ListenerCycle'
    BY <1>1, <1>2, <2>1, <2>2 DEF Ready, CycleInv, NetCycle, HookCycle, ListenerCycle
  <2> QED
    BY <1>3, <1>5, <2>2, <2>3, Passes DEF KeepsPromise, CycleInv
<1>11. CASE Resumed
  <2>1. stage = "waking" /\ stage' = "awake" /\ UNCHANGED queue
    BY <1>11 DEF Resumed
  <2>2. claims' = claims /\ Stage' = Stage
    BY <1>4, <2>1 DEF Stage
  <2>3. setup.fallback = "listener" => ~inhibited
    BY <2>1 DEF Ready, ListenInv
  <2>4. NetCycle' /\ HookCycle' /\ ListenerCycle'
    BY <1>1, <1>2, <1>3, <2>1, <2>2, <2>3 DEF Ready, CycleInv, NetCycle, HookCycle, ListenerCycle
  <2> QED
    BY <1>3, <1>5, <2>2, <2>4, Passes DEF KeepsPromise, CycleInv
<1> QED
  BY <1>6, <1>7, <1>8, <1>9, <1>10, <1>11 DEF Around

\* Every step keeps the promise.
LEMMA CycleStep == Ready /\ Apart /\ Unhurried /\ [HSNext]_hsvars => KeepsPromise
<1> SUFFICES ASSUME Ready, Apart, Unhurried, [HSNext]_hsvars PROVE KeepsPromise
  OBVIOUS
<1>1. CASE UNCHANGED hsvars
  <2>1. inhibited' <=> inhibited
    BY <1>1, Zenon DEF hsvars, svars
  <2> QED
    BY <1>1, <2>1, CycleQuiet DEF hsvars, svars, machine, Ready, CycleInv, Once
<1>2. CASE HSNext
  <2>1. \/ PreDown \/ DispatcherClaims \/ Up
        \/ HookPre \/ HookPost
        \/ SleepSignal \/ Grace \/ Release \/ ResumeSignal
        \/ WatcherOn \/ GateAwake \/ RemoveStaleFlag \/ Escalate \/ RunOn
        \/ Around \/ StartListener \/ DieListener
        \/ \E e \in Walkers : SkipKnownOff(e) \/ PowerOff(e) \/ MarkOff(e)
    BY <1>2 DEF HSNext, SNext, Dispatcher, Hook, Listener, Watcher, Off, Walkers, Entries
  <2>2. ~StartListener /\ ~DieListener
    BY DEF StartListener, DieListener, Ready, ListenInv, Unhurried
  <2> QED
    BY <1>2, <2>1, <2>2, CycleDispatcher, CycleHook, CycleListener, CycleApart, CycleMachine, CycleOff
<1> QED
  BY <1>1, <1>2

\* The entry points implement SleepCycle: each suspend is handled by exactly one of
\* them before the sleep and answered once after it, on every machine where suspends
\* leave them the time and nothing takes their flags from them.
THEOREM CycleSafe == ASSUME Unhurried, Apart PROVE HSSpec => CycleKept
<1>1. HSInit => Ready
  <2> SUFFICES ASSUME HSInit PROVE Ready
    OBVIOUS
  <2>1. /\ stage = "awake" /\ queue = <<>> /\ claims = 0
        /\ ~flag["sleep"] /\ ~flag["hook"] /\ \A e \in Walkers : at[e] = "idle"
    BY DEF HSInit, SInit, Walkers
  <2>2. CycleInv
    BY <2>1 DEF CycleInv, Once, NetCycle, HookCycle, ListenerCycle, Walkers, Entries
  <2> QED
    BY <2>2, TypedInitially, OwingInitially, ListenInitially DEF Ready, Owing, HSInit
<1>2. HSInit => Promise!Init
  BY Zenon DEF HSInit, SInit, Promise!Init, Stage, Owed
<1>3. Ready /\ [HSNext]_hsvars => Ready' /\ [Promise!Next]_(Promise!cycle)
  BY TypedStep, NetStep, HookStep, PatientStep, ListenStep, CycleStep, HistoryStep
     DEF Ready, KeepsPromise, Unhurried
<1> QED
  BY <1>1, <1>2, <1>3, PTL DEF HSSpec, CycleKept, Promise!Spec
=============================================================================
