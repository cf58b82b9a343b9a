--------------------------- MODULE SuspendProofs ---------------------------
(* Theorems about the suspend entry points, for every machine, grace wait  *)
(* and queue.                                                              *)
EXTENDS SuspendHistory, SequenceTheorems, TLAPS

USE SuspendAssumption

Members(q) == {q[i] : i \in DOMAIN q}
Events == {"pre-down", "up"}

--------------------------------------------------------------------------
(* Queues.                                                                *)

\* What the tail of a sequence has of it.
LEMMA TailMembers ==
    ASSUME NEW S, NEW q \in Seq(S), q # <<>>
    PROVE  /\ Tail(q) \in Seq(S) /\ Len(Tail(q)) = Len(q) - 1
           /\ Head(q) = q[1] /\ Len(Tail(q)) \in Nat /\ DOMAIN Tail(q) = 1..Len(Tail(q))
           /\ Len(q) # 1 => Tail(q) # <<>> /\ Len(Tail(q)) \in DOMAIN Tail(q)
           /\ Head(q) \in Members(q) /\ Members(Tail(q)) \subseteq Members(q)
           /\ \A x \in Members(q) : x # Head(q) => x \in Members(Tail(q))
           /\ Tail(q) # <<>> => Tail(q)[Len(Tail(q))] = q[Len(q)]
<1>1. /\ Tail(q) \in Seq(S) /\ Len(q) \in Nat \ {0} /\ Len(Tail(q)) = Len(q) - 1
      /\ Head(q) = q[1] /\ DOMAIN q = 1..Len(q) /\ DOMAIN Tail(q) = 1..Len(q) - 1
      /\ \A i \in 1..Len(q) - 1 : Tail(q)[i] = q[i + 1]
  BY EmptySeq, HeadTailProperties
<1>2. Head(q) \in Members(q) /\ Members(Tail(q)) \subseteq Members(q)
  BY <1>1 DEF Members
<1>3. ASSUME NEW x \in Members(q), x # Head(q)  PROVE x \in Members(Tail(q))
  <2>1. PICK i \in 2..Len(q) : x = q[i]
    BY <1>1, <1>3 DEF Members
  <2>2. i - 1 \in 1..Len(q) - 1 /\ Tail(q)[i - 1] = x
    BY <1>1, <2>1
  <2> QED
    BY <1>1, <2>2 DEF Members
<1>4. Tail(q) # <<>> => Tail(q)[Len(Tail(q))] = q[Len(q)]
  BY <1>1, EmptySeq
<1>5. /\ Len(Tail(q)) \in Nat /\ DOMAIN Tail(q) = 1..Len(Tail(q))
      /\ Len(q) # 1 => Tail(q) # <<>> /\ Len(Tail(q)) \in DOMAIN Tail(q)
  <2>1. Len(Tail(q)) \in Nat /\ DOMAIN Tail(q) = 1..Len(Tail(q)) /\ (Len(q) # 1 => Len(Tail(q)) >= 1)
    BY <1>1
  <2>2. Tail(q) = <<>> => Len(Tail(q)) = 0
    BY EmptySeq, Zenon
  <2> QED
    BY <2>1, <2>2
<1>6. Head(q) = q[1] /\ Tail(q) \in Seq(S) /\ Len(Tail(q)) = Len(q) - 1
  BY <1>1
<1> QED
  BY <1>2, <1>3, <1>4, <1>5, <1>6, Zenon

\* What an append adds.
LEMMA AppendMembers ==
    ASSUME NEW S, NEW q \in Seq(S), NEW x \in S
    PROVE  /\ Append(q, x) \in Seq(S) /\ Len(Append(q, x)) = Len(q) + 1 /\ Append(q, x) # <<>>
           /\ Members(Append(q, x)) = Members(q) \cup {x}
           /\ q # <<>> => Head(Append(q, x)) = Head(q)
           /\ Append(q, x)[Len(q) + 1] = x
<1>1. /\ Append(q, x) \in Seq(S) /\ Len(q) \in Nat /\ Len(Append(q, x)) = Len(q) + 1
      /\ DOMAIN q = 1..Len(q) /\ DOMAIN Append(q, x) = 1..Len(q) + 1
      /\ \A i \in 1..Len(q) : Append(q, x)[i] = q[i]
      /\ Append(q, x)[Len(q) + 1] = x
  BY AppendProperties
<1>2. Members(Append(q, x)) = Members(q) \cup {x}
  BY <1>1 DEF Members
<1>3. q # <<>> => Head(Append(q, x)) = Head(q)
  BY <1>1, EmptySeq
<1> QED
  BY <1>1, <1>2, <1>3, AppendProperties

--------------------------------------------------------------------------
(* Types.                                                                 *)

Walkers == Entries \cup {"watcher"}
Points == {"idle", "claim", "grace", "hint", "off", "mark", "release", "done", "stale", "dead"}

\* Where each of them can be, and the signals that can be pending until the resume.
Places ==
    /\ at["hook"] \in {"idle", "hint", "off", "mark", "done"}
    /\ at["listener"] \in {"idle", "grace", "hint", "off", "mark", "release", "dead"}
    /\ at["watcher"] \in {"idle", "stale", "off", "mark"}
    /\ stage # "awake" => Len(inbox) <= 2

TInv == STypeOK /\ Places

\* An OFF goes one step further, and at its end the dispatcher's script is over.
OffMoves(e, to) ==
    /\ stage # "asleep" /\ at[e] \in {"hint", "off", "mark"}
    /\ to \in {"off", "mark", Over(e)}
    /\ at' = [at EXCEPT ![e] = to]
    /\ queue' = IF e = "dispatcher" /\ to = "idle" THEN Tail(queue) ELSE queue
    /\ UNCHANGED <<setup, stage, links, inbox, inhibited, polls, flag, on>>

\* Each step of an OFF is one of those.
LEMMA OffStep ==
    ASSUME TInv, NEW e \in Walkers, SkipKnownOff(e) \/ PowerOff(e) \/ MarkOff(e)
    PROVE  /\ \E to \in {"off", "mark", Over(e)} : OffMoves(e, to)
           /\ tvOff' \in BOOLEAN /\ tv' \in BOOLEAN
<1> USE DEF OffMoves, Goto, ScriptEnds, Over, Frozen, outcome, Walkers, Entries
<1>1. CASE SkipKnownOff(e)
  <2>1. CASE tvOff
    BY <1>1, <2>1 DEF SkipKnownOff, TInv, STypeOK
  <2>2. CASE ~tvOff
    BY <1>1, <2>2 DEF SkipKnownOff, TInv, STypeOK
  <2> QED
    BY <2>1, <2>2
<1>2. CASE PowerOff(e)
  BY <1>2 DEF PowerOff, TInv, STypeOK
<1>3. CASE MarkOff(e)
  BY <1>3 DEF MarkOff, TInv, STypeOK
<1> QED
  BY <1>1, <1>2, <1>3

\* The state is well typed at the beginning.
LEMMA TypedInitially == SInit => TInv
<1> SUFFICES ASSUME SInit PROVE TInv
  OBVIOUS
<1>1. inhibited \in BOOLEAN
  BY Zenon DEF SInit
<1>2. setup \in Setups /\ setup.nics \in Nat /\ GracePolls \in Nat /\ MaxQueue \in Nat
  BY DEF SInit
<1>3. queue \in Seq(Events) /\ inbox \in Seq(BOOLEAN) /\ Len(queue) = 0 /\ Len(inbox) = 0
  BY EmptySeq DEF SInit
<1>4. at \in [Walkers -> Points] /\ \A e \in Walkers : at[e] = "idle"
  BY DEF SInit, Walkers, Points
<1>5. flag \in [{"sleep", "hook"} -> BOOLEAN]
  BY DEF SInit
<1>6. stage = "awake" /\ links \in 0..setup.nics /\ polls \in 0..GracePolls
  BY <1>2 DEF SInit
<1>7. tvOff \in BOOLEAN /\ tv \in BOOLEAN /\ on = "none"
  BY Zenon DEF SInit
<1>8. STypeOK
  BY <1>1, <1>2, <1>3, <1>4, <1>5, <1>6, <1>7 DEF STypeOK, Walkers, Points, Entries, Events
<1>9. Places
  BY <1>3, <1>4, <1>6 DEF Places, Walkers, Entries
<1> QED
  BY <1>8, <1>9 DEF TInv

\* A sequence of signals, read or lengthened.
LEMMA Inboxes ==
    TInv => /\ inbox # <<>> => Tail(inbox) \in Seq(BOOLEAN) /\ Len(Tail(inbox)) = Len(inbox) - 1
            /\ Append(inbox, TRUE) \in Seq(BOOLEAN) /\ Len(Append(inbox, TRUE)) = Len(inbox) + 1
            /\ Append(inbox, FALSE) \in Seq(BOOLEAN) /\ Len(Append(inbox, FALSE)) = Len(inbox) + 1
            /\ Len(inbox) \in Nat /\ (inbox = <<>> => Len(inbox) = 0)
            /\ <<>> \in Seq(BOOLEAN) /\ Len(<<>>) = 0
<1> SUFFICES ASSUME TInv PROVE /\ inbox # <<>> => Tail(inbox) \in Seq(BOOLEAN) /\ Len(Tail(inbox)) = Len(inbox) - 1
            /\ Append(inbox, TRUE) \in Seq(BOOLEAN) /\ Len(Append(inbox, TRUE)) = Len(inbox) + 1
            /\ Append(inbox, FALSE) \in Seq(BOOLEAN) /\ Len(Append(inbox, FALSE)) = Len(inbox) + 1
            /\ Len(inbox) \in Nat /\ (inbox = <<>> => Len(inbox) = 0)
            /\ <<>> \in Seq(BOOLEAN) /\ Len(<<>>) = 0
  OBVIOUS
<1>1. inbox \in Seq(BOOLEAN)
  BY DEF TInv, STypeOK
<1>2. Len(inbox) \in Nat
  BY <1>1, LenProperties
<1> QED
  BY <1>1, <1>2, TailMembers, AppendMembers, EmptySeq

\* What the machine keeps of itself.
MachineTyped ==
    /\ stage \in {"awake", "preparing", "hooks", "asleep", "waking"}
    /\ setup \in Setups /\ links \in 0..setup.nics
    /\ queue \in Seq(Events) /\ Len(queue) <= MaxQueue
    /\ inbox \in Seq(BOOLEAN) /\ Len(inbox) <= 3 /\ (stage # "awake" => Len(inbox) <= 2)
    /\ polls \in 0..GracePolls
    /\ on \in {"none", "clear", "wake", "input"}

\* And what it keeps of the entry points.
EntriesTyped ==
    /\ at \in [Walkers -> Points]
    /\ at["dispatcher"] \in {"idle", "claim", "hint", "off", "mark"}
    /\ at["dispatcher"] # "idle" => Event("pre-down")
    /\ at["hook"] \in {"idle", "hint", "off", "mark", "done"}
    /\ at["listener"] \in {"idle", "grace", "hint", "off", "mark", "release", "dead"}
    /\ at["watcher"] \in {"idle", "stale", "off", "mark"}

Truths ==
    /\ inhibited \in BOOLEAN /\ tvOff \in BOOLEAN /\ tv \in BOOLEAN
    /\ flag \in [{"sleep", "hook"} -> BOOLEAN]

\* The type invariant is these three.
LEMMA TypedParts == TInv <=> MachineTyped /\ EntriesTyped /\ Truths
BY DEF TInv, STypeOK, Places, MachineTyped, EntriesTyped, Truths, Walkers, Points, Events

\* What is true or false stays so.
LEMMA TruthsStep == TInv /\ [SNext]_svars => Truths'
<1> SUFFICES ASSUME TInv, [SNext]_svars PROVE Truths'
  OBVIOUS
<1>1. Truths
  BY TypedParts
<1>2. \A f \in {"sleep", "hook"} : /\ [flag EXCEPT ![f] = TRUE] \in [{"sleep", "hook"} -> BOOLEAN]
                                   /\ [flag EXCEPT ![f] = FALSE] \in [{"sleep", "hook"} -> BOOLEAN]
  BY <1>1 DEF Truths
<1>3. \A e \in Entries : FlagOf(e) \in {"sleep", "hook"}
  BY DEF FlagOf
<1>4. "dispatcher" \in Entries /\ "hook" \in Entries /\ "listener" \in Entries
      /\ "sleep" \in {"sleep", "hook"} /\ TRUE \in BOOLEAN /\ FALSE \in BOOLEAN
  BY DEF Entries
<1> USE <1>1, <1>2, <1>3, <1>4 DEF Truths, outcome, machine
<1>5. CASE UNCHANGED svars
  BY <1>5, Zenon DEF svars
<1>6. ASSUME NEW e \in Walkers, SkipKnownOff(e) \/ PowerOff(e) \/ MarkOff(e)  PROVE Truths'
  BY <1>6, OffStep, Zenon DEF OffMoves
<1>7. CASE PreDown \/ DispatcherClaims
  BY <1>7, Zenon DEF PreDown, DispatcherClaims, Claim
<1>8. CASE Up
  BY <1>8, Zenon DEF Up, TvOn
<1>9. CASE HookPre \/ HookPost
  BY <1>9, Zenon DEF HookPre, HookPost, Claim, TvOn
<1>10. CASE SleepSignal \/ ResumeSignal
  BY <1>10, Zenon DEF SleepSignal, ResumeSignal, TvOn
<1>11. CASE Grace \/ Release
  BY <1>11, Zenon DEF Grace, Release, Claim
<1>12. CASE DieListener \/ StartListener
  BY <1>12, Zenon DEF DieListener, StartListener
<1>13. CASE WatcherOn \/ GateAwake \/ RemoveStaleFlag \/ Escalate
  BY <1>13, Zenon DEF WatcherOn, GateAwake, RemoveStaleFlag, Escalate
<1>14. CASE RunOn
  BY <1>14, Zenon DEF RunOn
<1>15. CASE Prepare \/ ToHooks \/ Freeze \/ Thaw \/ Resumed
  BY <1>15, Zenon DEF Prepare, ToHooks, Freeze, Thaw, Resumed
<1>16. CASE LinkUp \/ LinkDown \/ Replug
  BY <1>16, Zenon DEF LinkUp, LinkDown, Replug
<1>17. "dispatcher" \in Walkers /\ "hook" \in Walkers /\ "listener" \in Walkers /\ "watcher" \in Walkers
  BY DEF Walkers, Entries
<1> QED
  BY <1>5, <1>6, <1>7, <1>8, <1>9, <1>10, <1>11, <1>12, <1>13, <1>14, <1>15, <1>16, <1>17, Zenon
     DEF SNext, Dispatcher, Hook, Listener, Watcher, Around, Off

\* The queue, shortened or lengthened.
LEMMA Queues ==
    TInv => /\ Len(queue) \in Nat /\ (queue = <<>> => Len(queue) = 0)
            /\ queue # <<>> => Tail(queue) \in Seq(Events) /\ Len(Tail(queue)) = Len(queue) - 1
            /\ \A x \in {"pre-down", "up"} :
                  /\ Append(queue, x) \in Seq(Events) /\ Len(Append(queue, x)) = Len(queue) + 1
                  /\ Append(queue, x) # <<>> /\ (queue # <<>> => Head(Append(queue, x)) = Head(queue))
                  /\ <<x>> \in Seq(Events) /\ Len(<<x>>) = 1
<1> SUFFICES ASSUME TInv
             PROVE  /\ Len(queue) \in Nat /\ (queue = <<>> => Len(queue) = 0)
                    /\ queue # <<>> => Tail(queue) \in Seq(Events) /\ Len(Tail(queue)) = Len(queue) - 1
                    /\ \A x \in {"pre-down", "up"} :
                          /\ Append(queue, x) \in Seq(Events) /\ Len(Append(queue, x)) = Len(queue) + 1
                          /\ Append(queue, x) # <<>> /\ (queue # <<>> => Head(Append(queue, x)) = Head(queue))
                          /\ <<x>> \in Seq(Events) /\ Len(<<x>>) = 1
  OBVIOUS
<1>1. queue \in Seq(Events)
  BY DEF TInv, STypeOK, Events
<1>2. Len(queue) \in Nat
  BY <1>1, LenProperties
<1> QED
  BY <1>1, <1>2, TailMembers, AppendMembers, EmptySeq DEF Events

\* The queue of a suspend: what was there, and an event for each connected device.
LEMMA PreDownQueue ==
    TInv /\ Prepare =>
        /\ queue' \in Seq(Events) /\ Len(queue') <= MaxQueue
        /\ queue # <<>> => queue' # <<>> /\ Head(queue') = Head(queue)
        /\ links = 0 => queue' = queue
        /\ links > 0 => Pending' = Pending \cup {"pre-down"}
        /\ DOMAIN queue = 1..Len(queue) /\ DOMAIN queue' = 1..Len(queue) + links
        /\ \A i \in 1..Len(queue) : queue'[i] = queue[i]
        /\ \A i \in Len(queue) + 1..Len(queue) + links : queue'[i] = "pre-down"
<1> SUFFICES ASSUME TInv, Prepare
             PROVE  /\ queue' \in Seq(Events) /\ Len(queue') <= MaxQueue
                    /\ queue # <<>> => queue' # <<>> /\ Head(queue') = Head(queue)
                    /\ links = 0 => queue' = queue
                    /\ links > 0 => Pending' = Pending \cup {"pre-down"}
                    /\ DOMAIN queue = 1..Len(queue) /\ DOMAIN queue' = 1..Len(queue) + links
                    /\ \A i \in 1..Len(queue) : queue'[i] = queue[i]
                    /\ \A i \in Len(queue) + 1..Len(queue) + links : queue'[i] = "pre-down"
  OBVIOUS
<1> DEFINE p == [i \in 1..links |-> "pre-down"]
<1>1. queue \in Seq(Events) /\ links \in Nat /\ Len(queue) + links <= MaxQueue
  BY DEF TInv, STypeOK, Events, Prepare
<1>2. queue' = queue \o p
  BY DEF Prepare
<1>3. p \in Seq(Events) /\ Len(p) = links /\ Len(queue) \in Nat /\ DOMAIN queue = 1..Len(queue)
  BY <1>1, LenProperties DEF Events
<1>4. \A i \in 1..links : p[i] = "pre-down"
  OBVIOUS
<1> HIDE DEF p
<1>5. /\ queue' \in Seq(Events) /\ Len(queue') = Len(queue) + links
      /\ \A i \in 1..Len(queue) + links : queue'[i] = IF i <= Len(queue) THEN queue[i] ELSE p[i - Len(queue)]
  BY <1>1, <1>2, <1>3, ConcatProperties
<1>6. /\ \A i \in 1..Len(queue) : queue'[i] = queue[i]
      /\ \A i \in Len(queue) + 1..Len(queue) + links : queue'[i] = "pre-down"
  BY <1>1, <1>3, <1>4, <1>5
<1>7. DOMAIN queue' = 1..Len(queue) + links
  BY <1>1, <1>3, <1>5, LenProperties
<1>8. links = 0 => queue' = queue
  BY <1>1, <1>3, <1>5, <1>6, SeqEqual
<1>9. ASSUME links > 0  PROVE Pending' = Pending \cup {"pre-down"}
  <2>1. Pending' \subseteq Pending \cup {"pre-down"}
    BY <1>1, <1>3, <1>6, <1>7 DEF Pending
  <2>2. Len(queue) + 1 \in DOMAIN queue' /\ queue'[Len(queue) + 1] = "pre-down"
    BY <1>1, <1>3, <1>6, <1>7, <1>9
  <2>3. Pending \subseteq Pending'
    BY <1>1, <1>3, <1>6, <1>7 DEF Pending
  <2> QED
    BY <2>1, <2>2, <2>3 DEF Pending
<1>10. queue # <<>> => queue' # <<>> /\ Head(queue') = Head(queue)
  BY <1>1, <1>3, <1>5, <1>6, EmptySeq
<1> QED
  BY <1>1, <1>3, <1>5, <1>6, <1>7, <1>8, <1>9, <1>10

\* The machine keeps its types.
LEMMA MachineStep == TInv /\ [SNext]_svars => MachineTyped'
<1> SUFFICES ASSUME TInv, [SNext]_svars PROVE MachineTyped'
  OBVIOUS
<1>1. MachineTyped /\ (at["dispatcher"] # "idle" => Event("pre-down"))
  BY DEF TInv, STypeOK, Places, MachineTyped, Events
<1>2. setup.nics \in Nat /\ GracePolls \in Nat /\ MaxQueue \in Nat \ {0} /\ links \in Nat
  BY <1>1 DEF MachineTyped
<1> USE <1>1, <1>2 DEF MachineTyped, machine, outcome, Event
<1>3. CASE UNCHANGED svars
  BY <1>3 DEF svars
<1>4. ASSUME NEW e \in Walkers, SkipKnownOff(e) \/ PowerOff(e) \/ MarkOff(e)  PROVE MachineTyped'
  <2>1. PICK to \in {"off", "mark", Over(e)} : OffMoves(e, to)
    BY <1>4, OffStep
  <2>2. queue' = queue \/ (queue # <<>> /\ queue' = Tail(queue))
    BY <2>1 DEF OffMoves
  <2>3. queue' \in Seq(Events) /\ Len(queue') <= MaxQueue
    BY <2>2, Queues, SMTT(60)
  <2> QED
    BY <2>1, <2>3 DEF OffMoves
<1>5. CASE PreDown \/ DispatcherClaims
  <2>1. queue' = queue \/ (queue # <<>> /\ queue' = Tail(queue))
    BY <1>5 DEF PreDown, DispatcherClaims
  <2>2. UNCHANGED <<setup, stage, links, inbox, polls, on>>
    BY <1>5 DEF PreDown, DispatcherClaims
  <2>3. queue' \in Seq(Events) /\ Len(queue') <= MaxQueue
    BY <2>1, Queues, SMTT(60)
  <2> QED
    BY <2>2, <2>3
<1>6. CASE Up
  BY <1>6, Queues DEF Up, TvOn, RequestOn
<1>7. CASE HookPre \/ HookPost
  BY <1>7 DEF HookPre, HookPost, TvOn, RequestOn
<1>8. CASE SleepSignal \/ ResumeSignal
  <2>1. inbox # <<>> /\ inbox' = Tail(inbox)
    BY <1>8 DEF SleepSignal, ResumeSignal, ReadSignal
  <2>2. UNCHANGED <<setup, stage, links, queue>> /\ polls' \in {0, polls} /\ on' \in {"clear", on}
    BY <1>8 DEF SleepSignal, ResumeSignal, TvOn, RequestOn
  <2>3. inbox' \in Seq(BOOLEAN) /\ Len(inbox) \in Nat /\ Len(inbox') = Len(inbox) - 1
    BY <2>1, Inboxes, Zenon
  <2> QED
    BY <2>2, <2>3
<1>9. CASE Grace \/ Release
  BY <1>9 DEF Grace, Release
<1>10. CASE DieListener \/ StartListener
  <2>1. UNCHANGED <<setup, stage, links, queue, polls, on>> /\ inbox' \in {<<>>, inbox}
    BY <1>10 DEF DieListener, StartListener
  <2>2. inbox' \in Seq(BOOLEAN) /\ Len(inbox') \in {0, Len(inbox)}
    BY <2>1, Inboxes, Zenon
  <2> QED
    BY <2>1, <2>2
<1>11. CASE WatcherOn \/ GateAwake \/ RemoveStaleFlag \/ Escalate
  BY <1>11 DEF WatcherOn, GateAwake, RemoveStaleFlag, Escalate, RequestOn
<1>12. CASE RunOn
  BY <1>12 DEF RunOn
<1>13. CASE Prepare
  <2>1. /\ UNCHANGED <<setup, polls, on>> /\ stage' = "preparing" /\ links' = 0
        /\ Len(inbox) < 2 /\ inbox' \in {Append(inbox, TRUE), inbox}
    BY <1>13 DEF Prepare, Signal
  <2>2. queue' \in Seq(Events) /\ Len(queue') <= MaxQueue
    BY <1>13, PreDownQueue
  <2>3. inbox' \in Seq(BOOLEAN) /\ Len(inbox) \in Nat /\ Len(inbox') \in {Len(inbox), Len(inbox) + 1}
    BY <2>1, Inboxes, Zenon
  <2> QED
    BY <2>1, <2>2, <2>3
<1>14. CASE ToHooks \/ Freeze \/ Thaw
  BY <1>14 DEF ToHooks, Freeze, Thaw
<1>15. CASE Resumed
  <2>1. /\ UNCHANGED <<setup, links, queue, polls, on>> /\ stage = "waking" /\ stage' = "awake"
        /\ inbox' \in {Append(inbox, FALSE), inbox}
    BY <1>15 DEF Resumed, Signal
  <2>2. inbox' \in Seq(BOOLEAN) /\ Len(inbox) \in Nat /\ Len(inbox') \in {Len(inbox), Len(inbox) + 1}
    BY <2>1, Inboxes, Zenon
  <2> QED
    BY <2>1, <2>2
<1>16. CASE LinkUp \/ LinkDown \/ Replug
  <2>1. UNCHANGED <<setup, stage, inbox, polls, on>> /\ links' \in 0..setup.nics
    BY <1>16 DEF LinkUp, LinkDown, Replug
  <2>2. \/ Len(queue) < MaxQueue /\ queue' = Append(queue, "up")
        \/ queue' \in {<<"pre-down">>, <<"up">>}
    BY <1>16 DEF LinkUp, LinkDown, Replug
  <2>3. /\ queue' \in Seq(Events) /\ Len(queue) \in Nat
        /\ (Len(queue) < MaxQueue /\ Len(queue') = Len(queue) + 1) \/ Len(queue') = 1
    BY <2>2, Queues, Zenon
  <2>4. Len(queue') <= MaxQueue
    <3>1. MaxQueue \in Nat /\ 1 <= MaxQueue
      BY SuspendAssumption
    <3>2. CASE Len(queue) < MaxQueue /\ Len(queue') = Len(queue) + 1
      BY <2>3, <3>1, <3>2
    <3>3. CASE Len(queue') = 1
      BY <3>1, <3>3
    <3> QED
      BY <2>3, <3>2, <3>3
  <2>5. UNCHANGED setup /\ UNCHANGED stage /\ UNCHANGED inbox /\ UNCHANGED polls /\ UNCHANGED on
    BY <2>1
  <2> QED
    BY <2>1, <2>3, <2>4, <2>5
<1>17. "dispatcher" \in Walkers /\ "hook" \in Walkers /\ "listener" \in Walkers /\ "watcher" \in Walkers
  BY DEF Walkers, Entries
<1> QED
  BY <1>3, <1>4, <1>5, <1>6, <1>7, <1>8, <1>9, <1>10, <1>11, <1>12, <1>13, <1>14, <1>15, <1>16, <1>17, Zenon
     DEF SNext, Dispatcher, Hook, Listener, Watcher, Around, Off

\* The entry points are where they can be.
LEMMA EntriesStep == TInv /\ [SNext]_svars => EntriesTyped'
<1> SUFFICES ASSUME TInv, [SNext]_svars PROVE EntriesTyped'
  OBVIOUS
<1>1. EntriesTyped
  BY TypedParts
<1> USE <1>1 DEF EntriesTyped, Walkers, Points, Entries, machine, outcome, Event, Goto
<1>3. CASE UNCHANGED svars
  BY <1>3 DEF svars
<1>4. ASSUME NEW e \in Walkers, SkipKnownOff(e) \/ PowerOff(e) \/ MarkOff(e)  PROVE EntriesTyped'
  BY <1>4, OffStep DEF OffMoves, Over
<1>5. CASE PreDown \/ DispatcherClaims
  BY <1>5 DEF PreDown, DispatcherClaims, Claim
<1>6. CASE Up
  BY <1>6 DEF Up
<1>7. CASE HookPre \/ HookPost
  BY <1>7 DEF HookPre, HookPost, Claim
<1>8. CASE SleepSignal \/ ResumeSignal
  BY <1>8 DEF SleepSignal, ResumeSignal, ReadSignal
<1>9. CASE Grace \/ Release
  BY <1>9 DEF Grace, Release, Claim
<1>10. CASE DieListener \/ StartListener
  BY <1>10 DEF DieListener, StartListener
<1>11. CASE WatcherOn \/ GateAwake \/ RemoveStaleFlag \/ Escalate
  BY <1>11 DEF WatcherOn, GateAwake, RemoveStaleFlag, Escalate
<1>12. CASE RunOn
  BY <1>12 DEF RunOn
<1>13. CASE Prepare
  BY <1>13, PreDownQueue DEF Prepare
<1>14. CASE ToHooks \/ Freeze \/ Thaw \/ Resumed
  BY <1>14 DEF ToHooks, Freeze, Thaw, Resumed
<1>15. CASE LinkUp \/ LinkDown \/ Replug
  BY <1>15, Queues DEF LinkUp, LinkDown, Replug
<1> QED
  BY <1>3, <1>4, <1>5, <1>6, <1>7, <1>8, <1>9, <1>10, <1>11, <1>12, <1>13, <1>14, <1>15, Zenon
     DEF SNext, Dispatcher, Hook, Listener, Watcher, Around, Off

\* Every step keeps the types.
LEMMA TypedStep == TInv /\ [SNext]_svars => TInv'
<1> SUFFICES ASSUME TInv, [SNext]_svars PROVE TInv'
  OBVIOUS
<1>1. MachineTyped' /\ EntriesTyped' /\ Truths'
  BY MachineStep, EntriesStep, TruthsStep
<1> QED
  BY <1>1 DEF TInv, STypeOK, Places, MachineTyped, EntriesTyped, Truths, Walkers, Points, Events

\* A step of the history is a step of the entry points and the machine.
LEMMA HistoryStep == [HSNext]_hsvars => [SNext]_svars
BY DEF HSNext, hsvars

\* Every reachable state is well typed.
THEOREM STypeSafe == HSSpec => []STypeOK
<1>1. TInv => STypeOK
  BY DEF TInv
<1> QED
  BY TypedInitially, TypedStep, HistoryStep, <1>1, PTL DEF HSSpec, HSInit

--------------------------------------------------------------------------
(* At rest nothing is owed.                                               *)

\* A flag of the dispatcher waits for a link to come back, or for its event.
NetInv ==
    /\ stage # "awake" => links = 0
    /\ setup.nics = 0 => queue = <<>>
    /\ flag["sleep"] \/ at["dispatcher"] = "claim" =>
           setup.nics > 0 /\ (links < setup.nics \/ "up" \in Pending)

\* A flag of the hook stays no longer than the hook, and the listener is only where it
\* is installed.
HookInv ==
    /\ inbox # <<>> \/ at["listener"] # "idle" => setup.fallback = "listener"
    /\ at["hook"] # "idle" => setup.fallback = "hook" /\ stage \in {"hooks", "asleep", "waking"}
    /\ at["hook"] \in {"hint", "off", "mark"} => stage = "hooks"
    /\ setup.fallback = "hook" /\ flag["hook"] => at["hook"] # "idle"

\* Whether the signal of a resume is pending.
Told(signals) == \E i \in DOMAIN signals : ~signals[i]

\* A flag of the listener waits for the signal of the resume, which is the last.
DeafInv ==
    /\ at["listener"] = "dead" => deaf /\ inbox = <<>>
    /\ stage = "awake" /\ inbox # <<>> => ~inbox[Len(inbox)]
    /\ setup.fallback = "listener" /\ ~deaf /\ (flag["hook"] \/ at["listener"] # "idle") =>
          stage # "awake" \/ Told(inbox)

\* A script that ends takes no up from the queue.
LEMMA UpStays ==
    ASSUME TInv, queue' = queue \/ (Event("pre-down") /\ queue' = Tail(queue)), "up" \in Pending
    PROVE  "up" \in Pending'
<1>1. CASE queue' = queue
  BY <1>1 DEF Pending
<1>2. CASE Event("pre-down") /\ queue' = Tail(queue)
  <2>1. queue \in Seq(Events) /\ queue # <<>> /\ Head(queue) # "up" /\ "up" \in Members(queue)
    BY <1>2 DEF Event, TInv, STypeOK, Events, Pending, Members
  <2> QED
    BY <1>2, <2>1, TailMembers DEF Pending, Members
<1> QED
  BY <1>1, <1>2

\* A link that comes up leaves an event.
LEMMA UpComes ==
    ASSUME TInv, queue' = Append(queue, "up") \/ queue' = <<"up">>
    PROVE  "up" \in Pending'
<1>1. CASE queue' = Append(queue, "up")
  <2>1. queue \in Seq(Events) /\ "up" \in Events
    BY DEF TInv, STypeOK, Events
  <2> QED
    BY <1>1, <2>1, AppendMembers DEF Pending, Members
<1>2. CASE queue' = <<"up">>
  BY <1>2 DEF Pending
<1> QED
  BY <1>1, <1>2

\* Every step keeps the promise of the dispatcher's flag.
LEMMA NetStep == TInv /\ NetInv /\ [SNext]_svars => NetInv'
<1> SUFFICES ASSUME TInv, NetInv, [SNext]_svars PROVE NetInv'
  OBVIOUS
<1>1. /\ setup.nics \in Nat /\ links \in 0..setup.nics
      /\ at \in [Walkers -> Points] /\ (at["dispatcher"] # "idle" => Event("pre-down"))
      /\ flag \in [{"sleep", "hook"} -> BOOLEAN]
  BY DEF TInv, STypeOK, Walkers, Points, Entries
<1>2. /\ stage # "awake" => links = 0
      /\ setup.nics = 0 => queue = <<>>
      /\ flag["sleep"] => setup.nics > 0 /\ (links < setup.nics \/ "up" \in Pending)
      /\ at["dispatcher"] = "claim" => setup.nics > 0 /\ (links < setup.nics \/ "up" \in Pending)
  BY DEF NetInv
<1> USE DEF Walkers, Entries, machine, outcome, Event, Goto, FlagOf
<1>3. CASE UNCHANGED svars
  BY <1>2, <1>3 DEF svars, NetInv, Pending
<1>4. ASSUME NEW e \in Walkers, SkipKnownOff(e) \/ PowerOff(e) \/ MarkOff(e)  PROVE NetInv'
  <2>1. PICK to \in {"off", "mark", Over(e)} : OffMoves(e, to)
    BY <1>4, OffStep
  <2>2. UNCHANGED <<setup, stage, links, flag>> /\ (at'["dispatcher"] = "claim" => at["dispatcher"] = "claim")
    BY <1>1, <2>1 DEF OffMoves, Over
  <2> QED
    BY <1>1, <1>2, <2>1, <2>2, UpStays DEF OffMoves, NetInv
<1>5. CASE PreDown \/ DispatcherClaims
  <2>1. /\ UNCHANGED <<setup, stage, links>> /\ queue # <<>>
        /\ queue' = queue \/ queue' = Tail(queue)
        /\ flag'["sleep"] => flag["sleep"] \/ at["dispatcher"] = "claim"
        /\ at'["dispatcher"] = "claim" => stage # "awake"
    BY <1>1, <1>5 DEF PreDown, DispatcherClaims, Claim, PreparingForSleep
  <2>2. Event("pre-down")
    BY <1>1, <1>5 DEF PreDown, DispatcherClaims
  <2> QED
    BY <1>1, <1>2, <2>1, <2>2, UpStays DEF NetInv
<1>6. CASE Up
  <2>1. UNCHANGED <<setup, stage, links, at>> /\ queue # <<>> /\ ~flag'["sleep"] /\ at["dispatcher"] = "idle"
    BY <1>1, <1>6 DEF Up, TvOn
  <2> QED
    BY <1>1, <1>2, <2>1 DEF NetInv
<1>7. CASE HookPre \/ HookPost
  <2>1. UNCHANGED <<setup, stage, links, queue>> /\ flag'["sleep"] = flag["sleep"] /\ at'["dispatcher"] = at["dispatcher"]
    BY <1>1, <1>7 DEF HookPre, HookPost, Claim, TvOn
  <2> QED
    BY <1>2, <2>1, UpStays DEF NetInv
<1>8. CASE SleepSignal \/ ResumeSignal \/ Grace \/ Release
  <2>1. UNCHANGED <<setup, stage, links, queue>> /\ flag'["sleep"] = flag["sleep"] /\ at'["dispatcher"] = at["dispatcher"]
    BY <1>1, <1>8 DEF SleepSignal, ResumeSignal, Grace, Release, Claim, TvOn
  <2> QED
    BY <1>2, <2>1, UpStays DEF NetInv
<1>9. CASE DieListener \/ StartListener \/ GateAwake \/ Escalate
  <2>1. UNCHANGED <<setup, stage, links, queue, flag>> /\ at'["dispatcher"] = at["dispatcher"]
    BY <1>1, <1>9 DEF DieListener, StartListener, GateAwake, Escalate
  <2> QED
    BY <1>2, <2>1, UpStays DEF NetInv
<1>10. CASE RemoveStaleFlag
  <2>1. UNCHANGED <<setup, stage, links, queue>> /\ ~flag'["sleep"] /\ at'["dispatcher"] = at["dispatcher"]
    BY <1>1, <1>10 DEF RemoveStaleFlag
  <2> QED
    BY <1>2, <2>1, UpStays DEF NetInv
<1>11. CASE WatcherOn \/ RunOn
  <2>1. UNCHANGED <<setup, stage, links, queue, flag, at>>
    BY <1>11 DEF WatcherOn, RunOn
  <2> QED
    BY <1>2, <2>1, UpStays DEF NetInv
<1>12. CASE Prepare
  <2>1. UNCHANGED <<setup, flag, at>> /\ links' = 0 /\ (links = 0 => queue' = queue)
    BY <1>12, PreDownQueue DEF Prepare
  <2> QED
    BY <1>1, <1>2, <2>1 DEF NetInv
<1>13. CASE ToHooks \/ Freeze \/ Thaw \/ Resumed
  <2>1. UNCHANGED <<setup, links, queue, flag, at>> /\ (stage' # "awake" => stage # "awake")
    BY <1>13 DEF ToHooks, Freeze, Thaw, Resumed
  <2> QED
    BY <1>2, <2>1, UpStays DEF NetInv
<1>14. CASE LinkUp \/ Replug
  <2>1. UNCHANGED <<setup, stage, flag, at>> /\ stage = "awake" /\ links' \in 1..setup.nics
    BY <1>1, <1>14 DEF LinkUp, Replug
  <2>2. "up" \in Pending'
    BY <1>14, UpComes DEF LinkUp, Replug
  <2> QED
    BY <1>1, <1>2, <2>1, <2>2 DEF NetInv
<1>15. CASE LinkDown
  <2>1. UNCHANGED <<setup, stage, flag, at>> /\ stage = "awake" /\ links > 0 /\ links' = links - 1
    BY <1>15 DEF LinkDown
  <2> QED
    BY <1>1, <1>2, <2>1 DEF NetInv
<1> QED
  BY <1>3, <1>4, <1>5, <1>6, <1>7, <1>8, <1>9, <1>10, <1>11, <1>12, <1>13, <1>14, <1>15
     DEF SNext, Dispatcher, Hook, Listener, Watcher, Around, Off

\* And that of the hook's.
LEMMA HookStep == TInv /\ HookInv /\ [SNext]_svars => HookInv'
<1> SUFFICES ASSUME TInv, HookInv, [SNext]_svars PROVE HookInv'
  OBVIOUS
<1>1. /\ at \in [Walkers -> Points] /\ flag \in [{"sleep", "hook"} -> BOOLEAN]
      /\ stage \in {"awake", "preparing", "hooks", "asleep", "waking"}
  BY DEF TInv, STypeOK, Walkers, Points, Entries
<1>2. /\ inbox # <<>> \/ at["listener"] # "idle" => setup.fallback = "listener"
      /\ at["hook"] # "idle" => setup.fallback = "hook" /\ stage \in {"hooks", "asleep", "waking"}
      /\ at["hook"] \in {"hint", "off", "mark"} => stage = "hooks"
      /\ setup.fallback = "hook" /\ flag["hook"] => at["hook"] # "idle"
      /\ at["hook"] \in {"idle", "hint", "off", "mark", "done"}
  BY DEF HookInv, TInv, Places
<1> USE DEF Walkers, Entries, machine, outcome, Goto, FlagOf
<1>3. CASE UNCHANGED svars
  BY <1>2, <1>3 DEF svars, HookInv
<1>4. ASSUME NEW e \in Walkers, SkipKnownOff(e) \/ PowerOff(e) \/ MarkOff(e)  PROVE HookInv'
  <2>1. PICK to \in {"off", "mark", Over(e)} : OffMoves(e, to)
    BY <1>4, OffStep
  <2>2. CASE e = "hook"
    BY <1>1, <1>2, <2>1, <2>2 DEF OffMoves, Over, HookInv
  <2>3. CASE e # "hook"
    BY <1>1, <1>2, <2>1, <2>3 DEF OffMoves, HookInv
  <2> QED
    BY <2>2, <2>3
<1>5. CASE PreDown \/ DispatcherClaims \/ Up
  <2>1. /\ UNCHANGED <<setup, stage, inbox>> /\ at'["listener"] = at["listener"]
        /\ at'["hook"] = at["hook"] /\ flag'["hook"] = flag["hook"]
    BY <1>1, <1>5 DEF PreDown, DispatcherClaims, Claim, Up, TvOn
  <2> QED
    BY <1>2, <2>1 DEF HookInv
<1>6. CASE HookPre
  <2>1. /\ UNCHANGED <<setup, stage, inbox>> /\ at'["listener"] = at["listener"]
        /\ setup.fallback = "hook" /\ stage = "hooks" /\ at'["hook"] \in {"hint", "done"}
    BY <1>1, <1>6 DEF HookPre, Claim
  <2> QED
    BY <1>2, <2>1 DEF HookInv
<1>7. CASE HookPost
  <2>1. /\ UNCHANGED <<setup, stage, inbox>> /\ at'["listener"] = at["listener"]
        /\ at'["hook"] = "idle" /\ ~flag'["hook"]
    BY <1>1, <1>7 DEF HookPost, TvOn
  <2> QED
    BY <1>2, <2>1 DEF HookInv
<1>8. CASE SleepSignal \/ Grace \/ Release \/ ResumeSignal \/ DieListener \/ StartListener
  <2>1. /\ UNCHANGED <<setup, stage>> /\ at'["hook"] = at["hook"]
        /\ setup.fallback = "listener"
        /\ flag'["hook"] => flag["hook"] \/ at["listener"] # "idle"
    BY <1>1, <1>2, <1>8 DEF SleepSignal, Grace, Release, ResumeSignal, DieListener, StartListener, ReadSignal, Claim, TvOn
  <2> QED
    BY <1>2, <2>1 DEF HookInv
<1>9. CASE WatcherOn \/ GateAwake \/ RemoveStaleFlag \/ Escalate \/ RunOn
  <2>1. /\ UNCHANGED <<setup, stage, inbox>> /\ at'["listener"] = at["listener"]
        /\ at'["hook"] = at["hook"] /\ flag'["hook"] = flag["hook"]
    BY <1>1, <1>9 DEF WatcherOn, GateAwake, RemoveStaleFlag, Escalate, RunOn
  <2> QED
    BY <1>2, <2>1 DEF HookInv
<1>10. CASE Prepare \/ ToHooks \/ Freeze \/ Thaw \/ Resumed
  <2>1. /\ UNCHANGED <<setup, at, flag>>
        /\ inbox' # <<>> => inbox # <<>> \/ setup.fallback = "listener"
        /\ at["hook"] \in {"hint", "off", "mark"} => stage' = "hooks"
        /\ at["hook"] # "idle" => stage' \in {"hooks", "asleep", "waking"}
    BY <1>1, <1>2, <1>10 DEF Prepare, ToHooks, Freeze, Thaw, Resumed, Signal
  <2> QED
    BY <1>2, <2>1 DEF HookInv
<1>11. CASE LinkUp \/ LinkDown \/ Replug
  BY <1>2, <1>11 DEF LinkUp, LinkDown, Replug, HookInv
<1> QED
  BY <1>3, <1>4, <1>5, <1>6, <1>7, <1>8, <1>9, <1>10, <1>11
     DEF SNext, Dispatcher, Hook, Listener, Watcher, Around, Off

\* A signal that is read leaves the others, and the last of them where it is.
LEMMA SignalRead ==
    ASSUME TInv, inbox # <<>>, inbox' = Tail(inbox)
    PROVE  /\ inbox' # <<>> /\ ~inbox[Len(inbox)] => ~inbox'[Len(inbox')]
           /\ Head(inbox) = TRUE /\ ~inbox[Len(inbox)] => Told(inbox')
<1>1. inbox \in Seq(BOOLEAN) /\ Len(inbox) \in Nat \ {0}
  BY EmptySeq DEF TInv, STypeOK
<1>2. inbox' # <<>> => inbox'[Len(inbox')] = inbox[Len(inbox)]
  BY <1>1, TailMembers, Zenon
<1>3. ASSUME Head(inbox) = TRUE, ~inbox[Len(inbox)]  PROVE Told(inbox')
  <2>1. Len(inbox) # 1
    BY <1>1, <1>3, TailMembers, Zenon
  <2>2. inbox' # <<>> /\ Len(inbox') \in DOMAIN inbox'
    BY <1>1, <2>1, TailMembers, Zenon
  <2> QED
    BY <1>2, <1>3, <2>2, Zenon DEF Told
<1> QED
  BY <1>2, <1>3

\* The signal of the resume is the last.
LEMMA SignalComes ==
    ASSUME TInv, inbox' = Append(inbox, FALSE)
    PROVE  ~inbox'[Len(inbox')] /\ Told(inbox')
<1>1. inbox \in Seq(BOOLEAN) /\ Len(inbox) \in Nat
  BY EmptySeq, LenProperties DEF TInv, STypeOK
<1>2. Len(inbox') = Len(inbox) + 1 /\ ~inbox'[Len(inbox) + 1] /\ Len(inbox) + 1 \in DOMAIN inbox'
  BY <1>1
<1> QED
  BY <1>2 DEF Told

\* Every step keeps the promise of the listener's flag.
LEMMA DeafStep == TInv /\ HookInv /\ DeafInv /\ [HSNext]_hsvars => DeafInv'
<1> SUFFICES ASSUME TInv, HookInv, DeafInv, [HSNext]_hsvars PROVE DeafInv'
  OBVIOUS
<1>1. /\ at \in [Walkers -> Points] /\ flag \in [{"sleep", "hook"} -> BOOLEAN]
      /\ stage \in {"awake", "preparing", "hooks", "asleep", "waking"}
      /\ setup.fallback \in {"hook", "listener"}
  BY DEF TInv, STypeOK, Walkers, Points, Entries
<1>2. /\ at["listener"] = "dead" => deaf /\ inbox = <<>>
      /\ stage = "awake" /\ inbox # <<>> => ~inbox[Len(inbox)]
      /\ setup.fallback = "listener" /\ ~deaf /\ (flag["hook"] \/ at["listener"] # "idle") =>
            stage # "awake" \/ Told(inbox)
      /\ inbox # <<>> \/ at["listener"] # "idle" => setup.fallback = "listener"
  BY DEF DeafInv, HookInv
<1> USE DEF Walkers, Entries, machine, outcome, Goto, FlagOf
<1>3. CASE UNCHANGED hsvars
  BY <1>2, <1>3 DEF hsvars, svars, DeafInv
<1>4. CASE ResumeSignal
  <2>1. /\ UNCHANGED <<setup, stage, at>> /\ inbox # <<>> /\ inbox' = Tail(inbox)
        /\ at["listener"] = "idle" /\ ~flag'["hook"]
    BY <1>1, <1>4 DEF ResumeSignal, ReadSignal, TvOn
  <2> QED
    BY <1>2, <2>1, SignalRead DEF DeafInv
<1>5. CASE HSNext /\ ~ResumeSignal
  <2>1. (at'["listener"] = "dead" => deaf') /\ (deaf => deaf')
    BY <1>5, Zenon DEF HSNext
  <2>2. ASSUME UNCHANGED <<setup, stage, inbox>>, at'["listener"] \in {"idle", at["listener"]},
               flag'["hook"] => flag["hook"]
        PROVE  DeafInv'
    BY <1>2, <2>1, <2>2 DEF DeafInv
  <2>3. ASSUME UNCHANGED <<setup, stage, inbox>>, at["listener"] \notin {"idle", "dead"}, at'["listener"] # "dead"
        PROVE  DeafInv'
    BY <1>2, <2>1, <2>3 DEF DeafInv
  <2>4. ASSUME NEW e \in Walkers, SkipKnownOff(e) \/ PowerOff(e) \/ MarkOff(e)  PROVE DeafInv'
    <3>1. PICK to \in {"off", "mark", Over(e)} : OffMoves(e, to)
      BY <2>4, OffStep
    <3>2. UNCHANGED <<setup, stage, inbox, flag>> /\ at[e] \notin {"idle", "dead"} /\ at' = [at EXCEPT ![e] = to]
      BY <3>1 DEF OffMoves
    <3>3. CASE e = "listener"
      BY <1>1, <2>3, <3>1, <3>2, <3>3 DEF Over
    <3>4. CASE e # "listener"
      BY <1>1, <2>2, <3>2, <3>4
    <3> QED
      BY <3>3, <3>4
  <2>5. CASE PreDown \/ DispatcherClaims \/ Up \/ HookPost
    BY <1>1, <2>2, <2>5 DEF PreDown, DispatcherClaims, Up, HookPost, Claim, TvOn
  <2>6. CASE HookPre
    <3>1. /\ UNCHANGED <<setup, stage, inbox>> /\ at'["listener"] = at["listener"]
          /\ setup.fallback = "hook"
      BY <1>1, <2>6 DEF HookPre, Claim
    <3> QED
      BY <1>2, <2>1, <3>1 DEF DeafInv
  <2>7. CASE SleepSignal
    <3>1. /\ UNCHANGED <<setup, stage, flag>> /\ inbox # <<>> /\ inbox' = Tail(inbox)
          /\ at'["listener"] = "grace"
      BY <1>1, <2>7 DEF SleepSignal, ReadSignal
    <3>2. Head(inbox) = TRUE
      BY <2>7, Zenon DEF SleepSignal, ReadSignal
    <3> QED
      BY <1>2, <2>1, <3>1, <3>2, SignalRead DEF DeafInv
  <2>8. CASE Grace \/ Release
    BY <1>1, <2>3, <2>8 DEF Grace, Release, Claim
  <2>9. CASE DieListener \/ StartListener
    <3>1. CASE DieListener
      BY <1>1, <1>2, <2>1, <3>1 DEF DieListener, DeafInv
    <3>2. CASE StartListener
      BY <1>1, <2>2, <3>2 DEF StartListener
    <3> QED
      BY <2>9, <3>1, <3>2
  <2>10. CASE WatcherOn \/ GateAwake \/ RemoveStaleFlag \/ Escalate \/ RunOn
    BY <1>1, <2>2, <2>10 DEF WatcherOn, GateAwake, RemoveStaleFlag, Escalate, RunOn
  <2>11. CASE Prepare
    <3>1. /\ UNCHANGED <<setup, at>> /\ stage' = "preparing" /\ (at["listener"] = "dead" => inbox' = inbox)
      BY <2>11 DEF Prepare, Signal
    <3> QED
      BY <1>2, <2>1, <3>1 DEF DeafInv
  <2>12. CASE ToHooks \/ Freeze \/ Thaw
    <3>1. UNCHANGED <<setup, at, inbox>> /\ stage' # "awake"
      BY <2>12 DEF ToHooks, Freeze, Thaw
    <3> QED
      BY <1>2, <2>1, <3>1 DEF DeafInv
  <2>13. CASE Resumed
    <3>1. UNCHANGED <<setup, at, flag>>
      BY <2>13 DEF Resumed
    <3>2. CASE setup.fallback = "listener" /\ at["listener"] # "dead"
      <4>1. inbox' = Append(inbox, FALSE)
        BY <2>13, <3>2 DEF Resumed, Signal
      <4> QED
        BY <3>1, <3>2, <4>1, SignalComes DEF DeafInv
    <3>3. CASE ~(setup.fallback = "listener" /\ at["listener"] # "dead")
      <4>1. inbox' = inbox /\ inbox = <<>>
        BY <1>2, <2>13, <3>3 DEF Resumed, Signal
      <4> QED
        BY <1>2, <2>1, <3>1, <3>3, <4>1 DEF DeafInv
    <3> QED
      BY <3>2, <3>3
  <2>14. CASE LinkUp \/ LinkDown \/ Replug
    BY <2>2, <2>14 DEF LinkUp, LinkDown, Replug
  <2> QED
    BY <1>5, <2>4, <2>5, <2>6, <2>7, <2>8, <2>9, <2>10, <2>11, <2>12, <2>13, <2>14
       DEF HSNext, SNext, Dispatcher, Hook, Listener, Watcher, Around, Off
<1> QED
  BY <1>3, <1>4, <1>5

Owing == NetInv /\ HookInv /\ DeafInv

\* The promises hold at the beginning.
LEMMA OwingInitially == HSInit => Owing
<1> SUFFICES ASSUME HSInit PROVE Owing
  OBVIOUS
<1>1. /\ setup.nics \in Nat /\ queue = <<>> /\ inbox = <<>> /\ stage = "awake"
      /\ ~flag["sleep"] /\ ~flag["hook"] /\ \A e \in Walkers : at[e] = "idle"
  BY DEF HSInit, SInit, Walkers
<1> QED
  BY <1>1 DEF Owing, NetInv, HookInv, DeafInv, Walkers, Entries

\* However often suspends cut each other off, once all is at rest and the network is
\* back no flag is left to make the next one stand down, for every machine.
THEOREM SettledSafe == HSSpec => []SettledOwesNothing
<1>1. TInv /\ Owing => SettledOwesNothing
  <2> SUFFICES ASSUME TInv, Owing, Settled PROVE ~flag["sleep"] /\ (~deaf => ~flag["hook"])
    BY DEF SettledOwesNothing
  <2>1. /\ stage = "awake" /\ links = setup.nics /\ queue = <<>> /\ inbox = <<>>
        /\ \A e \in Walkers : at[e] = "idle"
    BY DEF Settled, Walkers
  <2>2. setup.fallback \in {"hook", "listener"} /\ links \in Nat
    BY <2>1 DEF TInv, STypeOK
  <2>3. Pending = {} /\ ~Told(inbox)
    BY <2>1 DEF Pending, Told
  <2> QED
    BY <2>1, <2>2, <2>3 DEF Owing, NetInv, HookInv, DeafInv, Walkers, Entries
<1>2. TInv /\ Owing /\ [HSNext]_hsvars => Owing'
  BY NetStep, HookStep, DeafStep, HistoryStep DEF Owing
<1> QED
  BY TypedInitially, TypedStep, HistoryStep, OwingInitially, <1>1, <1>2, PTL DEF HSSpec, HSInit
=============================================================================
