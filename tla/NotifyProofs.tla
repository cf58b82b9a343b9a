---------------------------- MODULE NotifyProofs ----------------------------
(***************************************************************************)
(* Theorems about the screen-off warning, for every set of Plasma profiles, *)
(* every length of the warning, of the grace and of the poll, and any      *)
(* number of timer threads and notifications.                              *)
(***************************************************************************)
EXTENDS NotifyHistory, TLAPS

USE WarningAssumption, NoneAssumption

-----------------------------------------------------------------------------
(* The arithmetic of compute_timings. *)

Delay == NotifyDelay(OffTime, profile.dim, OffWarning)

\* The settings of a profile are numbers, and a poll is shorter than the dim.
LEMMA ProfileTyped ==
  ASSUME profile \in Profiles
  PROVE  /\ profile.dim \in Nat /\ profile.off \in Nat /\ profile.dim > PollSeconds
         /\ profile.lock \in Int /\ profile.whenLocked \in Int
         /\ profile.autolock \in BOOLEAN /\ profile.enabled \in BOOLEAN
BY ProfileAssumption

\* The delay and what remains after it make up the time from the dim to the
\* screen-off, and Plasma turns the screen off at the time computed for it: by
\* its own timeout, or by the lock's when the lock comes first.
LEMMA TimingsAgree ==
  ASSUME profile \in Profiles, idle \in Nat
  PROVE  /\ OffTime \in Nat /\ Delay \in Nat /\ Promised \in Int
         /\ profile.dim + Delay + Promised = OffTime
         /\ OffDue <=> idle >= OffTime
<1>1. /\ profile.dim \in Nat /\ profile.off \in Nat /\ profile.lock \in Int
      /\ profile.whenLocked \in Int
  BY ProfileTyped
<1>2. Lock \in Int /\ (Lock = NoLock \/ Lock > 0)
  BY <1>1 DEF Lock, LockTimeout, NoLock
<1>3. OffTime \in Nat /\ (OffDue <=> idle >= OffTime)
  BY <1>1, <1>2 DEF OffTime, ScreenOffTimeout, OffDue, Locks, NoLock
<1> QED
  BY <1>1, <1>3 DEF Delay, NotifyDelay, Promised, Remaining

-----------------------------------------------------------------------------
(* What each action does to the threads. *)

ThreadState ==
    {Idle} \cup [kind : {"warning"}, at : {"wait", "send", "create", "start"}, left : Nat]
           \cup [kind : {"warning"}, at : {"store"}, left : Ids]
           \cup [kind : {"check"}, at : {"wait", "dpms", "close", "forget", "notice"}, left : Nat]

\* Thread t becomes r, the others stay.
Becomes(t, r) == threads' = [u \in Threads |-> IF u = t THEN r ELSE threads[u]]
Warning(label, n) == [kind |-> "warning", at |-> label, left |-> n]
Checking(label, n) == [kind |-> "check", at |-> label, left |-> n]

\* The steps of show_warning, as changes of one thread, or of two in the last.
LEMMA WarnMoves ==
  ASSUME threads \in [Threads -> ThreadState], NEW t \in Threads
  PROVE  /\ Recheck(t) => /\ threads[t] = Warning("wait", 0)
                          /\ Becomes(t, IF Dimmed THEN Warning("send", 0) ELSE Idle)
         /\ SendWarning(t) => /\ threads[t].kind = "warning" /\ threads[t].at = "send"
                              /\ \E i \in Ids : /\ Becomes(t, Warning("store", i))
                                                /\ warnings[i] = 0 /\ i # notificationId
                                                /\ warnings' = [warnings EXCEPT ![i] = remaining]
         /\ StoreId(t) => \E i \in Ids : /\ threads[t] = Warning("store", i)
                                         /\ notificationId' = i
                                         /\ Becomes(t, Warning("create", 0))
         /\ CreateCheck(t) => \E n \in Nat : /\ threads[t] = Warning("create", n)
                                             /\ Becomes(t, Warning("start", n))
         /\ StartCheck(t) =>
              /\ threads[t].kind = "warning" /\ threads[t].at = "start"
              /\ checkTimer # New => Becomes(t, Idle) /\ checkTimer' = checkTimer
              /\ checkTimer = New =>
                   \E c \in Threads :
                      /\ threads[c] = Idle /\ c # timer /\ checkTimer' = c /\ c # t
                      /\ threads' = [u \in Threads |-> IF u = t THEN Idle
                                       ELSE IF u = c THEN Checking("wait", CheckAfter) ELSE threads[u]]
<1> USE DEF ThreadState, Becomes, Warning, Checking, Idle, At, Goto
<1>1. Recheck(t) => /\ threads[t] = Warning("wait", 0)
                    /\ Becomes(t, IF Dimmed THEN Warning("send", 0) ELSE Idle)
  <2> SUFFICES ASSUME Recheck(t)
               PROVE  /\ threads[t] = Warning("wait", 0)
                      /\ Becomes(t, IF Dimmed THEN Warning("send", 0) ELSE Idle)
    OBVIOUS
  <2>1. threads[t] = Warning("wait", 0)
    BY DEF Recheck
  <2>2. CASE Dimmed
    <3>1. threads' = [threads EXCEPT ![t] = [threads[t] EXCEPT !.at = "send"]]
      BY <2>2 DEF Recheck
    <3>2. [threads[t] EXCEPT !.at = "send"] = Warning("send", 0)
      BY <2>1
    <3>3. Becomes(t, Warning("send", 0))
      BY <3>1, <3>2
    <3> QED
      BY <2>1, <2>2, <3>3
  <2>3. CASE ~Dimmed
    BY <2>1, <2>3 DEF Recheck
  <2> QED
    BY <2>1, <2>2, <2>3
<1>2. SendWarning(t) => /\ threads[t].kind = "warning" /\ threads[t].at = "send"
                        /\ \E i \in Ids : /\ Becomes(t, Warning("store", i))
                                          /\ warnings[i] = 0 /\ i # notificationId
                                          /\ warnings' = [warnings EXCEPT ![i] = remaining]
  BY DEF SendWarning
<1>3. StoreId(t) => \E i \in Ids : /\ threads[t] = Warning("store", i)
                                   /\ notificationId' = i
                                   /\ Becomes(t, Warning("create", 0))
  <2> SUFFICES ASSUME StoreId(t)
               PROVE  \E i \in Ids : /\ threads[t] = Warning("store", i)
                                     /\ notificationId' = i
                                     /\ Becomes(t, Warning("create", 0))
    OBVIOUS
  <2>1. threads[t].left \in Ids /\ threads[t] = Warning("store", threads[t].left)
    BY DEF StoreId
  <2> QED
    BY <2>1 DEF StoreId
<1>4. CreateCheck(t) => \E n \in Nat : /\ threads[t] = Warning("create", n)
                                       /\ Becomes(t, Warning("start", n))
  <2> SUFFICES ASSUME CreateCheck(t)
               PROVE  \E n \in Nat : /\ threads[t] = Warning("create", n)
                                     /\ Becomes(t, Warning("start", n))
    OBVIOUS
  <2>1. threads[t].left \in Nat /\ threads[t] = Warning("create", threads[t].left)
    BY DEF CreateCheck
  <2>2. threads' = [threads EXCEPT ![t] = [threads[t] EXCEPT !.at = "start"]]
    BY DEF CreateCheck
  <2>3. [threads[t] EXCEPT !.at = "start"] = Warning("start", threads[t].left)
    BY <2>1
  <2>4. Becomes(t, Warning("start", threads[t].left))
    BY <2>2, <2>3
  <2> QED
    BY <2>1, <2>4
<1>5. StartCheck(t) =>
        /\ threads[t].kind = "warning" /\ threads[t].at = "start"
        /\ checkTimer # New => Becomes(t, Idle) /\ checkTimer' = checkTimer
  BY DEF StartCheck
<1>6. ASSUME StartCheck(t), checkTimer = New
      PROVE  \E c \in Threads :
                 /\ threads[c] = Idle /\ c # timer /\ checkTimer' = c /\ c # t
                 /\ threads' = [u \in Threads |-> IF u = t THEN Idle
                                  ELSE IF u = c THEN Checking("wait", CheckAfter) ELSE threads[u]]
  <2>1. PICK c \in FreeThreads :
           /\ checkTimer' = c
           /\ threads' = [threads EXCEPT ![t] = Idle, ![c] = Sleeper("check", CheckAfter)]
    BY <1>6 DEF StartCheck
  <2>2. c \in Threads /\ threads[c] = Idle /\ c # timer /\ threads[t] # Idle
    BY <1>6 DEF FreeThreads, Alive, StartCheck
  <2> QED
    BY <2>1, <2>2 DEF Sleeper
<1> QED
  BY <1>1, <1>2, <1>3, <1>4, <1>5, <1>6

\* The steps of check_screen_off, as changes of one thread.
LEMMA CheckMoves ==
  ASSUME threads \in [Threads -> ThreadState], NEW t \in Threads
  PROVE  /\ CheckDimmed(t) => /\ threads[t] = Checking("wait", 0)
                              /\ Becomes(t, IF Dimmed THEN Checking("dpms", 0) ELSE Idle)
         /\ CheckDpms(t) => \E n \in Nat :
                              /\ threads[t] = Checking("dpms", n)
                              /\ Becomes(t, IF display = "on" THEN Checking("close", n) ELSE Idle)
         /\ CloseWarning(t) => \E n \in Nat : /\ threads[t] = Checking("close", n)
                                              /\ Becomes(t, Checking("forget", n))
         /\ ForgetWarning(t) => \E n \in Nat : /\ threads[t] = Checking("forget", n)
                                               /\ Becomes(t, Checking("notice", n))
         /\ SendNotice(t) => /\ threads[t].kind = "check" /\ threads[t].at = "notice"
                             /\ Becomes(t, Idle)
BY DEF ThreadState, Becomes, Checking, Idle, At, Goto,
       CheckDimmed, CheckDpms, CloseWarning, ForgetWarning, SendNotice

\* A dim that is seen starts at most a warning, on a thread that was free.
LEMMA DimMoves ==
  ASSUME threads \in [Threads -> ThreadState], SeesDim
  PROVE  \/ Alive(timer) /\ UNCHANGED <<notifier, threads>>
         \/ /\ ~Alive(timer) /\ remaining' = Promised /\ UNCHANGED <<notificationId, checkTimer>>
            /\ \/ ~Wanted(Promised) /\ UNCHANGED <<timer, threads>>
               \/ /\ Wanted(Promised)
                  /\ \E t \in Threads : /\ threads[t] = Idle /\ timer' = t /\ t # checkTimer
                                        /\ Becomes(t, Warning("wait", Delay))
<1>1. CASE Alive(timer)
  BY <1>1 DEF SeesDim
<1>2. CASE ~Alive(timer) /\ ~Wanted(Promised)
  BY <1>2 DEF SeesDim, Promised
<1>3. CASE ~Alive(timer) /\ Wanted(Promised)
  <2>1. PICK t \in FreeThreads :
           timer' = t /\ threads' = [threads EXCEPT ![t] = Sleeper("warning", Delay)]
    BY <1>3 DEF SeesDim, Promised, Delay
  <2>2. t \in Threads /\ threads[t] = Idle /\ t # checkTimer
    BY DEF FreeThreads, Alive, ThreadState, Idle
  <2> QED
    BY <1>3, <2>1, <2>2 DEF SeesDim, Promised, Becomes, Warning, Sleeper
<1> QED
  BY <1>1, <1>2, <1>3

\* When time passes, every thread that is not free waits, and waits on.
LEMMA TickMoves ==
  ASSUME threads \in [Threads -> ThreadState], Tick
  PROVE  /\ threads' \in [Threads -> ThreadState]
         /\ \A t \in Threads : threads[t] = Idle => threads'[t] = Idle
         /\ \A t \in Threads :
              \/ threads[t] = Idle /\ threads'[t] = Idle
              \/ \E kind \in {"warning", "check"}, n \in Nat :
                    /\ threads[t] = [kind |-> kind, at |-> "wait", left |-> n + 1]
                    /\ threads'[t] = [kind |-> kind, at |-> "wait", left |-> n]
<1>1. ASSUME NEW t \in Threads
      PROVE  \/ threads[t] = Idle /\ threads'[t] = Idle
             \/ \E kind \in {"warning", "check"}, n \in Nat :
                    /\ threads[t] = [kind |-> kind, at |-> "wait", left |-> n + 1]
                    /\ threads'[t] = [kind |-> kind, at |-> "wait", left |-> n]
  <2>1. threads'[t] = [threads[t] EXCEPT !.left = Less(@)] /\ ~Running(t) /\ threads[t] \in ThreadState
    BY DEF Tick
  <2>2. CASE threads[t] = Idle
    BY <2>1, <2>2 DEF Idle, Less
  <2>3. CASE threads[t] # Idle
    <3>1. /\ threads[t].at = "wait" /\ threads[t].left \in Nat \ {0}
          /\ threads[t].kind \in {"warning", "check"}
      BY <2>1, <2>3 DEF Running, Alive, ThreadState, Idle
    <3>2. /\ threads[t] = [kind |-> threads[t].kind, at |-> "wait", left |-> (threads[t].left - 1) + 1]
          /\ threads'[t] = [kind |-> threads[t].kind, at |-> "wait", left |-> threads[t].left - 1]
          /\ threads[t].left - 1 \in Nat
      BY <2>1, <2>3, <3>1 DEF ThreadState, Idle, Less
    <3> QED
      BY <3>1, <3>2
  <2> QED
    BY <2>2, <2>3
<1>2. ASSUME NEW t \in Threads, threads[t] = Idle  PROVE threads'[t] = Idle
  <2>1. ASSUME NEW kind, NEW n, threads[t] = [kind |-> kind, at |-> "wait", left |-> n + 1]
        PROVE  FALSE
    BY <1>2, <2>1 DEF Idle
  <2> QED
    BY <1>1, <2>1
<1>4. ASSUME NEW t \in Threads  PROVE threads'[t] \in ThreadState
  <2>1. CASE threads[t] = Idle
    BY <1>2, <2>1 DEF ThreadState
  <2>2. CASE threads[t] # Idle
    <3>1. PICK kind \in {"warning", "check"}, n \in Nat :
              threads'[t] = [kind |-> kind, at |-> "wait", left |-> n]
      BY <1>1, <2>2
    <3> QED
      BY <3>1 DEF ThreadState
  <2> QED
    BY <2>1, <2>2
<1>3. threads' = [t \in Threads |-> threads'[t]]
  BY DEF Tick
<1> QED
  BY <1>1, <1>2, <1>3, <1>4

-----------------------------------------------------------------------------
(* Types *)

Fields ==
    /\ profile \in Profiles /\ idle \in Nat /\ display \in {"on", "off"}
    /\ main \in {"down", "poll", "forget", "cancel", "drop"} /\ wait \in 0 .. PollSeconds
    /\ notificationId \in Ids \cup {None}
    /\ timer \in Threads \cup {None} /\ checkTimer \in Threads \cup {None, New}
    /\ remaining \in Int
    /\ threads \in [Threads -> ThreadState]
    /\ warnings \in [Ids -> Nat]

(* The timers: a stopped service has none; the warning that lives is the one
   the service knows of, but for the poll after a cancel that came too late
   for it; and while it lives, the time it promises does not change. *)
Cancelling == main \in {"forget", "cancel", "drop"}

Timers ==
    /\ main = "down" => ~seen /\ timer = None /\ checkTimer = None /\ \A t \in Threads : threads[t] = Idle
    /\ main = "poll" /\ ~seen => timer = None
    /\ Cancelling => ~seen /\ ~Dimmed
    /\ timer \in Threads => threads[timer].kind # "check"
    /\ main = "drop" => \A t \in Threads : threads[t].kind = "warning" => threads[t].at # "wait"
    /\ \A t \in Threads : threads[t].kind = "warning" =>
          /\ remaining > 0
          /\ \/ t = timer
             \/ main = "poll" /\ wait = PollSeconds /\ timer = None /\ threads[t].at # "wait"

\* A step of the history is a step of the service and of what is around it.
LEMMA HistoryStep == [HNNext]_<<nvars, history>> => [NNext]_nvars
BY DEF HNNext

\* Everything the threads and the main thread do keeps the types.
LEMMA FieldsStep ==
  ASSUME Fields, Timers, [NNext]_nvars  PROVE Fields'
<1> USE DEF Fields, plasma, desktop, notifier, poll
<1>1. CASE UNCHANGED nvars
  BY <1>1 DEF nvars
<1>2. ASSUME NEW t \in Threads, Warn(t)  PROVE Fields'
  <2>1. CASE Recheck(t)
    BY <2>1, WarnMoves DEF Recheck, Becomes, ThreadState, Warning, Idle
  <2>2. CASE SendWarning(t)
    <3>1. PICK i \in Ids : /\ Becomes(t, Warning("store", i))
                           /\ warnings' = [warnings EXCEPT ![i] = remaining]
      BY <2>2, WarnMoves
    <3>2. Warning("store", i) \in ThreadState
      BY DEF ThreadState, Warning
    <3>3. remaining \in Nat
      BY <2>2, WarnMoves DEF Timers
    <3> QED
      BY <2>2, <3>1, <3>2, <3>3 DEF SendWarning, Becomes
  <2>3. CASE StoreId(t)
    <3>1. PICK i \in Ids : notificationId' = i /\ Becomes(t, Warning("create", 0))
      BY <2>3, WarnMoves
    <3>2. Warning("create", 0) \in ThreadState
      BY DEF ThreadState, Warning
    <3> QED
      BY <2>3, <3>1, <3>2 DEF StoreId, Becomes
  <2>4. CASE CreateCheck(t)
    BY <2>4, WarnMoves DEF CreateCheck, Becomes, ThreadState, Warning
  <2>5. CASE StartCheck(t)
    <3>1. threads' \in [Threads -> ThreadState]
      BY <2>5, WarnMoves DEF Becomes, ThreadState, Checking, Idle, CheckAfter, Timers
    <3> QED
      BY <2>5, <3>1, WarnMoves DEF StartCheck
  <2> QED
    BY <1>2, <2>1, <2>2, <2>3, <2>4, <2>5 DEF Warn
<1>3. ASSUME NEW t \in Threads, Check(t)  PROVE Fields'
  <2>1. threads' \in [Threads -> ThreadState]
    BY <1>3, CheckMoves DEF Check, Becomes, ThreadState, Checking, Idle
  <2> QED
    BY <1>3, <2>1 DEF Check, CheckDimmed, CheckDpms, CloseWarning, ForgetWarning, SendNotice, Closed
<1>4. CASE Main
  <2>1. CASE SeesDim
    <3>1. Promised \in Int /\ Delay \in Nat
      BY TimingsAgree
    <3> QED
      BY <2>1, <3>1, DimMoves DEF SeesDim, Sleep, Becomes, ThreadState, Warning
  <2>2. CASE SeesNothingNew \/ SeesDimEnd \/ ForgetId \/ DropTimers
    BY <2>2 DEF SeesNothingNew, SeesDimEnd, ForgetId, DropTimers, Sleep, Closed
  <2>3. CASE CancelTimers
    BY <2>3 DEF CancelTimers, Cancelled, ThreadState
  <2> QED
    BY <1>4, <2>1, <2>2, <2>3 DEF Main
<1>5. CASE Environment
  <2>1. CASE Activity \/ TurnOff \/ Hold \/ Configure \/ Dismiss
    BY <2>1 DEF Activity, TurnOff, Hold, Configure, Dismiss
  <2>2. CASE Stop
    BY <2>2 DEF Stop, ThreadState, Closed
  <2>3. CASE StartService
    BY <2>3, TimingsAgree DEF StartService, Promised
  <2>4. CASE Tick
    BY <2>4, TickMoves DEF Tick, Less
  <2> QED
    BY <1>5, <2>1, <2>2, <2>3, <2>4 DEF Environment
<1> QED
  BY <1>1, <1>2, <1>3, <1>4, <1>5 DEF NNext

\* Every step keeps the timers so.
LEMMA TimersStep ==
  ASSUME Fields, Fields', Timers, seen \in BOOLEAN, [NNext]_nvars  PROVE Timers'
<1> USE DEF Fields, Timers, Cancelling, plasma, desktop, notifier, poll
<1>1. CASE UNCHANGED nvars
  BY <1>1 DEF nvars, Dimmed
<1>2. ASSUME NEW t \in Threads, Warn(t)  PROVE Timers'
  <2>1. threads[t].kind = "warning" /\ main # "down"
    <3>1. threads[t].kind = "warning"
      BY <1>2 DEF Warn, Recheck, SendWarning, StoreId, CreateCheck, StartCheck, At
    <3> QED
      BY <3>1 DEF Idle
  <2>2. UNCHANGED <<profile, idle, main, seen, wait, timer, remaining>>
    BY <1>2 DEF Warn, Recheck, SendWarning, StoreId, CreateCheck, StartCheck
  <2>3. CASE ~StartCheck(t)
    <3> DEFINE Runs(r) == r = Idle \/ (r.kind = "warning" /\ r.at # "wait")
    <3>a. ASSUME NEW label, label # "wait", NEW n  PROVE Runs(Warning(label, n))
      BY <3>a DEF Warning
    <3> HIDE DEF Runs
    <3>b. Runs(Idle)
      BY DEF Runs
    <3>1. \E r : Becomes(t, r) /\ Runs(r)
      <4>1. CASE Recheck(t)
        BY <4>1, <3>a, <3>b, WarnMoves
      <4>2. CASE SendWarning(t) \/ StoreId(t) \/ CreateCheck(t)
        BY <4>2, <3>a, WarnMoves
      <4> QED
        BY <1>2, <2>3, <4>1, <4>2 DEF Warn
    <3> USE DEF Runs
    <3>2. \/ threads'[t] = Idle
          \/ threads'[t].kind = "warning" /\ threads'[t].at # "wait"
      BY <3>1 DEF Becomes
    <3>3. \A u \in Threads \ {t} : threads'[u] = threads[u]
      BY <3>1 DEF Becomes
    <3> QED
      BY <2>1, <2>2, <3>2, <3>3 DEF Dimmed, Idle
  <2>4. CASE StartCheck(t)
    BY <2>1, <2>2, <2>4, WarnMoves DEF Becomes, Checking, Idle, Dimmed
  <2> QED
    BY <2>3, <2>4
<1>3. ASSUME NEW t \in Threads, Check(t)  PROVE Timers'
  <2>1. threads[t].kind = "check"
        /\ threads'[t].kind \in {"check", "none"}
        /\ (\A u \in Threads \ {t} : threads'[u] = threads[u])
    BY <1>3, CheckMoves DEF Check, Becomes, Checking, Idle
  <2>2. UNCHANGED <<profile, idle, main, seen, wait, timer, checkTimer, remaining>>
    BY <1>3 DEF Check, CheckDimmed, CheckDpms, CloseWarning, ForgetWarning, SendNotice
  <2>3. main # "down"
    BY <2>1 DEF Idle
  <2> QED
    BY <2>1, <2>2, <2>3 DEF Dimmed
<1>4. CASE Main
  <2>1. CASE SeesDim
    <3>1. Promised \in Int /\ Delay \in Nat
      BY TimingsAgree
    <3>2. main = "poll" /\ wait = 0 /\ ~seen /\ seen' /\ main' = "poll" /\ timer = None
          /\ \A t \in Threads : threads[t].kind # "warning"
      BY <2>1 DEF SeesDim, Sleep
    <3> QED
      BY <3>1, <3>2, <2>1, DimMoves DEF Becomes, Warning, Alive, Wanted, Idle
  <2>2. CASE SeesNothingNew
    BY <2>2 DEF SeesNothingNew, Sleep, Dimmed
  <2>3. CASE SeesDimEnd
    BY <2>3 DEF SeesDimEnd, Dimmed
  <2>4. CASE ForgetId
    BY <2>4 DEF ForgetId, Dimmed
  <2>6. CASE DropTimers
    <3>1. \A t \in Threads : threads[t].kind = "warning" => threads[t].at # "wait"
      BY <2>6 DEF DropTimers
    <3> QED
      BY <2>6, <3>1 DEF DropTimers, Sleep
  <2>5. CASE CancelTimers
    BY <2>5 DEF CancelTimers, Cancelled, Idle, Dimmed
  <2> QED
    BY <1>4, <2>1, <2>2, <2>3, <2>4, <2>5, <2>6 DEF Main
<1>5. CASE Environment
  <2>1. CASE Activity \/ Configure
    <3>1. profile'.dim \in Nat /\ profile'.dim > PollSeconds
      BY ProfileAssumption
    <3>2. ~Dimmed'
      BY <2>1, <3>1 DEF Activity, Configure, Dimmed
    <3> QED
      BY <2>1, <3>2 DEF Activity, Configure
  <2>2. CASE TurnOff \/ Hold \/ Dismiss
    BY <2>2 DEF TurnOff, Hold, Dismiss, Dimmed
  <2>3. CASE Stop
    BY <2>3 DEF Stop, Idle
  <2>4. CASE StartService
    BY <2>4 DEF StartService, Idle
  <2>5. CASE Tick
    <3>1. \A t \in Threads : /\ threads'[t].kind = threads[t].kind
                             /\ threads'[t].at = threads[t].at
                             /\ threads[t].kind = "warning" => threads[t].at = "wait"
      BY <2>5, TickMoves DEF Idle
    <3>2. main = "down" => \A t \in Threads : threads'[t] = Idle
      <4>1. main = "down" => \A t \in Threads : threads[t].at = "free"
        BY DEF Idle
      <4> QED
        BY <2>5, <4>1, TickMoves
    <3>3. main \in {"down", "poll"} /\ UNCHANGED <<main, seen, timer, checkTimer, remaining>>
      BY <2>5 DEF Tick
    <3> QED
      BY <3>1, <3>2, <3>3
  <2> QED
    BY <1>5, <2>1, <2>2, <2>3, <2>4, <2>5 DEF Environment
<1> QED
  BY <1>1, <1>2, <1>3, <1>4, <1>5 DEF NNext

Flags == held \in BOOLEAN /\ notice \in BOOLEAN /\ seen \in BOOLEAN
Records == whole \in BOOLEAN /\ noticed \in BOOLEAN /\ overtaken \in BOOLEAN /\ back \in BOOLEAN
Bounded == idle <= MaxIdle

\* The flags of Plasma, of the desktop and of the poll stay flags.
LEMMA FlagsStep == Flags /\ [NNext]_nvars => Flags'
<1> SUFFICES ASSUME Flags, [NNext]_nvars  PROVE Flags'
  OBVIOUS
<1> USE DEF Flags, plasma, desktop, notifier, poll
<1>1. CASE UNCHANGED nvars
  BY <1>1, Zenon DEF nvars
<1>2. ASSUME NEW t \in Threads, Warn(t)  PROVE Flags'
  BY <1>2, Zenon DEF Warn, Recheck, SendWarning, StoreId, CreateCheck, StartCheck
<1>3. ASSUME NEW t \in Threads, Check(t)  PROVE Flags'
  <2>1. CASE SendNotice(t)
    BY <2>1, Zenon DEF SendNotice
  <2>2. CASE CheckDimmed(t) \/ CheckDpms(t) \/ CloseWarning(t) \/ ForgetWarning(t)
    BY <2>2, Zenon DEF CheckDimmed, CheckDpms, CloseWarning, ForgetWarning
  <2> QED
    BY <1>3, <2>1, <2>2, Zenon DEF Check
<1>4. CASE Main
  <2>1. CASE SeesDim
    BY <2>1, Zenon DEF SeesDim
  <2>2. CASE SeesDimEnd
    BY <2>2, Zenon DEF SeesDimEnd
  <2>3. CASE SeesNothingNew \/ ForgetId \/ CancelTimers \/ DropTimers
    BY <2>3, Zenon DEF SeesNothingNew, ForgetId, CancelTimers, DropTimers
  <2> QED
    BY <1>4, <2>1, <2>2, <2>3, Zenon DEF Main
<1>5. CASE Environment
  <2>1. CASE Activity \/ TurnOff \/ Configure \/ StartService \/ Tick
    BY <2>1, Zenon DEF Activity, TurnOff, Configure, StartService, Tick
  <2>2. CASE Hold
    BY <2>2, Zenon DEF Hold
  <2>3. CASE Dismiss \/ Stop
    BY <2>3, Zenon DEF Dismiss, Stop
  <2> QED
    BY <1>5, <2>1, <2>2, <2>3, Zenon DEF Environment
<1> QED
  BY <1>1, <1>2, <1>3, <1>4, <1>5, Zenon DEF NNext

\* So do the records of the history.
LEMMA RecordsStep == Records /\ [HNNext]_<<nvars, history>> => Records'
<1> SUFFICES ASSUME Records, HNNext  PROVE Records'
  BY Zenon DEF Records, history
<1>1. whole' \in BOOLEAN /\ noticed' \in BOOLEAN
  BY Zenon DEF HNNext, Record
<1>2. overtaken' \in BOOLEAN /\ back' \in BOOLEAN
  BY Zenon DEF HNNext, Record
<1> QED
  BY <1>1, <1>2, Zenon DEF Records

\* The idle time never passes the bound of the model.
LEMMA BoundedStep == Fields /\ Fields' /\ Bounded /\ [NNext]_nvars => Bounded'
<1> SUFFICES ASSUME Fields, Fields', Bounded, [NNext]_nvars  PROVE Bounded'
  OBVIOUS
<1>1. MaxIdle \in Nat /\ MaxIdle' \in Nat
  <2>1. OffTime \in Nat /\ profile.dim \in Nat
    BY TimingsAgree, ProfileTyped DEF Fields
  <2>2. OffTime' \in Nat /\ profile'.dim \in Nat
    <3>1. profile' \in Profiles /\ idle' \in Nat
      BY DEF Fields
    <3>2. /\ profile'.dim \in Nat /\ profile'.off \in Nat /\ profile'.lock \in Int
          /\ profile'.whenLocked \in Int
      BY <3>1, ProfileAssumption
    <3> QED
      BY <3>2 DEF OffTime, ScreenOffTimeout, Lock, LockTimeout, NoLock
  <2> QED
    BY <2>1, <2>2 DEF MaxIdle
<1>2. CASE UNCHANGED <<profile, idle>>
  BY <1>2 DEF Bounded, MaxIdle, OffTime, Lock
<1>3. CASE idle' = 0
  BY <1>1, <1>3 DEF Bounded
<1>4. CASE Tick
  <2>1. MaxIdle' = MaxIdle
    BY <1>4 DEF Tick, MaxIdle, OffTime, Lock
  <2> QED
    BY <1>1, <1>4, <2>1 DEF Tick, Bounded, Fields
<1>5. idle' = 0 \/ Tick \/ UNCHANGED <<profile, idle>>
  <2> USE DEF plasma
  <2>1. CASE UNCHANGED nvars
    BY <2>1 DEF nvars
  <2>2. ASSUME NEW t \in Threads, Warn(t) \/ Check(t)  PROVE UNCHANGED <<profile, idle>>
    BY <2>2 DEF Warn, Recheck, SendWarning, StoreId, CreateCheck, StartCheck,
                Check, CheckDimmed, CheckDpms, CloseWarning, ForgetWarning, SendNotice
  <2>3. CASE Main
    BY <2>3 DEF Main, SeesDim, SeesNothingNew, SeesDimEnd, ForgetId, CancelTimers, DropTimers
  <2>4. CASE Environment
    BY <2>4 DEF Environment, Activity, TurnOff, Hold, Configure, Dismiss, Stop, StartService
  <2> QED
    BY <2>1, <2>2, <2>3, <2>4 DEF NNext
<1> QED
  BY <1>2, <1>3, <1>4, <1>5

Typed == Fields /\ Timers /\ Flags /\ Records /\ Bounded

\* Types, timers and bounds hold together.
LEMMA TypedCorrect == HNSpec => []Typed
<1>1. HNInit => Typed
  <2> SUFFICES ASSUME HNInit  PROVE Typed
    OBVIOUS
  <2>1. Flags /\ Records
    BY Zenon DEF HNInit, NInit, Flags, Records
  <2>2. Fields
    <3>1. profile \in Profiles /\ idle = 0 /\ remaining = Promised
      BY DEF HNInit, NInit, Promised
    <3>2. Promised \in Int
      BY <3>1, TimingsAgree
    <3> QED
      BY <3>1, <3>2 DEF HNInit, NInit, Fields, ThreadState
  <2>3. Timers
    BY DEF HNInit, NInit, Timers, Idle, Cancelling
  <2>4. Bounded
    <3>1. idle = 0 /\ profile \in Profiles
      BY DEF HNInit, NInit
    <3>2. OffTime \in Nat /\ profile.dim \in Nat
      BY <3>1, TimingsAgree, ProfileTyped
    <3> QED
      BY <3>1, <3>2 DEF Bounded, MaxIdle
  <2> QED
    BY <2>1, <2>2, <2>3, <2>4 DEF Typed
<1>2. Typed /\ [HNNext]_<<nvars, history>> => Typed'
  <2> SUFFICES ASSUME Typed, [HNNext]_<<nvars, history>>  PROVE Typed'
    OBVIOUS
  <2>1. Fields' /\ Flags' /\ Records'
    BY HistoryStep, FieldsStep, FlagsStep, RecordsStep DEF Typed
  <2>2. Timers' /\ Bounded'
    BY <2>1, HistoryStep, TimersStep, BoundedStep DEF Typed, Flags
  <2> QED
    BY <2>1, <2>2 DEF Typed
<1> QED
  BY <1>1, <1>2, PTL DEF HNSpec

\* Every field of the Notifier and every thread keeps its type: what a warning
\* shows is never negative, a thread is in the middle of one function only.
THEOREM NTypeCorrect == HNSpec => []NTypeOK
<1>1. Typed => NTypeOK
  <2> SUFFICES ASSUME Typed  PROVE NTypeOK
    OBVIOUS
  <2>1. idle \in 0 .. MaxIdle
    <3>1. OffTime \in Nat /\ profile.dim \in Nat
      BY TimingsAgree, ProfileTyped DEF Typed, Fields
    <3> QED
      BY <3>1 DEF Typed, Fields, Bounded, MaxIdle
  <2>2. {held, notice, seen, whole, noticed, overtaken, back} \subseteq BOOLEAN
    BY Zenon DEF Typed, Flags, Records
  <2>3. \A t \in Threads : Alive(t) => threads[t].kind \in {"warning", "check"}
    BY DEF Typed, Fields, Alive, ThreadState, Idle
  <2> QED
    BY <2>1, <2>2, <2>3 DEF NTypeOK, Typed, Fields
<1> QED
  BY <1>1, TypedCorrect, PTL

-----------------------------------------------------------------------------
(* What makes NoStaleWarning inductive.  As long as no cancel has missed a
   running thread, at most one thread lives, the Notifier knows of it and of
   the only warning that can be on the screen, and a cancel clears both. *)
Free(t) == threads[t].at = "free"
Blank == \A i \in Ids : warnings[i] = 0

Tidy ==
    /\ \A t, u \in Threads : ~Free(t) /\ ~Free(u) => t = u
    /\ main \in {"down", "drop"} \/ (main = "poll" /\ ~seen) => Blank /\ \A t \in Threads : Free(t)
    /\ Cancelling => Blank /\ \A t \in Threads : threads[t].at \in {"free", "wait"}
    /\ \A t \in Threads : threads[t].kind = "check" => t = checkTimer
    /\ \A t \in Threads : threads[t].at \in {"wait", "send", "forget", "notice"} =>
          Blank \/ (threads[t].kind = "check" /\ threads[t].at = "wait")
    /\ \A i \in Ids : warnings[i] # 0 =>
          \/ i = notificationId /\ \A t \in Threads : threads[t].at # "store"
          \/ \E t \in Threads : threads[t].at = "store" /\ threads[t].left = i

\* Thread states, field by field.
LEMMA StateFields ==
  ASSUME Fields, NEW t \in Threads
  PROVE  /\ Free(t) <=> threads[t] = Idle
         /\ threads[t].kind = "none" <=> Free(t)
         /\ threads[t].kind = "warning" <=> threads[t].at \in {"send", "store", "create", "start"}
                                            \/ (threads[t].kind # "check" /\ threads[t].at = "wait")
         /\ threads[t].kind = "check" <=> threads[t].at \in {"dpms", "close", "forget", "notice"}
                                            \/ (threads[t].kind # "warning" /\ threads[t].at = "wait")
         /\ Alive(t) <=> ~Free(t)
         /\ PastWait(t) <=> threads[t].at \notin {"free", "wait"}
BY DEF Fields, ThreadState, Idle, Free, Alive, PastWait

\* With no thread and no warning, all threads are free.
LEMMA QuietIsIdle == Fields /\ Quiet => \A t \in Threads : threads[t] = Idle
BY StateFields DEF Quiet

\* And all is tidy.
LEMMA QuietIsTidy == Fields /\ Quiet => Tidy
<1> SUFFICES ASSUME Fields, Quiet  PROVE Tidy
  OBVIOUS
<1>1. Blank /\ \A t \in Threads : Free(t) /\ threads[t].kind = "none" /\ threads[t].at = "free"
  BY StateFields DEF Quiet, Blank, Free
<1> QED
  BY <1>1 DEF Tidy, Blank

\* A step after which no cancel has missed a thread: either all is quiet, or
\* none had before it, and the step cancelled none that was past its wait.
LEMMA NotOvertaken ==
  ASSUME Fields, Records, Records', Record, ~overtaken', ~Quiet'
  PROVE  /\ ~overtaken
         /\ \/ main = "poll" /\ main' = "forget"
            \/ main # "down" /\ main' = "down"
            \/ Cancelling
            => \A t \in Threads : threads[t].at \in {"free", "wait"}
<1> DEFINE Cancels == \/ main = "poll" /\ main' = "forget"
                      \/ main # "down" /\ main' = "down"
                      \/ Cancelling
<1>1. overtaken' <=> (~Quiet' /\ (overtaken \/ (Cancels /\ \E t \in Threads : PastWait(t))))
  BY Zenon DEF Record, Cancelling
<1>2. ~overtaken /\ (Cancels => \A t \in Threads : ~PastWait(t))
  BY <1>1, Zenon
<1>3. \A t \in Threads : ~PastWait(t) => threads[t].at \in {"free", "wait"}
  BY StateFields
<1> QED
  BY <1>2, <1>3, Zenon

\* It is tidy with one thread at work in a dim that the poll has seen.
LEMMA OneAtWork ==
  ASSUME NEW t \in Threads, main' = "poll", seen',
         \A u \in Threads \ {t} : threads'[u] = Idle,
         threads'[t].kind = "check" => t = checkTimer',
         threads'[t].at \in {"wait", "send", "forget", "notice"} =>
            Blank' \/ (threads'[t].kind = "check" /\ threads'[t].at = "wait"),
         \A i \in Ids : warnings'[i] # 0 =>
            IF threads'[t].at = "store" THEN threads'[t].left = i ELSE i = notificationId'
  PROVE  Tidy'
<1>1. \A u \in Threads \ {t} : threads'[u].at = "free" /\ threads'[u].kind = "none"
  BY DEF Idle
<1> QED
  BY <1>1 DEF Tidy, Free, Cancelling

\* And with a thread that leaves off, whatever the poll does.
LEMMA OneLeavesOff ==
  ASSUME Fields, Tidy, NEW t \in Threads, ~Free(t), main' = main, seen' <=> seen,
         warnings' = warnings, notificationId' = notificationId,
         threads[t].at # "store", Becomes(t, Idle)
  PROVE  Tidy'
<1>1. \A u \in Threads : threads[u].at = "free" \/ u = t
  BY DEF Tidy, Free
<1>2. \A u \in Threads : threads'[u].at = "free" /\ threads'[u].kind = "none"
  BY <1>1, StateFields DEF Becomes, Idle, Free
<1>3. \A i \in Ids : warnings[i] # 0 => i = notificationId
  BY <1>1 DEF Tidy, Free
<1> QED
  BY <1>2, <1>3 DEF Tidy, Free, Cancelling, Blank

\* A step that does not cancel a running thread keeps things tidy.
LEMMA TidyStep ==
  ASSUME Fields, Fields', Timers, Timers', seen \in BOOLEAN, Tidy, NNext,
         \/ main = "poll" /\ main' = "forget"
         \/ main # "down" /\ main' = "down"
         \/ Cancelling
         => \A t \in Threads : threads[t].at \in {"free", "wait"}
  PROVE  Tidy'
<1> USE DEF Tidy, Free, Blank, Cancelling, plasma, desktop, notifier, poll
<1>0. threads \in [Threads -> ThreadState]
  BY DEF Fields
<1>1. ASSUME NEW t \in Threads, Warn(t)  PROVE Tidy'
  <2>1. /\ \A u \in Threads \ {t} : threads[u] = Idle
        /\ threads[t].kind = "warning" /\ main' = main /\ (seen' <=> seen) /\ ~Free(t)
        /\ main # "down" /\ main # "drop" /\ (main = "poll" => seen)
    <3>1. threads[t].kind = "warning" /\ main' = main /\ (seen' <=> seen)
      BY <1>1 DEF Warn, Recheck, SendWarning, StoreId, CreateCheck, StartCheck, At
    <3> QED
      BY <3>1, StateFields
  <2>2. CASE Recheck(t)
    <3>1. UNCHANGED <<warnings, notificationId>> /\ threads[t].at = "wait"
      BY <2>2 DEF Recheck, At
    <3>2. CASE ~Dimmed
      BY <1>0, <2>1, <2>2, <3>1, <3>2, WarnMoves, OneLeavesOff
    <3>3. CASE Dimmed
      <4>1. main = "poll" /\ Blank /\ Becomes(t, Warning("send", 0))
        BY <1>0, <2>1, <2>2, <3>1, <3>3, WarnMoves DEF Timers, Fields
      <4> QED
        BY <2>1, <3>1, <4>1, OneAtWork DEF Becomes, Warning
    <3> QED
      BY <3>2, <3>3
  <2>3. main = "poll" \/ Recheck(t)
    <3>1. Recheck(t) \/ threads[t].at \in {"send", "store", "create", "start"}
      BY <1>1 DEF Warn, SendWarning, StoreId, CreateCheck, StartCheck, At
    <3> QED
      BY <2>1, <3>1 DEF Fields
  <2>4. CASE SendWarning(t)
    <3>1. PICK i \in Ids : Becomes(t, Warning("store", i)) /\ warnings' = [warnings EXCEPT ![i] = remaining]
      BY <1>0, <2>4, WarnMoves
    <3>2. Blank /\ main = "poll" /\ warnings \in [Ids -> Nat]
      BY <2>1, <2>3, <2>4 DEF SendWarning, Recheck, At, Fields
    <3> QED
      BY <2>1, <3>1, <3>2, OneAtWork DEF Becomes, Warning
  <2>5. CASE StoreId(t)
    <3>1. PICK i \in Ids : /\ threads[t] = Warning("store", i) /\ notificationId' = i
                           /\ Becomes(t, Warning("create", 0))
      BY <1>0, <2>5, WarnMoves
    <3>2. main = "poll" /\ warnings' = warnings
      BY <2>3, <2>5 DEF StoreId, Recheck, At
    <3>3. \A j \in Ids : warnings[j] # 0 => j = i
      BY <2>1, <3>1 DEF Warning, Idle
    <3> QED
      BY <2>1, <3>1, <3>2, <3>3, OneAtWork DEF Becomes, Warning
  <2>6. CASE CreateCheck(t)
    <3>1. main = "poll" /\ UNCHANGED <<warnings, notificationId>> /\ threads[t].at = "create"
      BY <2>3, <2>6 DEF CreateCheck, Recheck, At
    <3>2. PICK n \in Nat : Becomes(t, Warning("start", n))
      BY <1>0, <2>6, WarnMoves
    <3>3. \A j \in Ids : warnings[j] # 0 => j = notificationId
      BY <2>1, <3>1 DEF Idle
    <3> QED
      BY <2>1, <3>1, <3>2, <3>3, OneAtWork DEF Becomes, Warning
  <2>7. CASE StartCheck(t)
    <3>1. main = "poll" /\ UNCHANGED <<warnings, notificationId>> /\ threads[t].at = "start"
      BY <2>3, <2>7 DEF StartCheck, Recheck, At
    <3>2. CASE checkTimer # New
      BY <1>0, <2>1, <2>7, <3>1, <3>2, WarnMoves, OneLeavesOff
    <3>3. CASE checkTimer = New
      <4>1. PICK c \in Threads :
               /\ checkTimer' = c /\ c # t
               /\ threads' = [u \in Threads |-> IF u = t THEN Idle
                                ELSE IF u = c THEN Checking("wait", CheckAfter) ELSE threads[u]]
        BY <1>0, <2>7, <3>3, WarnMoves
      <4>2. \A j \in Ids : warnings[j] # 0 => j = notificationId
        BY <2>1, <3>1 DEF Idle
      <4> QED
        BY <2>1, <3>1, <4>1, <4>2, OneAtWork DEF Checking
    <3> QED
      BY <3>2, <3>3
  <2> QED
    BY <1>1, <2>2, <2>4, <2>5, <2>6, <2>7 DEF Warn
<1>2. ASSUME NEW t \in Threads, Check(t)  PROVE Tidy'
  <2>1. /\ \A u \in Threads \ {t} : threads[u] = Idle
        /\ threads[t].kind = "check" /\ t = checkTimer
        /\ main' = main /\ (seen' <=> seen) /\ checkTimer' = checkTimer /\ ~Free(t)
        /\ main # "down" /\ main # "drop" /\ (main = "poll" => seen)
    <3>1. threads[t].kind = "check" /\ main' = main /\ (seen' <=> seen) /\ checkTimer' = checkTimer
      BY <1>2 DEF Check, CheckDimmed, CheckDpms, CloseWarning, ForgetWarning, SendNotice, At
    <3> QED
      BY <3>1, StateFields
  <2>2. main = "poll" \/ CheckDimmed(t)
    <3>1. CheckDimmed(t) \/ threads[t].at \in {"dpms", "close", "forget", "notice"}
      BY <1>2 DEF Check, CheckDpms, CloseWarning, ForgetWarning, SendNotice, At
    <3> QED
      BY <2>1, <3>1 DEF Fields
  <2>3. threads[t].at # "store" => \A j \in Ids : warnings[j] # 0 => j = notificationId
    BY <2>1 DEF Idle
  <2>4. CASE CheckDimmed(t)
    <3>1. UNCHANGED <<warnings, notificationId>> /\ threads[t].at = "wait"
      BY <2>4 DEF CheckDimmed, At
    <3>2. CASE ~Dimmed
      BY <1>0, <2>1, <2>4, <3>1, <3>2, CheckMoves, OneLeavesOff
    <3>3. CASE Dimmed
      <4>1. main = "poll" /\ Becomes(t, Checking("dpms", 0))
        BY <1>0, <2>1, <2>4, <3>3, CheckMoves DEF Timers, Fields
      <4> QED
        BY <2>1, <2>3, <3>1, <4>1, OneAtWork DEF Becomes, Checking
    <3> QED
      BY <3>2, <3>3
  <2>5. CASE CheckDpms(t)
    <3>1. UNCHANGED <<warnings, notificationId>> /\ threads[t].at = "dpms" /\ main = "poll"
      BY <2>2, <2>5 DEF CheckDimmed, CheckDpms, At
    <3>2. CASE display # "on"
      BY <1>0, <2>1, <2>5, <3>1, <3>2, CheckMoves, OneLeavesOff
    <3>3. CASE display = "on"
      <4>1. PICK n \in Nat : Becomes(t, Checking("close", n))
        BY <1>0, <2>5, <3>3, CheckMoves
      <4> QED
        BY <2>1, <2>3, <3>1, <4>1, OneAtWork DEF Becomes, Checking
    <3> QED
      BY <3>2, <3>3
  <2>6. CASE CloseWarning(t)
    <3>1. warnings' = Closed(notificationId) /\ threads[t].at = "close" /\ main = "poll"
      BY <2>2, <2>6 DEF CheckDimmed, CloseWarning, At
    <3>2. PICK n \in Nat : Becomes(t, Checking("forget", n))
      BY <1>0, <2>6, CheckMoves
    <3>3. Blank'
      BY <2>3, <3>1 DEF Closed
    <3> QED
      BY <2>1, <3>1, <3>2, <3>3, OneAtWork DEF Becomes, Checking
  <2>7. CASE ForgetWarning(t)
    <3>1. warnings' = warnings /\ threads[t].at = "forget" /\ main = "poll"
      BY <2>2, <2>7 DEF CheckDimmed, ForgetWarning, At
    <3>2. PICK n \in Nat : Becomes(t, Checking("notice", n))
      BY <1>0, <2>7, CheckMoves
    <3>3. Blank'
      BY <2>1, <3>1
    <3> QED
      BY <2>1, <3>1, <3>2, <3>3, OneAtWork DEF Becomes, Checking
  <2>8. CASE SendNotice(t)
    <3>1. UNCHANGED <<warnings, notificationId>> /\ threads[t].at = "notice"
      BY <2>8 DEF SendNotice, At
    <3> QED
      BY <1>0, <2>1, <2>8, <3>1, CheckMoves, OneLeavesOff
  <2> QED
    BY <1>2, <2>4, <2>5, <2>6, <2>7, <2>8 DEF Check
<1>3. CASE Main
  <2>1. CASE SeesDim
    <3>1. /\ main = "poll" /\ main' = "poll" /\ seen' /\ warnings' = warnings
          /\ Blank /\ \A t \in Threads : Free(t)
      BY <2>1 DEF SeesDim, Sleep
    <3>2. \/ threads' = threads
          \/ \E t \in Threads : Becomes(t, Warning("wait", Delay))
      BY <2>1, DimMoves DEF Fields
    <3>3. \A t \in Threads : threads[t] = Idle /\ threads[t].kind = "none"
      BY <3>1, StateFields
    <3> QED
      BY <3>1, <3>2, <3>3 DEF Becomes, Warning, Idle
  <2>2. CASE SeesNothingNew
    BY <2>2 DEF SeesNothingNew, Sleep
  <2>3. CASE SeesDimEnd
    BY <2>3 DEF SeesDimEnd, Closed, Fields
  <2>4. CASE ForgetId
    BY <2>4 DEF ForgetId
  <2>5. CASE CancelTimers
    <3>1. \A t \in Threads : threads'[t].at = "free" /\ threads'[t].kind = "none"
      <4>1. SUFFICES ASSUME NEW t \in Threads  PROVE threads'[t] = Idle
        BY DEF Idle
      <4>2. threads[t].at \in {"free", "wait"} /\ main = "cancel"
        BY <2>5 DEF CancelTimers
      <4>3. CASE threads[t].at = "free"
        BY <2>5, <4>3, StateFields DEF CancelTimers, Cancelled
      <4>4. CASE threads[t].at = "wait"
        <5>1. t \in {timer, checkTimer}
          BY <4>2, <4>4, StateFields DEF Timers
        <5> QED
          BY <2>5, <4>4, <5>1 DEF CancelTimers, Cancelled
      <4> QED
        BY <4>2, <4>3, <4>4
    <3> QED
      BY <2>5, <3>1 DEF CancelTimers
  <2>6. CASE DropTimers
    <3>1. \A t \in Threads : threads[t].kind = "none"
      BY <2>6, StateFields DEF DropTimers
    <3> QED
      BY <2>6, <3>1 DEF DropTimers, Sleep
  <2> QED
    BY <1>3, <2>1, <2>2, <2>3, <2>4, <2>5, <2>6 DEF Main
<1>4. CASE Environment
  <2>1. CASE Activity \/ TurnOff \/ Hold \/ Configure \/ Dismiss
    BY <2>1 DEF Activity, TurnOff, Hold, Configure, Dismiss
  <2>2. CASE Stop
    BY <2>2 DEF Stop, Closed, Idle, Fields
  <2>3. CASE StartService
    BY <2>3 DEF StartService, Timers
  <2>4. CASE Tick
    <3>1. \A t \in Threads : /\ threads'[t].kind = threads[t].kind
                             /\ threads'[t].at = threads[t].at
                             /\ threads[t].at \in {"free", "wait"}
      BY <2>4, TickMoves DEF Idle, Fields
    <3>2. \A i \in Ids : warnings'[i] # 0 => warnings[i] # 0
      BY <2>4 DEF Tick, Less, Fields
    <3> QED
      BY <2>4, <3>1, <3>2 DEF Tick
  <2> QED
    BY <1>4, <2>1, <2>2, <2>3, <2>4 DEF Environment
<1> QED
  BY <1>1, <1>2, <1>3, <1>4 DEF NNext

Kempt == ~overtaken => Tidy

\* As long as no cancel has missed a thread, all is tidy.
LEMMA KemptCorrect == HNSpec => [](Typed /\ Kempt)
<1>1. HNInit /\ Typed => Kempt
  <2> SUFFICES ASSUME HNInit, Typed  PROVE Tidy
    BY DEF Kempt
  <2>1. Quiet
    BY DEF HNInit, NInit, Quiet, Alive, Idle
  <2> QED
    BY <2>1, QuietIsTidy DEF Typed
<1>2. Typed /\ Typed' /\ Kempt /\ [HNNext]_<<nvars, history>> => Kempt'
  <2> SUFFICES ASSUME Typed, Typed', Kempt, [HNNext]_<<nvars, history>>, ~overtaken'
               PROVE  Tidy'
    BY DEF Kempt
  <2>1. CASE UNCHANGED <<nvars, history>>
    <3>1. ~overtaken
      BY <2>1, Zenon DEF history
    <3>2. Tidy
      BY <3>1 DEF Kempt
    <3> QED
      BY <2>1, <3>2, Zenon DEF nvars, poll, desktop, notifier, Tidy, Free, Blank, Cancelling
  <2>2. CASE HNNext /\ Quiet'
    <3>1. (Fields /\ Quiet => Tidy)'
      BY QuietIsTidy, PTL
    <3> QED
      BY <2>2, <3>1 DEF Typed
  <2>3. CASE HNNext /\ ~Quiet'
    <3>1. ~overtaken /\ (\/ main = "poll" /\ main' = "forget"
                         \/ main # "down" /\ main' = "down"
                         \/ Cancelling
                         => \A t \in Threads : threads[t].at \in {"free", "wait"})
      BY <2>3, NotOvertaken DEF Typed, HNNext
    <3> QED
      BY <2>3, <3>1, TidyStep DEF Typed, Flags, HNNext, Kempt
  <2> QED
    BY <2>1, <2>2, <2>3
<1> QED
  BY <1>1, <1>2, TypedCorrect, PTL DEF HNSpec

\* Once the poll has seen the user back, no warning is left on the screen,
\* unless a cancel or a stop came while a thread was past its wait.
THEOREM NothingStale == HNSpec => []NoStaleWarning
<1>1. Typed /\ Kempt => NoStaleWarning
  BY DEF Kempt, Tidy, Blank, NoStaleWarning
<1> QED
  BY <1>1, KemptCorrect, PTL

-----------------------------------------------------------------------------
(* What makes NoticeJustified inductive.  While the profile and the idle time
   of the dim last, no thread is ahead of the timings computed at the dim; and
   when they do not, the next poll comes before the screen can dim again. *)
JustBack == idle + wait <= PollSeconds

OnPace(t) ==
    /\ threads[t].at = "dpms" => back \/ (idle > OffTime /\ idle > 0)
    /\ main = "poll" /\ ~JustBack =>
         /\ threads[t].kind = "warning" => remaining = Promised
         /\ threads[t].kind = "warning" /\ threads[t].at = "wait"
              => idle + threads[t].left >= profile.dim + Delay
         /\ threads[t].kind = "warning" /\ threads[t].at # "wait" => idle >= profile.dim + Delay
         /\ threads[t].kind = "check" /\ threads[t].at = "wait"
              => idle + threads[t].left >= OffTime + Grace

\* The timings depend on the profile alone.
LEMMA SameProfile ==
  profile' = profile => /\ OffTime' = OffTime /\ Delay' = Delay /\ Promised' = Promised
                        /\ idle' = idle => (Dimmed' <=> Dimmed)
BY DEF OffTime, Delay, Promised, Lock, Dimmed

\* A free thread is on pace.
LEMMA FreeOnPace == ASSUME NEW t, threads'[t] = Idle  PROVE OnPace(t)'
BY DEF OnPace, Idle

\* So is a thread that stays where it was while time stands still.
LEMMA RestOnPace ==
  ASSUME NEW t, OnPace(t), threads'[t] = threads[t], profile' = profile, idle' = idle,
         wait' = wait, main' = main, remaining' = remaining \/ threads[t].kind # "warning",
         threads[t].at = "dpms" => (back => back')
  PROVE  OnPace(t)'
<1>1. JustBack' <=> JustBack
  BY DEF JustBack
<1> QED
  BY <1>1, SameProfile DEF OnPace

\* Every step keeps all threads on pace, as long as things are tidy.
LEMMA PaceStep ==
  ASSUME Typed, Typed', Tidy, \A t \in Threads : OnPace(t), NNext,
         NEW u \in Threads,
         threads'[u].at = "dpms" => (back' <=> (back \/ (idle' = 0 /\ idle > 0)))
  PROVE  OnPace(u)'
<1>0. /\ Fields /\ Fields' /\ Timers /\ threads \in [Threads -> ThreadState] /\ OnPace(u)
      /\ profile.dim \in Nat /\ profile.dim > PollSeconds
      /\ OffTime \in Nat /\ Delay \in Nat /\ Promised \in Int
      /\ profile.dim + Delay + Promised = OffTime
  BY TimingsAgree, ProfileTyped DEF Typed, Fields
<1> USE DEF plasma, desktop, notifier, poll
<1>1. ASSUME NEW t \in Threads, Warn(t)  PROVE OnPace(u)'
  <2>1. /\ UNCHANGED <<profile, idle, wait, main, remaining>>
        /\ threads[t].kind = "warning" /\ OnPace(t)
    BY <1>1 DEF Warn, Recheck, SendWarning, StoreId, CreateCheck, StartCheck, At
  <2>2. (JustBack' <=> JustBack) /\ OffTime' = OffTime /\ Delay' = Delay /\ Promised' = Promised
    BY <2>1, SameProfile DEF JustBack
  <2>3. ASSUME threads'[u] = threads[u]  PROVE OnPace(u)'
    BY <1>0, <2>1, <2>3, RestOnPace
  <2>4. CASE u = t
    <3>1. threads'[u] = Idle \/ (threads'[u].kind = "warning" /\ threads'[u].at \notin {"wait", "dpms"})
      <4>1. CASE Recheck(t)
        BY <1>0, <2>4, <4>1, WarnMoves DEF Becomes, Warning
      <4>2. CASE SendWarning(t)
        BY <1>0, <2>4, <4>2, WarnMoves DEF Becomes, Warning
      <4>3. CASE StoreId(t) \/ CreateCheck(t)
        BY <1>0, <2>4, <4>3, WarnMoves DEF Becomes, Warning
      <4>4. CASE StartCheck(t)
        BY <1>0, <2>4, <4>4, WarnMoves DEF Becomes
      <4> QED
        BY <1>1, <4>1, <4>2, <4>3, <4>4 DEF Warn
    <3>2. threads[t].at = "wait" => threads[t].left = 0
      BY <1>1 DEF Warn, Recheck, SendWarning, StoreId, CreateCheck, StartCheck, At
    <3>3. main = "poll" /\ ~JustBack => remaining = Promised /\ idle >= profile.dim + Delay
      BY <1>0, <2>1, <3>2 DEF OnPace, Fields
    <3>4. CASE threads'[u] # Idle
      BY <2>1, <2>2, <3>1, <3>3, <3>4 DEF OnPace
    <3> QED
      BY <3>4, FreeOnPace
  <2>5. CASE u # t /\ ~StartCheck(t)
    <3>1. \E r : Becomes(t, r)
      BY <1>0, <1>1, <2>5, WarnMoves DEF Warn
    <3> QED
      BY <2>3, <2>5, <3>1 DEF Becomes
  <2>6. CASE u # t /\ StartCheck(t)
    <3>1. CASE checkTimer # New
      BY <1>0, <2>3, <2>6, <3>1, WarnMoves DEF Becomes
    <3>2. CASE checkTimer = New
      <4>1. PICK c \in Threads :
               threads' = [v \in Threads |-> IF v = t THEN Idle
                             ELSE IF v = c THEN Checking("wait", CheckAfter) ELSE threads[v]]
        BY <1>0, <2>6, <3>2, WarnMoves
      <4>2. CASE u # c
        BY <2>3, <2>6, <4>1, <4>2
      <4>3. CASE u = c
        <5>1. threads'[u] = Checking("wait", remaining + Grace)
          BY <2>6, <4>1, <4>3 DEF CheckAfter
        <5>2. threads[t].at = "start"
          BY <2>6 DEF StartCheck, At
        <5>3. main = "poll" /\ ~JustBack => remaining = Promised /\ idle >= profile.dim + Delay
          BY <2>1, <5>2 DEF OnPace
        <5> QED
          BY <1>0, <2>1, <2>2, <5>1, <5>3 DEF OnPace, Checking, Fields
      <4> QED
        BY <4>2, <4>3
    <3> QED
      BY <3>1, <3>2
  <2> QED
    BY <2>4, <2>5, <2>6
<1>2. ASSUME NEW t \in Threads, Check(t)  PROVE OnPace(u)'
  <2>1. /\ UNCHANGED <<profile, idle, wait, main, remaining>>
        /\ threads[t].kind = "check" /\ OnPace(t)
    BY <1>2 DEF Check, CheckDimmed, CheckDpms, CloseWarning, ForgetWarning, SendNotice, At
  <2>2. OffTime' = OffTime
    BY <2>1, SameProfile
  <2>3. \E r : Becomes(t, r)
    BY <1>0, <1>2, CheckMoves DEF Check
  <2>4. CASE u # t
    <3>1. threads'[u] = threads[u]
      BY <2>3, <2>4 DEF Becomes
    <3> QED
      BY <1>0, <2>1, <3>1, RestOnPace
  <2>5. CASE u = t /\ CheckDimmed(t)
    <3>1. CASE ~Dimmed
      <4>1. threads'[u] = Idle
        BY <1>0, <2>5, <3>1, CheckMoves DEF Becomes
      <4> QED
        BY <4>1, FreeOnPace
    <3>2. CASE Dimmed
      <4>1. threads[t] = Checking("wait", 0) /\ threads'[u] = Checking("dpms", 0)
        BY <1>0, <2>5, <3>2, CheckMoves DEF Becomes
      <4>2. idle >= profile.dim /\ main = "poll" /\ ~JustBack
        <5>1. threads[t] # Idle
          BY <4>1 DEF Checking, Idle
        <5> QED
          BY <1>0, <3>2, <5>1 DEF Dimmed, Timers, Cancelling, Fields, JustBack
      <4>3. idle > OffTime /\ idle > 0
        BY <1>0, <2>1, <4>1, <4>2 DEF OnPace, Checking, Fields
      <4> QED
        BY <2>1, <2>2, <4>1, <4>3 DEF OnPace, Checking
    <3> QED
      BY <3>1, <3>2
  <2>6. CASE u = t /\ ~CheckDimmed(t)
    <3>1. threads'[u] = Idle \/ (threads'[u].kind = "check" /\ threads'[u].at \notin {"wait", "dpms"})
      BY <1>0, <1>2, <2>6, CheckMoves DEF Check, Becomes, Checking
    <3>2. CASE threads'[u] # Idle
      BY <3>1, <3>2 DEF OnPace
    <3> QED
      BY <3>2, FreeOnPace
  <2> QED
    BY <2>4, <2>5, <2>6
<1>3. CASE Main
  <2>1. UNCHANGED <<profile, idle>>
    BY <1>3 DEF Main, SeesDim, SeesNothingNew, SeesDimEnd, ForgetId, CancelTimers, DropTimers
  <2>2. OffTime' = OffTime /\ Delay' = Delay /\ Promised' = Promised
    BY <2>1, SameProfile
  <2>3. CASE SeesDim
    <3>1. threads[u] = Idle /\ ~Alive(timer) /\ main = "poll" /\ idle >= profile.dim
      BY <1>0, <2>3, StateFields DEF SeesDim, Tidy, Dimmed, Timers, Alive
    <3>2. \/ threads'[u] = Idle
          \/ threads'[u] = Warning("wait", Delay) /\ remaining' = Promised
      BY <1>0, <2>3, <3>1, DimMoves DEF Becomes
    <3>3. CASE threads'[u] # Idle
      BY <1>0, <2>1, <2>2, <3>1, <3>2, <3>3 DEF OnPace, Warning, Fields
    <3> QED
      BY <3>3, FreeOnPace
  <2>4. CASE SeesNothingNew
    <3>1. CASE threads[u] = Idle
      BY <2>4, <3>1, FreeOnPace DEF SeesNothingNew
    <3>2. CASE threads[u] # Idle
      <4>1. main = "poll" /\ idle >= profile.dim /\ wait = 0
        BY <1>0, <2>4, <3>2, StateFields DEF SeesNothingNew, Tidy, Dimmed
      <4>2. ~JustBack
        BY <1>0, <4>1 DEF JustBack, Fields
      <4> QED
        BY <1>0, <2>1, <2>2, <2>4, <4>1, <4>2 DEF SeesNothingNew, OnPace
    <3> QED
      BY <3>1, <3>2
  <2>5. CASE SeesDimEnd \/ ForgetId
    <3>1. main' # "poll" /\ threads' = threads
      BY <2>5 DEF SeesDimEnd, ForgetId
    <3> QED
      BY <1>0, <2>1, <2>2, <3>1 DEF OnPace
  <2>6. CASE CancelTimers
    <3>1. main' = "drop" /\ threads'[u] \in {Idle, threads[u]}
      BY <2>6 DEF CancelTimers, Cancelled
    <3> QED
      BY <1>0, <2>1, <2>2, <3>1, FreeOnPace DEF OnPace
  <2>7. CASE DropTimers
    <3>1. threads'[u] = Idle
      BY <1>0, <2>7, StateFields DEF DropTimers, Tidy
    <3> QED
      BY <3>1, FreeOnPace
  <2> QED
    BY <1>3, <2>3, <2>4, <2>5, <2>6, <2>7 DEF Main
<1>4. CASE Environment
  <2>1. CASE Activity
    <3>1. idle' = 0 /\ idle > 0 /\ threads' = threads /\ wait' = wait
      BY <2>1 DEF Activity
    <3>2. JustBack'
      BY <1>0, <3>1 DEF JustBack, Fields
    <3>3. threads'[u].at = "dpms" => back'
      BY <3>1
    <3> QED
      BY <3>2, <3>3 DEF OnPace
  <2>2. CASE Configure
    <3>1. idle' = 0 /\ idle = 0 /\ threads' = threads /\ wait' = wait
      BY <2>2 DEF Configure
    <3>2. JustBack'
      BY <1>0, <3>1 DEF JustBack, Fields
    <3>3. threads'[u].at = "dpms" => back'
      BY <1>0, <3>1 DEF OnPace
    <3> QED
      BY <3>2, <3>3 DEF OnPace
  <2>3. CASE TurnOff \/ Hold \/ Dismiss
    <3>1. UNCHANGED <<threads, profile, idle, wait, main, remaining>>
      BY <2>3 DEF TurnOff, Hold, Dismiss
    <3> QED
      BY <1>0, <3>1, RestOnPace
  <2>4. CASE Stop
    <3>1. threads'[u] = Idle
      BY <2>4 DEF Stop
    <3> QED
      BY <3>1, FreeOnPace
  <2>5. CASE StartService
    <3>1. threads'[u] = Idle
      BY <1>0, <2>5, StateFields DEF StartService, Tidy
    <3> QED
      BY <3>1, FreeOnPace
  <2>6. CASE Tick
    <3>1. /\ profile' = profile /\ main' = main /\ remaining' = remaining
          /\ idle' = (IF idle < MaxIdle THEN idle + 1 ELSE idle) /\ wait' = Less(wait)
          /\ main = "poll" => wait > 0
          /\ MaxIdle \in Nat /\ MaxIdle > OffTime + Grace
      <4>1. MaxIdle \in Nat /\ MaxIdle > OffTime + Grace
        BY <1>0 DEF MaxIdle
      <4> QED
        BY <2>6, <4>1 DEF Tick
    <3>2. OffTime' = OffTime /\ Delay' = Delay /\ Promised' = Promised
      BY <3>1, SameProfile
    <3>3. main = "poll" /\ ~JustBack' => ~JustBack
      BY <1>0, <3>1 DEF JustBack, Less, Fields
    <3>4. CASE threads[u] = Idle
      <4>1. threads'[u] = Idle
        BY <1>0, <2>6, <3>4, TickMoves
      <4> QED
        BY <4>1, FreeOnPace
    <3>5. CASE threads[u] # Idle
      <4>1. PICK kind \in {"warning", "check"}, n \in Nat :
                /\ threads[u] = [kind |-> kind, at |-> "wait", left |-> n + 1]
                /\ threads'[u] = [kind |-> kind, at |-> "wait", left |-> n]
        BY <1>0, <2>6, <3>5, TickMoves
      <4>2. CASE kind = "warning"
        <5>1. remaining > 0
          BY <1>0, <4>1, <4>2 DEF Timers
        <5> QED
          BY <1>0, <3>1, <3>2, <3>3, <4>1, <4>2, <5>1 DEF OnPace, Fields
      <4>3. CASE kind = "check"
        BY <1>0, <3>1, <3>2, <3>3, <4>1, <4>3 DEF OnPace, Fields
      <4> QED
        BY <4>2, <4>3
    <3> QED
      BY <3>4, <3>5
  <2> QED
    BY <1>4, <2>1, <2>2, <2>3, <2>4, <2>5, <2>6 DEF Environment
<1> QED
  BY <1>1, <1>2, <1>3, <1>4 DEF NNext

Paced == ~overtaken => \A t \in Threads : OnPace(t)

\* As long as no cancel has missed a thread, all threads are on pace.
LEMMA PacedCorrect == HNSpec => [](Typed /\ Kempt /\ Paced)
<1>1. HNInit => Paced
  <2> SUFFICES ASSUME HNInit, NEW t \in Threads  PROVE OnPace(t)
    BY DEF Paced
  <2>1. threads[t] = Idle
    BY DEF HNInit, NInit
  <2> QED
    BY <2>1 DEF OnPace, Idle
<1>2. Typed /\ Typed' /\ Kempt /\ Paced /\ [HNNext]_<<nvars, history>> => Paced'
  <2> SUFFICES ASSUME Typed, Typed', Kempt, Paced, [HNNext]_<<nvars, history>>, ~overtaken',
                      NEW u \in Threads
               PROVE  OnPace(u)'
    BY DEF Paced
  <2>1. CASE UNCHANGED <<nvars, history>>
    <3>1. ~overtaken /\ (back => back')
      BY <2>1, Zenon DEF history
    <3>2. OnPace(u)
      BY <3>1 DEF Paced
    <3> QED
      BY <2>1, <3>1, <3>2, RestOnPace DEF nvars, plasma, poll, notifier
  <2>2. CASE HNNext /\ Quiet'
    <3>1. (Fields /\ Quiet => \A t \in Threads : threads[t] = Idle)'
      BY QuietIsIdle, PTL
    <3>2. threads'[u] = Idle
      BY <2>2, <3>1 DEF Typed
    <3> QED
      BY <3>2, FreeOnPace
  <2>3. CASE HNNext /\ ~Quiet'
    <3>1. ~overtaken
      BY <2>3, NotOvertaken DEF Typed, HNNext
    <3>2. Tidy /\ \A t \in Threads : OnPace(t)
      BY <3>1 DEF Kempt, Paced
    <3>3. threads'[u].at = "dpms" => (back' <=> (back \/ (idle' = 0 /\ idle > 0)))
      <4>1. threads'[u].at = "dpms" => BetweenReadings'
        BY DEF BetweenReadings, Typed, Fields, ThreadState, Idle
      <4>2. back' <=> (BetweenReadings' /\ (back \/ (idle' = 0 /\ idle > 0)))
        BY <2>3, Zenon DEF HNNext, Record
      <4> QED
        BY <4>1, <4>2
    <3> QED
      BY <2>3, <3>2, <3>3, PaceStep DEF HNNext
  <2> QED
    BY <2>1, <2>2, <2>3
<1> QED
  BY <1>1, <1>2, KemptCorrect, PTL DEF HNSpec

\* The check decides that something keeps the screen on only when it is on after
\* its time, or the user came back between its two readings, or a cancel missed
\* it: it is never early, whatever the profile, the lock and the poll.
THEOREM NoticeSafe == HNSpec => NoticeJustified
<1> DEFINE Decides == \E t \in Threads : StepOf(t, "check", "dpms", "close")
           Justified == (display = "on" /\ idle > OffTime) \/ back \/ overtaken
<1>1. Typed /\ Kempt /\ Paced /\ [HNNext]_<<nvars, history>>
      => [Decides => Justified]_<<nvars, history>>
  <2> SUFFICES ASSUME Typed, Kempt, Paced, HNNext, ~overtaken,
                      NEW t \in Threads, StepOf(t, "check", "dpms", "close")
               PROVE  (display = "on" /\ idle > OffTime) \/ back
    OBVIOUS
  <2>1. OnPace(t) /\ Tidy /\ threads[t].at = "dpms" /\ threads'[t].at = "close"
    BY DEF Paced, Kempt, StepOf
  <2>2. back \/ idle > OffTime
    BY <2>1 DEF OnPace
  <2>3. display = "on"
    <3>0. threads \in [Threads -> ThreadState] /\ Fields
      BY DEF Typed, Fields
    <3>1. ASSUME NEW u \in Threads, Check(u)  PROVE display = "on"
      <4>1. CASE u # t
        <5>1. threads'[t] = threads[t]
          BY <3>0, <3>1, <4>1, CheckMoves DEF Check, Becomes
        <5> QED
          BY <2>1, <5>1
      <4>2. CASE u = t /\ ~CheckDpms(t)
        BY <2>1, <3>1, <4>2 DEF Check, CheckDimmed, CloseWarning, ForgetWarning, SendNotice, At
      <4>3. CASE u = t /\ CheckDpms(t) /\ display # "on"
        BY <2>1, <3>0, <4>3, CheckMoves DEF Becomes, Idle
      <4> QED
        BY <4>1, <4>2, <4>3
    <3>2. ASSUME NEW u \in Threads, Warn(u)  PROVE FALSE
      <4>1. threads[u].kind = "warning" /\ threads[t].kind = "check"
        BY <3>2 DEF Warn, Recheck, SendWarning, StoreId, CreateCheck, StartCheck, At, StepOf
      <4> QED
        BY <2>1, <3>0, <4>1, StateFields DEF Tidy
    <3>3. CASE Main
      <4>1. threads' = threads \/ threads'[t] = Idle \/ threads'[t] = threads[t]
            \/ threads'[t].at = "wait"
        <5>1. CASE SeesDim
          BY <3>0, <5>1, DimMoves DEF Becomes, Warning
        <5>2. CASE CancelTimers
          BY <5>2 DEF CancelTimers, Cancelled
        <5> QED
          BY <3>3, <5>1, <5>2 DEF Main, SeesNothingNew, SeesDimEnd, ForgetId, DropTimers
      <4> QED
        BY <2>1, <4>1 DEF Idle
    <3>4. CASE Environment
      <4>1. CASE Tick
        <5>1. threads'[t].at \in {"free", "wait"}
          <6>1. \/ threads'[t] = Idle
                \/ \E kind \in {"warning", "check"}, n \in Nat :
                       threads'[t] = [kind |-> kind, at |-> "wait", left |-> n]
            BY <3>0, <4>1, TickMoves
          <6>2. CASE threads'[t] = Idle
            BY <6>2 DEF Idle
          <6>3. ASSUME NEW kind, NEW n, threads'[t] = [kind |-> kind, at |-> "wait", left |-> n]
                PROVE  threads'[t].at = "wait"
            BY <6>3
          <6> QED
            BY <6>1, <6>2, <6>3
        <5> QED
          BY <2>1, <5>1
      <4>2. CASE ~Tick
        BY <2>1, <3>4, <4>2 DEF Environment, Activity, TurnOff, Hold, Configure, Dismiss, Stop,
                                StartService, Idle
      <4> QED
        BY <4>1, <4>2
    <3> QED
      BY <3>1, <3>2, <3>3, <3>4 DEF HNNext, NNext
  <2> QED
    BY <2>2, <2>3
<1> QED
  BY <1>1, PacedCorrect, PTL DEF HNSpec, NoticeJustified

-----------------------------------------------------------------------------
(* What makes WarnedInTime and HeldOnIsNoticed inductive.  First, what the
   poll knows of the dim: it sees it within PollSeconds of its beginning, and
   its end before the next one can begin. *)
Seeing ==
    /\ main = "poll" /\ seen => JustBack \/ Dimmed
    /\ main = "poll" /\ ~seen /\ whole /\ Dimmed =>
          idle + wait <= profile.dim + PollSeconds /\ lead = NoLead
    /\ main = "poll" /\ ~seen /\ Dimmed => \A t \in Threads : threads[t].kind # "warning"
    /\ whole => main # "down"
    /\ lead # NoLead => Dimmed
    /\ lead \in Nat \cup {NoLead}

(* Then the way from the dim to the notice, in a dim that the service has seen
   whole and that has a window to warn in: the warning waits or is being sent,
   the check is being made, or it waits or runs, each of them in time. *)
Latest == profile.dim + PollSeconds + Delay
Overdue == OffTime + PollSeconds + Grace

ToWarn(t) ==
    /\ threads[t].kind = "warning" /\ remaining = Promised
    /\ \/ threads[t].at = "wait" /\ idle + threads[t].left <= Latest
       \/ threads[t].at = "send" /\ idle <= Latest

ToCheck(t) ==
    /\ threads[t].at \in {"store", "create", "start"} /\ remaining = Promised /\ idle <= Latest
    /\ threads[t].at = "start" => checkTimer = New

ToNotice(t) ==
    \/ threads[t].kind = "check" /\ threads[t].at = "wait" /\ idle + threads[t].left <= Overdue
    \/ threads[t].at \in {"dpms", "close", "forget", "notice"} /\ idle <= Overdue

Promising == main = "poll" /\ seen /\ whole /\ Dimmed /\ profile.enabled /\ Promised > 0

Chain ==
    /\ timer \in Threads
    /\ lead = NoLead => ToWarn(timer)
    /\ lead # NoLead => /\ idle - lead <= Latest
                        /\ threads[timer].kind = "warning" => ToCheck(timer)
    /\ lead # NoLead /\ display = "on" /\ ~noticed =>
          threads[timer].kind = "warning" \/ (checkTimer \in Threads /\ ToNotice(checkTimer))

Kept == Promising => Chain

\* A thread stores a number only after it has sent its warning.
LEMMA OnlySendStores ==
  ASSUME Fields, NNext, NEW u \in Threads, threads[u].at # "store", threads'[u].at = "store"
  PROVE  SendWarning(u)
<1>0. threads \in [Threads -> ThreadState]
  BY DEF Fields
<1>1. ASSUME NEW t \in Threads, Warn(t), ~SendWarning(u)  PROVE FALSE
  <2>1. CASE SendWarning(t)
    BY <1>0, <1>1, <2>1, WarnMoves DEF Becomes
  <2>2. CASE Recheck(t)
    BY <1>0, <2>2, WarnMoves DEF Becomes, Warning, Idle
  <2>3. CASE StoreId(t) \/ CreateCheck(t)
    BY <1>0, <2>3, WarnMoves DEF Becomes, Warning
  <2>4. CASE StartCheck(t)
    BY <1>0, <2>4, WarnMoves DEF Becomes, Checking, Idle
  <2> QED
    BY <1>1, <2>1, <2>2, <2>3, <2>4 DEF Warn
<1>2. ASSUME NEW t \in Threads, Check(t)  PROVE FALSE
  BY <1>0, <1>2, CheckMoves DEF Check, Becomes, Checking, Idle
<1>3. CASE Main
  <2>1. CASE SeesDim
    BY <1>0, <2>1, DimMoves DEF Becomes, Warning
  <2>2. CASE ~SeesDim
    BY <1>3, <2>2 DEF Main, SeesNothingNew, SeesDimEnd, ForgetId, CancelTimers, DropTimers,
                      Cancelled, Idle
  <2> QED
    BY <2>1, <2>2
<1>4. CASE Environment
  <2>1. CASE Tick
    <3>1. \/ threads'[u] = Idle
          \/ \E kind \in {"warning", "check"}, n \in Nat :
                 threads'[u] = [kind |-> kind, at |-> "wait", left |-> n]
      BY <1>0, <2>1, TickMoves
    <3>2. CASE threads'[u] = Idle
      BY <3>2 DEF Idle
    <3>3. ASSUME NEW kind, NEW n, threads'[u] = [kind |-> kind, at |-> "wait", left |-> n]
          PROVE  FALSE
      BY <3>3
    <3> QED
      BY <3>1, <3>2, <3>3
  <2>2. CASE ~Tick
    BY <1>4, <2>2 DEF Environment, Activity, TurnOff, Hold, Configure, Dismiss, Stop,
                      StartService, Idle
  <2> QED
    BY <2>1, <2>2
<1> QED
  BY <1>1, <1>2, <1>3, <1>4 DEF NNext

\* What the history records of a step in a dim.
LEMMA RecordStep ==
  ASSUME Typed, Typed', NNext, Record
  PROVE  /\ ~Dimmed' => lead' = NoLead
         /\ Dimmed' => lead' \in {lead, lead + 1, 0}
         /\ Dimmed' /\ (\A t \in Threads : ~SendWarning(t)) =>
              lead' = IF lead # NoLead /\ idle' > idle THEN lead + 1 ELSE lead
         /\ Dimmed' /\ (\E t \in Threads : SendWarning(t)) => lead' = 0
         /\ whole' => main' # "down" /\ (whole \/ ~Dimmed')
         /\ Dimmed' /\ noticed => noticed'
         /\ Dimmed' /\ (\E t \in Threads : SendNotice(t)) => noticed'
<1> DEFINE Sends == \E t \in Threads : StepOf(t, "warning", "send", "store")
           Tells == \E t \in Threads : StepOf(t, "check", "notice", "free")
<1>0. threads \in [Threads -> ThreadState] /\ profile'.dim \in Nat /\ idle' \in Nat
  BY ProfileAssumption DEF Typed, Fields
<1>1. Dimmed' <=> ~(idle' < profile'.dim)
  BY <1>0 DEF Dimmed
<1>2. lead' = IF idle' < profile'.dim THEN NoLead
              ELSE IF Sends THEN 0
              ELSE IF lead # NoLead /\ idle' > idle THEN lead + 1 ELSE lead
  BY DEF Record
<1>3. Sends <=> \E t \in Threads : SendWarning(t)
  <2>1. ASSUME NEW t \in Threads, StepOf(t, "warning", "send", "store")  PROVE SendWarning(t)
    BY <2>1, OnlySendStores DEF StepOf, Typed
  <2>2. ASSUME NEW t \in Threads, SendWarning(t)  PROVE StepOf(t, "warning", "send", "store")
    BY <1>0, <2>2, WarnMoves DEF StepOf, Becomes, Warning
  <2> QED
    BY <2>1, <2>2
<1>4. (\E t \in Threads : SendNotice(t)) => Tells
  BY <1>0, CheckMoves DEF StepOf, Becomes, Idle
<1>5. whole' <=> (main' # "down" /\ (whole \/ idle' < profile'.dim))
  BY Zenon DEF Record
<1>6. noticed' <=> (idle' >= profile'.dim /\ (noticed \/ Tells))
  BY Zenon DEF Record
<1>7. Dimmed' <=> idle' >= profile'.dim
  BY DEF Dimmed
<1> HIDE DEF Sends, Tells
<1> QED
  BY <1>1, <1>2, <1>3, <1>4, <1>5, <1>6, <1>7

\* What every step of the history does to these numbers.
LEMMA DimFacts ==
  ASSUME Typed
  PROVE  /\ Fields /\ Timers /\ threads \in [Threads -> ThreadState]
         /\ profile.dim \in Nat /\ profile.dim > PollSeconds /\ idle \in Nat /\ wait \in 0 .. PollSeconds
         /\ OffTime \in Nat /\ Delay \in Nat /\ Promised \in Int
         /\ profile.dim + Delay + Promised = OffTime
         /\ Dimmed <=> idle >= profile.dim
         /\ JustBack => ~Dimmed
BY TimingsAgree, ProfileTyped DEF Typed, Fields, Dimmed, JustBack

\* Only a thread that is past its wait sends; time does not pass meanwhile.
LEMMA NoSendInTick ==
  ASSUME Typed, Tick, NEW t \in Threads  PROVE ~SendWarning(t)
BY DEF SendWarning, At, Tick, Running, Alive

\* The steps of a thread leave Plasma, the poll and the time alone.
LEMMA ThreadSteps ==
  ASSUME NEW t \in Threads, Warn(t) \/ Check(t)
  PROVE  /\ UNCHANGED <<profile, idle, held, display, main, seen, wait, timer, remaining>>
         /\ Warn(t) => threads[t].kind = "warning" /\ UNCHANGED notice
         /\ Check(t) => threads[t].kind = "check" /\ UNCHANGED checkTimer
BY DEF Warn, Recheck, SendWarning, StoreId, CreateCheck, StartCheck, At, plasma, desktop, notifier, poll,
       Check, CheckDimmed, CheckDpms, CloseWarning, ForgetWarning, SendNotice

\* Every step keeps what the poll knows.
LEMMA SeeingStep ==
  ASSUME Typed, Typed', Seeing, NNext, Record  PROVE Seeing'
<1> DEFINE First == main = "poll" /\ seen => JustBack \/ Dimmed
           Second == main = "poll" /\ ~seen /\ whole /\ Dimmed =>
                        idle + wait <= profile.dim + PollSeconds /\ lead = NoLead
           Third == main = "poll" /\ ~seen /\ Dimmed => \A t \in Threads : threads[t].kind # "warning"
<1>0. /\ Fields /\ Timers /\ threads \in [Threads -> ThreadState]
      /\ profile.dim \in Nat /\ profile.dim > PollSeconds /\ idle \in Nat /\ wait \in 0 .. PollSeconds
      /\ Dimmed <=> idle >= profile.dim
  BY DimFacts
<1>1. /\ profile'.dim \in Nat /\ profile'.dim > PollSeconds /\ idle' \in Nat /\ wait' \in 0 .. PollSeconds
      /\ Dimmed' <=> idle' >= profile'.dim
  BY ProfileAssumption DEF Typed, Fields, Dimmed
<1>2. /\ whole' => main' # "down" /\ (whole \/ ~Dimmed')
      /\ lead' # NoLead => Dimmed'
      /\ Dimmed' /\ (\A t \in Threads : ~SendWarning(t)) =>
              lead' = IF lead # NoLead /\ idle' > idle THEN lead + 1 ELSE lead
  BY RecordStep
<1>3. lead' \in Nat \cup {NoLead}
  BY RecordStep DEF Seeing, NoLead
<1>4. First' /\ Second' /\ Third'
  <2> USE DEF plasma, desktop, notifier, poll
  <2>1. ASSUME NEW t \in Threads, Warn(t)  PROVE First' /\ Second' /\ Third'
    <3>1. threads[t].kind = "warning" /\ UNCHANGED <<profile, idle, main, seen, wait>>
      BY <2>1, ThreadSteps
    <3>2. (Dimmed' <=> Dimmed) /\ (JustBack' <=> JustBack)
      BY <3>1 DEF Dimmed, JustBack
    <3>3. ~(main = "poll" /\ ~seen /\ Dimmed)
      BY <3>1 DEF Seeing
    <3> QED
      BY <3>1, <3>2, <3>3 DEF Seeing
  <2>2. ASSUME NEW t \in Threads, Check(t)  PROVE First' /\ Second' /\ Third'
    <3>1. threads[t].kind = "check" /\ UNCHANGED <<profile, idle, main, seen, wait>>
      BY <2>2, ThreadSteps
    <3>2. \A u \in Threads : threads'[u] = threads[u] \/ threads'[u].kind # "warning"
      BY <1>0, <2>2, CheckMoves DEF Check, Becomes, Checking, Idle
    <3>3. ASSUME NEW u \in Threads, Warn(u), main = "poll", ~seen, Dimmed  PROVE FALSE
      BY <3>3, ThreadSteps DEF Seeing
    <3>4. (Dimmed' <=> Dimmed) /\ (JustBack' <=> JustBack) /\ idle' = idle
      BY <3>1 DEF Dimmed, JustBack
    <3>5. First' /\ Third'
      BY <3>1, <3>2, <3>4 DEF Seeing
    <3>6. main = "poll" /\ ~seen /\ Dimmed => lead' = lead
      BY <1>2, <1>0, <3>3, <3>4 DEF Warn
    <3> QED
      BY <1>2, <3>1, <3>4, <3>5, <3>6 DEF Seeing
  <2>3. CASE SeesDim
    <3>1. seen' /\ Dimmed'
      BY <2>3 DEF SeesDim, Dimmed
    <3> QED
      BY <3>1
  <2>4. CASE SeesNothingNew
    <3>1. (seen' <=> seen) /\ (Dimmed' <=> Dimmed) /\ (seen <=> Dimmed)
      BY <2>4, Zenon DEF SeesNothingNew, Dimmed
    <3> QED
      BY <3>1
  <2>5. CASE SeesDimEnd \/ ForgetId \/ CancelTimers \/ Stop
    BY <2>5 DEF SeesDimEnd, ForgetId, CancelTimers, Stop
  <2>6. CASE DropTimers
    <3>1. ~seen' /\ ~Dimmed'
      BY <1>0, <2>6, Zenon DEF DropTimers, Timers, Cancelling, Dimmed
    <3> QED
      BY <3>1
  <2>7. CASE Activity \/ Configure
    <3>1. idle' = 0
      BY <2>7 DEF Activity, Configure
    <3>2. JustBack' /\ ~Dimmed'
      BY <1>1, <3>1 DEF JustBack
    <3> QED
      BY <3>2
  <2>8. CASE TurnOff \/ Hold \/ Dismiss
    <3>1. UNCHANGED <<profile, idle, main, seen, wait, threads>>
      BY <2>8 DEF TurnOff, Hold, Dismiss
    <3>2. \A t \in Threads : ~SendWarning(t)
      <4> SUFFICES ASSUME NEW t \in Threads, SendWarning(t)  PROVE FALSE
        OBVIOUS
      <4>1. threads'[t].at = "store" /\ threads[t].at = "send"
        BY <1>0, WarnMoves DEF Becomes, Warning
      <4> QED
        BY <3>1, <4>1
    <3>3. (Dimmed' <=> Dimmed) /\ (JustBack' <=> JustBack) /\ idle' = idle
      BY <3>1 DEF Dimmed, JustBack
    <3>4. Dimmed' => lead' = lead
      BY <1>2, <1>0, <3>2, <3>3
    <3> QED
      BY <1>2, <3>1, <3>3, <3>4 DEF Seeing
  <2>9. CASE StartService
    <3>1. main = "down" /\ ~seen /\ ~whole /\ UNCHANGED <<seen, threads>>
      BY <1>0, <2>9 DEF StartService, Timers, Seeing
    <3>2. \A t \in Threads : threads'[t].kind # "warning"
      BY <1>0, <3>1 DEF Timers, Idle
    <3> QED
      BY <1>2, <3>1, <3>2
  <2>10. CASE Tick
    <3>1. CASE main = "down"
      BY <2>10, <3>1 DEF Tick
    <3>2. CASE main = "poll" /\ wait > 0
      <4>1. /\ idle' \in {idle, idle + 1} /\ wait' = wait - 1
            /\ main' = main /\ seen' = seen /\ profile' = profile
        BY <1>0, <2>10, <3>2 DEF Tick, Less
      <4>2. First'
        BY <1>0, <1>1, <3>2, <4>1 DEF JustBack, Seeing
      <4>3. Second'
        BY <1>0, <1>1, <1>2, <2>10, <3>2, <4>1, NoSendInTick DEF Seeing
      <4>4. Third'
        <5>1. \A t \in Threads : threads'[t].kind = threads[t].kind
          BY <1>0, <2>10 DEF Tick, ThreadState, Idle
        <5>2. main = "poll" /\ ~seen => \A t \in Threads : threads[t].kind # "warning"
          BY <1>0, <2>10 DEF Timers, Tick, Running, Alive, Fields, ThreadState, Idle
        <5> QED
          BY <4>1, <5>1, <5>2
      <4> QED
        BY <4>2, <4>3, <4>4
    <3> QED
      BY <2>10, <3>1, <3>2 DEF Tick
  <2> QED
    BY <2>1, <2>2, <2>3, <2>4, <2>5, <2>6, <2>7, <2>8, <2>9, <2>10 DEF NNext, Main, Environment
<1> QED
  BY <1>2, <1>3, <1>4 DEF Seeing

\* Every step keeps the promise of the dim.
LEMMA ChainStep ==
  ASSUME Typed, Typed', Seeing, Seeing', Kept, NNext, Record  PROVE Kept'
<1> SUFFICES ASSUME Promising'  PROVE Chain'
  BY DEF Kept
<1>0. /\ Fields /\ Timers /\ threads \in [Threads -> ThreadState]
      /\ profile.dim \in Nat /\ profile.dim > PollSeconds /\ idle \in Nat /\ wait \in 0 .. PollSeconds
      /\ OffTime \in Nat /\ Delay \in Nat /\ Promised \in Int
      /\ profile.dim + Delay + Promised = OffTime
      /\ Dimmed <=> idle >= profile.dim
      /\ lead \in Nat \cup {NoLead}
  BY DimFacts DEF Seeing
<1>1. /\ main' = "poll" /\ seen' /\ whole' /\ Dimmed' /\ profile'.enabled
      /\ profile'.dim \in Nat /\ profile'.dim > PollSeconds /\ idle' \in Nat
      /\ Dimmed' <=> idle' >= profile'.dim
  BY ProfileAssumption DEF Typed, Fields, Dimmed, Promising
<1>2. /\ whole
      /\ (\A t \in Threads : ~SendWarning(t)) =>
            lead' = IF lead # NoLead /\ idle' > idle THEN lead + 1 ELSE lead
      /\ (\E t \in Threads : SendWarning(t)) => lead' = 0
      /\ ~noticed' => ~noticed /\ \A t \in Threads : ~SendNotice(t)
  BY <1>1, RecordStep
<1>3. ASSUME profile' = profile
      PROVE  /\ OffTime' = OffTime /\ Delay' = Delay /\ Promised' = Promised
             /\ Latest' = Latest /\ Overdue' = Overdue
             /\ Dimmed /\ seen /\ main = "poll" => Promising
  BY <1>1, <1>2, <1>3, SameProfile DEF Latest, Overdue, Promising
<1>4. /\ Latest \in Nat /\ Overdue \in Nat /\ Latest + Promised + Grace = Overdue
  BY <1>0 DEF Latest, Overdue
<1>5. ASSUME NEW t \in Threads, SendWarning(t)  PROVE threads[t].at = "send" /\ threads'[t].at = "store"
  BY <1>0, <1>5, WarnMoves DEF Becomes, Warning
<1> USE DEF plasma, desktop, notifier, poll
<1>6. ASSUME NEW t \in Threads, Warn(t)  PROVE Chain'
  <2>1. /\ UNCHANGED <<profile, idle, display, main, seen, wait, timer, remaining>>
        /\ threads[t].kind = "warning"
    BY <1>6, ThreadSteps
  <2>2. Promising /\ Chain
    BY <1>1, <1>3, <2>1 DEF Kept, Dimmed
  <2>3. t = timer /\ \A u \in Threads : SendWarning(u) => u = t
    BY <1>0, <2>1, <2>2, ThreadSteps DEF Timers, Fields, Chain, Warn
  <2>4. CASE Recheck(t)
    <3>1. threads[t] = Warning("wait", 0) /\ threads'[t] = Warning("send", 0)
      BY <1>0, <2>2, <2>4, WarnMoves DEF Becomes, Promising
    <3>2. lead = NoLead /\ idle <= Latest /\ remaining = Promised
      BY <1>0, <1>4, <2>2, <2>3, <3>1 DEF Chain, ToWarn, ToCheck, Warning
    <3>3. lead' = NoLead
      BY <1>2, <1>5, <2>3, <3>1, <3>2 DEF Warning
    <3> QED
      BY <1>3, <2>1, <2>2, <2>3, <3>1, <3>2, <3>3 DEF Chain, ToWarn, Warning
  <2>5. CASE SendWarning(t)
    <3>1. threads'[t].kind = "warning" /\ threads'[t].at = "store" /\ threads[t].at = "send"
      BY <1>0, <2>5, WarnMoves DEF Becomes, Warning
    <3>2. idle <= Latest /\ remaining = Promised
      BY <2>1, <2>2, <2>3, <3>1 DEF Chain, ToWarn, ToCheck
    <3>3. lead' = 0
      BY <1>2, <2>5
    <3> QED
      BY <1>0, <1>3, <1>4, <2>1, <2>2, <2>3, <3>1, <3>2, <3>3 DEF Chain, ToCheck, NoLead
  <2>6. CASE StoreId(t) \/ CreateCheck(t) \/ StartCheck(t)
    <3>1. threads[t].at \in {"store", "create", "start"}
      BY <2>6 DEF StoreId, CreateCheck, StartCheck, At
    <3>2. /\ lead # NoLead /\ ToCheck(t) /\ idle - lead <= Latest
      BY <2>1, <2>2, <2>3, <3>1 DEF Chain, ToWarn
    <3>3. lead' = lead
      BY <1>0, <1>2, <1>5, <2>1, <2>3, <3>1
    <3>4. CASE StoreId(t)
      <4>1. threads'[t] = Warning("create", 0)
        BY <1>0, <3>4, WarnMoves DEF Becomes
      <4> QED
        BY <1>3, <2>1, <2>2, <2>3, <3>2, <3>3, <4>1 DEF Chain, ToCheck, Warning
    <3>5. CASE CreateCheck(t)
      <4>1. threads'[t].kind = "warning" /\ threads'[t].at = "start" /\ checkTimer' = New
        BY <1>0, <3>5, WarnMoves DEF CreateCheck, Becomes, Warning
      <4> QED
        BY <1>3, <2>1, <2>2, <2>3, <3>2, <3>3, <4>1 DEF Chain, ToCheck
    <3>6. CASE StartCheck(t)
      <4>1. checkTimer = New
        BY <3>2, <3>6 DEF ToCheck, StartCheck, At
      <4>2. PICK c \in Threads :
               /\ c # t /\ checkTimer' = c
               /\ threads' = [v \in Threads |-> IF v = t THEN Idle
                             ELSE IF v = c THEN Checking("wait", CheckAfter) ELSE threads[v]]
        BY <1>0, <3>6, <4>1, WarnMoves
      <4>3. threads'[t] = Idle /\ threads'[c] = Checking("wait", remaining + Grace)
        BY <4>2 DEF CheckAfter
      <4>4. idle + remaining + Grace <= Overdue
        BY <1>0, <1>4, <3>2 DEF ToCheck
      <4>5. ToNotice(checkTimer)'
        BY <1>0, <1>3, <2>1, <4>2, <4>3, <4>4 DEF ToNotice, Checking, Fields
      <4> QED
        BY <1>3, <2>1, <2>2, <2>3, <3>2, <3>3, <4>2, <4>3, <4>5 DEF Chain, Idle
    <3> QED
      BY <2>6, <3>4, <3>5, <3>6
  <2> QED
    BY <1>6, <2>4, <2>5, <2>6 DEF Warn
<1>7. ASSUME NEW t \in Threads, Check(t)  PROVE Chain'
  <2>1. /\ UNCHANGED <<profile, idle, display, main, seen, wait, timer, remaining, checkTimer>>
        /\ threads[t].kind = "check"
    BY <1>7, ThreadSteps
  <2>2. Promising /\ Chain
    BY <1>1, <1>3, <2>1 DEF Kept, Dimmed
  <2>3. \A u \in Threads : u # t => threads'[u] = threads[u]
    BY <1>0, <1>7, CheckMoves DEF Check, Becomes
  <2>4. timer # t /\ threads'[timer] = threads[timer]
    BY <1>0, <2>1, <2>2, <2>3 DEF Timers, Chain
  <2>5. lead' = lead
    <3>1. ASSUME NEW u \in Threads, SendWarning(u)  PROVE FALSE
      <4>1. u # t
        BY <2>1, <3>1, ThreadSteps DEF Warn
      <4> QED
        BY <1>5, <2>3, <3>1, <4>1
    <3> QED
      BY <1>0, <1>2, <2>1, <3>1
  <2>6. ASSUME checkTimer \in Threads, ToNotice(checkTimer), display = "on", ~noticed'
        PROVE  ToNotice(checkTimer)'
    <3>1. CASE t # checkTimer
      BY <1>3, <2>1, <2>3, <2>6, <3>1 DEF ToNotice
    <3>2. CASE t = checkTimer
      <4>1. idle <= Overdue
        <5>1. threads[t].left \in Nat
          BY <1>0, <2>1 DEF ThreadState, Idle
        <5> QED
          BY <1>0, <1>4, <2>6, <3>2, <5>1 DEF ToNotice
      <4>2. threads'[t].at \in {"dpms", "close", "forget", "notice"}
        BY <1>0, <1>2, <1>7, <2>2, <2>6, CheckMoves DEF Check, Becomes, Checking, Promising
      <4> QED
        BY <1>3, <2>1, <3>2, <4>1, <4>2 DEF ToNotice
    <3> QED
      BY <3>1, <3>2
  <2> QED
    BY <1>2, <1>3, <2>1, <2>2, <2>4, <2>5, <2>6 DEF Chain, ToWarn, ToCheck
<1>8. CASE SeesDim
  <2>1. /\ main = "poll" /\ wait = 0 /\ ~seen /\ Dimmed /\ profile' = profile /\ idle' = idle
    BY <1>8 DEF SeesDim
  <2>2. /\ lead = NoLead /\ idle <= profile.dim + PollSeconds
        /\ \A t \in Threads : threads[t].kind # "warning"
    BY <1>0, <1>2, <2>1 DEF Seeing
  <2>3. lead' = NoLead
    BY <1>2, <2>2, ThreadSteps DEF Warn
  <2>4. ~Alive(timer) /\ Wanted(Promised)
    BY <1>0, <1>1, <1>3, <2>1 DEF Timers, Alive, Wanted, Promising
  <2>5. PICK t \in Threads : timer' = t /\ Becomes(t, Warning("wait", Delay)) /\ remaining' = Promised
    BY <1>0, <1>8, <2>4, DimMoves
  <2>6. threads'[t] = Warning("wait", Delay) /\ idle + Delay <= Latest
    BY <1>0, <2>2, <2>5 DEF Becomes, Latest
  <2> QED
    BY <1>3, <2>1, <2>3, <2>5, <2>6 DEF Chain, ToWarn, Warning
<1>9. ASSUME UNCHANGED <<profile, idle, threads, timer, checkTimer, remaining>>, main = "poll", seen,
             display' \in {display, "off"}
      PROVE  Chain'
  <2>1. Promising /\ Chain
    BY <1>1, <1>3, <1>9 DEF Kept, Dimmed
  <2>2. lead' = lead
    BY <1>0, <1>2, <1>5, <1>9
  <2> QED
    BY <1>2, <1>3, <1>9, <2>1, <2>2 DEF Chain, ToWarn, ToCheck, ToNotice
<1>10. CASE Main /\ ~SeesDim
  <2>1. CASE SeesNothingNew
    <3>1. UNCHANGED <<profile, idle, display, threads, timer, checkTimer, remaining>> /\ main = "poll"
      BY <2>1 DEF SeesNothingNew
    <3>2. seen
      BY <1>1, <2>1, Zenon DEF SeesNothingNew
    <3> QED
      BY <1>9, <3>1, <3>2
  <2>2. CASE SeesDimEnd \/ ForgetId \/ CancelTimers
    BY <1>1, <2>2 DEF SeesDimEnd, ForgetId, CancelTimers
  <2>3. CASE DropTimers
    BY <1>0, <1>1, <2>3, Zenon DEF DropTimers, Timers, Cancelling
  <2> QED
    BY <1>10, <2>1, <2>2, <2>3 DEF Main
<1>11. CASE Tick
  <2>1. main = "poll" /\ wait > 0 /\ seen
    <3>1. main' = main
      BY <1>11 DEF Tick
    <3>2. seen
      BY <1>1, <1>11, Zenon DEF Tick
    <3> QED
      BY <1>1, <1>11, <3>1, <3>2 DEF Tick
  <2>2. /\ idle' \in {idle, idle + 1}
        /\ UNCHANGED <<profile, display, timer, checkTimer, remaining>>
    BY <1>0, <1>11 DEF Tick
  <2>3. Dimmed
    BY <1>0, <1>1, <2>1, <2>2 DEF Seeing, JustBack
  <2>4. Promising /\ Chain
    BY <1>3, <2>1, <2>2, <2>3 DEF Kept
  <2>5. lead' = IF lead # NoLead /\ idle' > idle THEN lead + 1 ELSE lead
    BY <1>2, <1>11, NoSendInTick
  <2>6. ASSUME NEW t \in Threads
        PROVE  /\ threads'[t].kind = threads[t].kind /\ threads'[t].at = threads[t].at
               /\ threads[t].at \in {"free", "wait"}
               /\ threads[t].at = "wait" => threads[t].left \in Nat /\ threads'[t].left = threads[t].left - 1
    <3> DEFINE Rests == /\ threads'[t].kind = threads[t].kind /\ threads'[t].at = threads[t].at
                        /\ threads[t].at \in {"free", "wait"}
                        /\ threads[t].at = "wait" => /\ threads[t].left \in Nat
                                                     /\ threads'[t].left = threads[t].left - 1
    <3>1. ASSUME threads[t] = Idle, threads'[t] = Idle  PROVE Rests
      BY <3>1 DEF Idle
    <3>2. ASSUME NEW kind, NEW n \in Nat,
                 threads[t] = [kind |-> kind, at |-> "wait", left |-> n + 1],
                 threads'[t] = [kind |-> kind, at |-> "wait", left |-> n]
          PROVE  Rests
      BY <3>2
    <3>3. \/ threads[t] = Idle /\ threads'[t] = Idle
          \/ \E kind \in {"warning", "check"}, n \in Nat :
                /\ threads[t] = [kind |-> kind, at |-> "wait", left |-> n + 1]
                /\ threads'[t] = [kind |-> kind, at |-> "wait", left |-> n]
      BY <1>0, <1>11, TickMoves
    <3> HIDE DEF Rests
    <3>4. Rests
      BY <3>1, <3>2, <3>3
    <3> QED
      BY <3>4 DEF Rests
  <2>7. lead' = NoLead => ToWarn(timer)'
    <3> SUFFICES ASSUME lead' = NoLead  PROVE ToWarn(timer)'
      OBVIOUS
    <3>1. lead = NoLead
      BY <1>0, <2>5 DEF NoLead
    <3>2. ToWarn(timer) /\ timer \in Threads
      BY <2>4, <3>1 DEF Chain
    <3> QED
      BY <1>0, <1>3, <1>4, <2>2, <2>6, <3>2 DEF ToWarn
  <2>8. lead' # NoLead => lead # NoLead /\ idle' - lead' <= Latest'
    <3> SUFFICES ASSUME lead' # NoLead  PROVE lead # NoLead /\ idle' - lead' <= Latest'
      OBVIOUS
    <3>1. lead # NoLead
      BY <2>5
    <3>2. lead \in Nat /\ idle \in Nat /\ Latest \in Nat
      BY <1>0, <1>4, <3>1
    <3>3. idle - lead <= Latest
      BY <2>4, <3>1 DEF Chain
    <3>4. Latest' = Latest
      BY <1>3, <2>2
    <3>5. CASE idle' = idle
      <4>1. lead' = lead
        BY <2>5, <3>2, <3>5
      <4> QED
        BY <3>1, <3>3, <3>4, <3>5, <4>1
    <3>6. CASE idle' = idle + 1
      <4>1. lead' = lead + 1
        BY <2>5, <3>1, <3>2, <3>6
      <4>2. (idle + 1) - (lead + 1) = idle - lead
        BY <3>2
      <4> QED
        BY <3>1, <3>3, <3>4, <3>6, <4>1, <4>2
    <3> QED
      BY <2>2, <3>5, <3>6
  <2>9. lead' # NoLead => threads'[timer].kind # "warning"
    BY <2>4, <2>6, <2>8 DEF Chain, ToCheck
  <2>10. lead' # NoLead /\ display = "on" /\ ~noticed' => checkTimer \in Threads /\ ToNotice(checkTimer)'
    <3> SUFFICES ASSUME lead' # NoLead, display = "on", ~noticed'
                 PROVE  checkTimer \in Threads /\ ToNotice(checkTimer)'
      OBVIOUS
    <3>1. checkTimer \in Threads /\ ToNotice(checkTimer)
      BY <1>2, <2>4, <2>6, <2>8, <2>9 DEF Chain
    <3> QED
      BY <1>0, <1>3, <1>4, <2>2, <2>6, <3>1 DEF ToNotice
  <2> QED
    BY <2>2, <2>4, <2>7, <2>8, <2>9, <2>10 DEF Chain
<1>12. CASE Environment /\ ~Tick
  <2>1. CASE Activity \/ Configure
    <3>1. idle' = 0
      BY <2>1 DEF Activity, Configure
    <3> QED
      BY <1>1, <3>1
  <2>2. CASE TurnOff \/ Hold \/ Dismiss
    <3>1. /\ UNCHANGED <<profile, idle, threads, timer, checkTimer, remaining, main>>
          /\ display' \in {display, "off"}
      BY <2>2 DEF TurnOff, Hold, Dismiss
    <3>2. seen
      BY <1>1, <2>2, Zenon DEF TurnOff, Hold, Dismiss
    <3> QED
      BY <1>1, <1>9, <3>1, <3>2
  <2>3. CASE Stop
    BY <1>1, <2>3 DEF Stop
  <2>4. CASE StartService
    BY <1>0, <1>1, <2>4, Zenon DEF StartService, Timers
  <2> QED
    BY <1>12, <2>1, <2>2, <2>3, <2>4 DEF Environment
<1> QED
  BY <1>6, <1>7, <1>8, <1>10, <1>11, <1>12 DEF NNext

\* In every dim, the poll is in time and the promise of the dim is kept.
LEMMA ChainCorrect == HNSpec => [](Typed /\ Seeing /\ Kept)
<1>1. HNInit => Seeing /\ Kept
  <2> SUFFICES ASSUME HNInit  PROVE Seeing /\ Kept
    OBVIOUS
  <2>1. /\ profile \in Profiles /\ idle = 0 /\ wait = 0 /\ main = "poll" /\ ~seen /\ lead = NoLead
    BY Zenon DEF HNInit, NInit
  <2>2. ~Dimmed
    BY <2>1, ProfileTyped DEF Dimmed
  <2> QED
    BY <2>1, <2>2 DEF Seeing, Kept, Promising
<1>2. Typed /\ Typed' /\ Seeing /\ Kept /\ [HNNext]_<<nvars, history>> => Seeing' /\ Kept'
  <2> SUFFICES ASSUME Typed, Typed', Seeing, Kept, [HNNext]_<<nvars, history>>
               PROVE  Seeing' /\ Kept'
    OBVIOUS
  <2>1. CASE UNCHANGED <<nvars, history>>
    <3>1. UNCHANGED <<profile, idle, held, display, warnings, notice, main, seen, wait, notificationId,
                      timer, checkTimer, remaining, threads, lead, whole, noticed>>
      BY <2>1, Zenon DEF nvars, plasma, desktop, poll, notifier, history
    <3>2. (whole' <=> whole) /\ (seen' <=> seen) /\ (noticed' <=> noticed)
      BY <3>1, Zenon
    <3>3. /\ OffTime' = OffTime /\ Delay' = Delay /\ Promised' = Promised /\ (Dimmed' <=> Dimmed)
          /\ (JustBack' <=> JustBack) /\ Latest' = Latest /\ Overdue' = Overdue
      BY <3>1, SameProfile DEF JustBack, Latest, Overdue
    <3>4. Seeing'
      BY <3>1, <3>2, <3>3 DEF Seeing
    <3>5. Promising' => Promising
      BY <3>1, <3>2, <3>3 DEF Promising
    <3>6. Chain => Chain'
      BY <3>1, <3>2, <3>3 DEF Chain, ToWarn, ToCheck, ToNotice
    <3> QED
      BY <3>4, <3>5, <3>6 DEF Kept
  <2>2. CASE HNNext
    <3>1. Seeing'
      BY <2>2, SeeingStep DEF HNNext
    <3> QED
      BY <2>2, <3>1, ChainStep DEF HNNext
  <2> QED
    BY <2>1, <2>2
<1> QED
  BY <1>1, <1>2, TypedCorrect, PTL DEF HNSpec

\* Far into a dim with a window, the poll has seen it and the chain is on its way.
LEMMA DeepInTheDim ==
  ASSUME Typed, Seeing, Kept, whole, profile.enabled, Promised > 0,
         idle > profile.dim + PollSeconds
  PROVE  Chain
<1>1. Dimmed
  BY DimFacts DEF Dimmed
<1>2. main = "poll"
  BY <1>1, DimFacts DEF Seeing, Timers, Cancelling, Fields
<1>3. seen
  BY <1>1, <1>2, DimFacts DEF Seeing
<1> QED
  BY <1>1, <1>2, <1>3 DEF Kept, Promising

\* A screen that is still on after its moment, the grace and a poll has had its
\* notice, whatever cancels and stops went before: no thread of an earlier dim
\* takes the place of the warning or of its check.
THEOREM HeldOnNoticed == HNSpec => []HeldOnIsNoticed
<1>1. Typed /\ Seeing /\ Kept => HeldOnIsNoticed
  <2> SUFFICES ASSUME Typed, Seeing, Kept, whole, profile.enabled, display = "on", Promised > 0,
                      idle > OffTime + Grace + PollSeconds, ~noticed
               PROVE  FALSE
    BY DEF HeldOnIsNoticed
  <2>1. /\ idle > profile.dim + PollSeconds /\ idle > Latest /\ idle > Overdue
        /\ idle \in Nat /\ Latest \in Nat /\ Overdue \in Nat
    BY DimFacts DEF Latest, Overdue
  <2>2. Chain
    BY <2>1, DeepInTheDim
  <2>3. ASSUME NEW t \in Threads, threads[t].kind \in {"warning", "check"}, threads[t].at = "wait"
        PROVE  threads[t].left \in Nat
    BY <2>3, DimFacts DEF ThreadState, Idle
  <2>4. lead # NoLead
    BY <2>1, <2>2, <2>3 DEF Chain, ToWarn
  <2>5. threads[timer].kind # "warning"
    BY <2>1, <2>2, <2>4 DEF Chain, ToCheck
  <2>6. checkTimer \in Threads /\ ToNotice(checkTimer)
    BY <2>2, <2>4, <2>5 DEF Chain
  <2> QED
    BY <2>1, <2>3, <2>6 DEF ToNotice
<1> QED
  BY <1>1, ChainCorrect, PTL

\* When Plasma turns the screen off in a dim that the service has seen whole, the
\* warning has been up for the promised time less at most one poll, for every
\* profile: with or without a lock, with a window shorter than the warning or not.
THEOREM WarnedSafe == HNSpec => WarnedInTime
<1>1. Typed /\ Seeing /\ Kept /\ [HNNext]_<<nvars, history>>
      => [(TurnOff /\ whole /\ profile.enabled /\ Promised > PollSeconds)
           => lead >= Promised - PollSeconds]_<<nvars, history>>
  <2> SUFFICES ASSUME Typed, Seeing, Kept, TurnOff, whole, profile.enabled, Promised > PollSeconds
               PROVE  lead >= Promised - PollSeconds
    OBVIOUS
  <2>1. idle >= OffTime
    BY TimingsAgree DEF TurnOff, Typed, Fields
  <2>2. /\ idle > profile.dim + PollSeconds /\ Promised > 0
        /\ Latest = OffTime - Promised + PollSeconds /\ idle > Latest
        /\ idle \in Nat /\ Latest \in Nat /\ Promised \in Int
    BY <2>1, DimFacts DEF Latest
  <2>3. Chain
    BY <2>2, DeepInTheDim
  <2>4. lead # NoLead
    <3>1. ASSUME NEW t \in Threads, threads[t].kind = "warning", threads[t].at = "wait"
          PROVE  threads[t].left \in Nat
      BY <3>1, DimFacts DEF ThreadState, Idle
    <3> QED
      BY <2>2, <2>3, <3>1 DEF Chain, ToWarn
  <2>5. lead \in Nat /\ idle - lead <= Latest
    BY <2>3, <2>4 DEF Chain, Seeing
  <2> QED
    BY <2>1, <2>2, <2>5, DimFacts
<1> QED
  BY <1>1, ChainCorrect, PTL DEF HNSpec, WarnedInTime
=============================================================================
