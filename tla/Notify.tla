------------------------------- MODULE Notify -------------------------------
(* The screen-off warning (notify.py): the main thread polls whether Plasma *)
(* has dimmed the screen, a timer thread shows the warning, another one     *)
(* checks later that the screen did go off.  They share the fields of one   *)
(* Notifier without a lock.  Time is discrete; what is due now is done      *)
(* before time passes, in any order.                                        *)
EXTENDS Timings, FiniteSets

CONSTANTS Profiles,     \* settings of Plasma: [dim, off, autolock, lock, whenLocked, enabled]
          OffWarning,   \* OFF_WARNING_SECONDS
          Grace,        \* SCREEN_OFF_GRACE_SECONDS
          PollSeconds,  \* NOTIFY_POLL_SECONDS
          Threads, Ids, \* timer threads; numbers the desktop gives to notifications
          None, New     \* no object; a timer that is made but not started

ASSUME WarningAssumption == {OffWarning, Grace, PollSeconds} \subseteq Nat \ {0}
\* A poll that sleeps through a whole idle period cannot see the dim end.
ASSUME ProfileAssumption ==
    \A p \in Profiles : /\ {p.dim, p.off} \subseteq Nat /\ {p.lock, p.whenLocked} \subseteq Int
                        /\ p.dim > PollSeconds
                        /\ {p.autolock, p.enabled} \subseteq BOOLEAN
ASSUME NoneAssumption == None \notin Threads \cup Ids /\ New \notin Threads \cup {None}

VARIABLES
    profile, idle, held, display,   \* Plasma: its settings, the seconds without input,
                                    \* whether an application keeps the screen on, DPMS
    warnings, notice,   \* the desktop: seconds left of each warning, a "not turned off"
    main, seen, wait,   \* the main thread: its step, the last state it saw, time to the poll
    notificationId, timer, checkTimer, remaining,   \* the Notifier
    threads             \* what each timer thread is and does

plasma == <<profile, idle, held, display>>
desktop == <<warnings, notice>>
notifier == <<notificationId, timer, checkTimer, remaining>>
poll == <<main, seen, wait>>
nvars == <<plasma, desktop, poll, notifier, threads>>

--------------------------------------------------------------------------
(* Plasma.                                                                *)

Dimmed == idle >= profile.dim

Lock == LockTimeout(profile.autolock, profile.lock)
Locks == Lock # NoLock /\ Lock < profile.off

\* Its timer is swapped when the lock screen comes.
OffDue ==
    IF Locks /\ idle >= Lock
    THEN idle - Lock >= (IF profile.whenLocked < 0 THEN profile.off ELSE profile.whenLocked)
    ELSE idle >= profile.off

OffTime == ScreenOffTimeout(profile.off, Lock, profile.whenLocked)

Activity ==
    /\ idle > 0
    /\ idle' = 0 /\ held' = FALSE /\ display' = "on"
    /\ UNCHANGED <<profile, desktop, poll, notifier, threads>>

TurnOff ==
    /\ OffDue /\ ~held /\ display = "on"
    /\ display' = "off"
    /\ UNCHANGED <<profile, idle, held, desktop, poll, notifier, threads>>

\* An application begins to hold the screen on after the dim, or lets go.
Hold ==
    /\ Dimmed /\ display = "on"
    /\ held' = ~held
    /\ UNCHANGED <<profile, idle, display, desktop, poll, notifier, threads>>

\* Somebody at the machine changes the settings or the power source.
Configure ==
    /\ idle = 0
    /\ profile' \in Profiles
    /\ UNCHANGED <<idle, held, display, desktop, poll, notifier, threads>>

Dismiss ==
    /\ idle = 0 /\ notice
    /\ notice' = FALSE
    /\ UNCHANGED <<plasma, warnings, poll, notifier, threads>>

--------------------------------------------------------------------------
(* Threads and notifications.                                             *)

Idle == [kind |-> "none", at |-> "free", left |-> 0]
Alive(t) == t \in Threads /\ threads[t].at # "free"
Sleeper(kind, seconds) == [kind |-> kind, at |-> "wait", left |-> seconds]
FreeThreads == {t \in Threads : ~Alive(t) /\ t \notin {timer, checkTimer}}
Running(t) == Alive(t) /\ (threads[t].at # "wait" \/ threads[t].left = 0)

At(t, kind, label) ==
    /\ threads[t].kind = kind /\ threads[t].at = label
    /\ label = "wait" => threads[t].left = 0
Goto(t, label) ==
    threads' = [threads EXCEPT ![t] = IF label = "free" THEN Idle ELSE [@ EXCEPT !.at = label]]

\* Timer.cancel() stops a timer that still waits, not one that has fired.
Cancelled(refs) ==
    [t \in Threads |-> IF t \in refs /\ threads[t].at = "wait" THEN Idle ELSE threads[t]]

Closed(id) == [i \in Ids |-> IF i = id THEN 0 ELSE warnings[i]]

--------------------------------------------------------------------------
(* show_warning, on its own thread.                                       *)

Recheck(t) ==
    /\ At(t, "warning", "wait")
    /\ Goto(t, IF Dimmed THEN "send" ELSE "free")
    /\ UNCHANGED <<plasma, desktop, poll, notifier>>

\* Ids bounds how many warnings can stand on the screen.
\* The number comes back with the answer of the desktop; the field is set after that.
SendWarning(t) ==
    /\ At(t, "warning", "send")
    /\ \E i \in Ids :
          /\ warnings[i] = 0 /\ i # notificationId
          /\ warnings' = [warnings EXCEPT ![i] = remaining]
          /\ threads' = [threads EXCEPT ![t] = [kind |-> "warning", at |-> "store", left |-> i]]
    /\ UNCHANGED <<plasma, notice, poll, notifier>>

StoreId(t) ==
    /\ At(t, "warning", "store")
    /\ notificationId' = threads[t].left
    /\ threads' = [threads EXCEPT ![t] = [kind |-> "warning", at |-> "create", left |-> 0]]
    /\ UNCHANGED <<plasma, desktop, poll, timer, checkTimer, remaining>>

CreateCheck(t) ==
    /\ At(t, "warning", "create")
    /\ checkTimer' = New
    /\ Goto(t, "start")
    /\ UNCHANGED <<plasma, desktop, poll, notificationId, timer, remaining>>

CheckAfter_OffTime == OffTime + Grace
CheckAfter == remaining + Grace

\* self.check_timer is read again: it may be None by now, which ends this thread.
StartCheck(t) ==
    /\ At(t, "warning", "start")
    /\ IF checkTimer # New
       THEN Goto(t, "free") /\ UNCHANGED checkTimer
       ELSE \E c \in FreeThreads :
               /\ checkTimer' = c
               /\ threads' = [threads EXCEPT ![t] = Idle, ![c] = Sleeper("check", CheckAfter)]
    /\ UNCHANGED <<plasma, desktop, poll, notificationId, timer, remaining>>

(* check_screen_off, on its own thread: two readings, then the notice.    *)

CheckDimmed(t) ==
    /\ At(t, "check", "wait")
    /\ Goto(t, IF Dimmed THEN "dpms" ELSE "free")
    /\ UNCHANGED <<plasma, desktop, poll, notifier>>

CheckDpms(t) ==
    /\ At(t, "check", "dpms")
    /\ Goto(t, IF display = "on" THEN "close" ELSE "free")
    /\ UNCHANGED <<plasma, desktop, poll, notifier>>

CloseWarning(t) ==
    /\ At(t, "check", "close")
    /\ warnings' = Closed(notificationId)
    /\ Goto(t, "forget")
    /\ UNCHANGED <<plasma, notice, poll, notifier>>

ForgetWarning(t) ==
    /\ At(t, "check", "forget")
    /\ notificationId' = None
    /\ Goto(t, "notice")
    /\ UNCHANGED <<plasma, desktop, poll, timer, checkTimer, remaining>>

SendNotice(t) ==
    /\ At(t, "check", "notice")
    /\ notice' = TRUE
    /\ Goto(t, "free")
    /\ UNCHANGED <<plasma, warnings, poll, notifier>>

--------------------------------------------------------------------------
(* The main thread.                                                       *)

Sleep == main' = "poll" /\ wait' = PollSeconds

Wanted_AnyWindow(seconds) == profile.enabled
Wanted(seconds) == profile.enabled /\ seconds > 0

\* compute_timings, at the dim; then the timer, where there is a window to warn in.
SeesDim ==
    /\ main = "poll" /\ wait = 0 /\ ~seen /\ Dimmed
    /\ seen' = TRUE
    /\ Sleep
    /\ IF Alive(timer) THEN UNCHANGED <<notifier, threads>>
       ELSE /\ remaining' = Remaining(OffTime, profile.dim, OffWarning)
            /\ IF ~Wanted(remaining') THEN UNCHANGED <<timer, threads>>
               ELSE \E t \in FreeThreads :
                       /\ timer' = t
                       /\ threads' = [threads EXCEPT ![t] =
                            Sleeper("warning", NotifyDelay(OffTime, profile.dim, OffWarning))]
            /\ UNCHANGED <<notificationId, checkTimer>>
    /\ UNCHANGED <<plasma, desktop>>

SeesNothingNew ==
    /\ main = "poll" /\ wait = 0 /\ seen = Dimmed
    /\ Sleep
    /\ UNCHANGED <<plasma, desktop, seen, notifier, threads>>

SeesDimEnd_ForgetsFirst ==
    /\ main = "poll" /\ wait = 0 /\ seen /\ ~Dimmed
    /\ seen' = FALSE
    /\ notificationId' = None
    /\ main' = "cancel"
    /\ UNCHANGED <<plasma, desktop, wait, timer, checkTimer, remaining, threads>>
\* cancel_timer, up to the call that closes the notification.
SeesDimEnd ==
    /\ main = "poll" /\ wait = 0 /\ seen /\ ~Dimmed
    /\ seen' = FALSE
    /\ warnings' = Closed(notificationId)
    /\ main' = "forget"
    /\ UNCHANGED <<plasma, notice, wait, notifier, threads>>

ForgetId ==
    /\ main = "forget"
    /\ notificationId' = None
    /\ main' = "cancel"
    /\ UNCHANGED <<plasma, desktop, seen, wait, timer, checkTimer, remaining, threads>>

CancelTimers_KeepsCheck ==
    /\ main = "cancel"
    /\ threads' = Cancelled({timer})
    /\ main' = "drop"
    /\ UNCHANGED <<plasma, desktop, seen, wait, notifier>>
CancelTimers ==
    /\ main = "cancel"
    /\ threads' = Cancelled({timer, checkTimer})
    /\ main' = "drop"
    /\ UNCHANGED <<plasma, desktop, seen, wait, notifier>>

DropTimers ==
    /\ main = "drop"
    /\ timer' = None /\ checkTimer' = None
    /\ Sleep
    /\ UNCHANGED <<plasma, desktop, seen, notificationId, remaining, threads>>

\* handle_signal: the notification is closed, the rest dies with the process.
Stop ==
    /\ main # "down"
    /\ warnings' = Closed(notificationId)
    /\ main' = "down" /\ seen' = FALSE /\ wait' = 0
    /\ notificationId' = None /\ timer' = None /\ checkTimer' = None /\ remaining' = 0
    /\ threads' = [t \in Threads |-> Idle]
    /\ UNCHANGED <<plasma, notice>>

StartService ==
    /\ main = "down"
    /\ main' = "poll"
    /\ remaining' = Remaining(OffTime, profile.dim, OffWarning)
    /\ UNCHANGED <<plasma, desktop, seen, wait, notificationId, timer, checkTimer, threads>>

--------------------------------------------------------------------------

MaxIdle == 1 + Grace + PollSeconds + (IF OffTime > profile.dim THEN OffTime ELSE profile.dim)

Less(n) == IF n > 0 THEN n - 1 ELSE 0

\* Nothing is due.  Beyond MaxIdle nothing changes with the idle time (a bound).
Tick ==
    /\ ~\E t \in Threads : Running(t)
    /\ main = "down" \/ (main = "poll" /\ wait > 0)
    /\ ~(OffDue /\ ~held /\ display = "on")
    /\ idle' = IF idle < MaxIdle THEN idle + 1 ELSE idle
    /\ wait' = Less(wait)
    /\ threads' = [t \in Threads |-> [threads[t] EXCEPT !.left = Less(@)]]
    /\ warnings' = [i \in Ids |-> Less(warnings[i])]
    /\ UNCHANGED <<profile, held, display, notice, main, seen, notifier>>

NInit ==
    /\ profile \in Profiles /\ idle = 0 /\ held = FALSE /\ display = "on"
    /\ warnings = [i \in Ids |-> 0] /\ notice = FALSE
    /\ main = "poll" /\ wait = 0 /\ seen = FALSE
    /\ notificationId = None /\ timer = None /\ checkTimer = None
    /\ remaining = Remaining(OffTime, profile.dim, OffWarning)
    /\ threads = [t \in Threads |-> Idle]

Warn(t) == Recheck(t) \/ SendWarning(t) \/ StoreId(t) \/ CreateCheck(t) \/ StartCheck(t)
Check(t) == CheckDimmed(t) \/ CheckDpms(t) \/ CloseWarning(t) \/ ForgetWarning(t) \/ SendNotice(t)
Main == SeesDim \/ SeesNothingNew \/ SeesDimEnd \/ ForgetId \/ CancelTimers \/ DropTimers
Environment == Activity \/ TurnOff \/ Hold \/ Configure \/ Dismiss \/ Stop \/ StartService \/ Tick

NNext == Main \/ Environment \/ \E t \in Threads : Warn(t) \/ Check(t)
NSpec == NInit /\ [][NNext]_nvars
=============================================================================
