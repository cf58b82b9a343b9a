---------------------------- MODULE NotifyHistory ----------------------------
(* Notify with what has happened in the present dim, for properties that   *)
(* relate a warning or a notice to what the screen did.                     *)
EXTENDS Notify

VARIABLES lead,      \* seconds since a warning came up in this dim, NoLead before
          whole,     \* the service has run since the dim began
          noticed,   \* a "not turned off" came up in this dim
          overtaken, \* a cancel or a stop came while a thread was past its wait
          back       \* the user came back between the two readings of a check

history == <<lead, whole, noticed, overtaken, back>>

NoLead == -1
PastWait(t) == Alive(t) /\ threads[t].at # "wait"
Quiet == /\ \A t \in Threads : ~Alive(t)
         /\ \A i \in Ids : warnings[i] = 0
BetweenReadings == \E t \in Threads : threads[t].kind = "check" /\ threads[t].at = "dpms"
StepOf(t, kind, from, to) ==
    threads[t].kind = kind /\ threads[t].at = from /\ threads'[t].at = to

Record ==
    /\ lead' = IF idle' < profile'.dim THEN NoLead
               ELSE IF \E t \in Threads : StepOf(t, "warning", "send", "store") THEN 0
               ELSE IF lead # NoLead /\ idle' > idle THEN lead + 1 ELSE lead
    /\ whole' = (main' # "down" /\ (whole \/ idle' < profile'.dim))
    /\ noticed' = (idle' >= profile'.dim /\ (noticed \/ \E t \in Threads : StepOf(t, "check", "notice", "free")))
    /\ LET stopped == (main = "poll" /\ main' = "forget") \/ (main # "down" /\ main' = "down")
           cancelling == main \in {"forget", "cancel", "drop"}
       IN  overtaken' = (~Quiet' /\ (overtaken \/ ((stopped \/ cancelling) /\ \E t \in Threads : PastWait(t))))
    /\ back' = (BetweenReadings' /\ (back \/ (idle' = 0 /\ idle > 0)))

HNInit == NInit /\ lead = NoLead /\ whole = TRUE /\ noticed = FALSE /\ overtaken = FALSE /\ back = FALSE
HNNext == NNext /\ Record
HNSpec == HNInit /\ [][HNNext]_<<nvars, history>>

--------------------------------------------------------------------------

\* Each field of the Notifier and each thread is what its type says.
NTypeOK ==
    /\ profile \in Profiles /\ idle \in 0..MaxIdle
    /\ {held, notice, seen, whole, noticed, overtaken, back} \subseteq BOOLEAN
    /\ display \in {"on", "off"}
    /\ warnings \in [Ids -> Nat]
    /\ main \in {"down", "poll", "forget", "cancel", "drop"}
    /\ wait \in 0..PollSeconds
    /\ notificationId \in Ids \cup {None}
    /\ timer \in Threads \cup {None} /\ checkTimer \in Threads \cup {None, New}
    /\ remaining \in Int
    /\ \A t \in Threads : Alive(t) => threads[t].kind \in {"warning", "check"}

Promised == Remaining(OffTime, profile.dim, OffWarning)

\* When Plasma turns the screen off in a dim the service has seen from its start,
\* and there was a window for it, the warning has been up for the promised time,
\* less at most one poll: the timings agree with what Plasma does, lock included,
\* and no timer of an earlier dim stands in the way (compute_timings, main).
WarnedInTime ==
    [][ (TurnOff /\ whole /\ profile.enabled /\ Promised > PollSeconds)
        => lead >= Promised - PollSeconds ]_<<nvars, history>>

\* Once the poll has seen the user back, no warning stands on the screen, unless a
\* thread was past its wait when cancel_timer or the stop came (cancel_timer).
NoStaleWarning ==
    (main = "poll" /\ ~seen /\ ~Dimmed /\ ~overtaken) => \A i \in Ids : warnings[i] = 0

\* check_screen_off decides that something keeps the screen on only when it is on
\* after its time, or the user came back between its readings, or its timer is one
\* that a cancel missed.
NoticeJustified ==
    [][ (\E t \in Threads : StepOf(t, "check", "dpms", "close"))
        => (display = "on" /\ idle > OffTime) \/ back \/ overtaken ]_<<nvars, history>>

\* A screen that is still on after the promised moment, the grace and a poll has
\* had its notice: the check is neither lost nor cancelled by anything but the
\* user (show_warning, check_screen_off).
HeldOnIsNoticed ==
    ( /\ whole /\ profile.enabled /\ display = "on"
      /\ Promised > 0
      /\ idle > OffTime + Grace + PollSeconds ) => noticed
=============================================================================
