------------------------------ MODULE Timings ------------------------------
(* When Plasma turns the screen off, and when notify.py warns of it: the    *)
(* arithmetic of the screen-off warning, in seconds.                        *)
EXTENDS Integers

\* No automatic lock (None in the code).
NoLock == -1

\* Plasma's lock timeout from its two settings; a timeout of zero or less is none.
LockTimeout(autolock, seconds) == IF autolock /\ seconds > 0 THEN seconds ELSE NoLock

ScreenOffTimeout_NoLock(off, lock, whenLocked) == off
\* The idle time at which the screen goes off: a lock that comes first drops the
\* unlocked timeout, and the one for a locked screen counts from the lock.
ScreenOffTimeout(off, lock, whenLocked) ==
    IF lock = NoLock \/ lock >= off THEN off
    ELSE lock + (IF whenLocked < 0 THEN off ELSE whenLocked)

\* From the dim to the warning, and from the warning to the screen-off.
NotifyDelay(off, dim, warning) == IF off - dim - warning > 0 THEN off - dim - warning ELSE 0
Remaining(off, dim, warning) == off - dim - NotifyDelay(off, dim, warning)

=============================================================================
