------------------------------ MODULE MCNotify ------------------------------
(* NotifyHistory for TLC: the settings of Plasma, and the threads alike.    *)
EXTENDS NotifyHistory, TLC

Setting(dim, off, autolock, lock, whenLocked, enabled) ==
    [dim |-> dim, off |-> off, autolock |-> autolock, lock |-> lock,
     whenLocked |-> whenLocked, enabled |-> enabled]

\* No lock and a delay before the warning; a lock that decides, with its own timeout;
\* a window shorter than the warning; no window; no screen-off.
Settings == { Setting(3, 8, FALSE, 5, 1, TRUE), Setting(3, 9, TRUE, 5, 2, TRUE),
              Setting(3, 5, TRUE, 5, -1, TRUE), Setting(4, 9, TRUE, 3, 0, TRUE),
              Setting(3, 8, TRUE, 0, 1, FALSE) }

AnyThread == Permutations(Threads)
=============================================================================
