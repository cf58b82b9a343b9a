----------------------------- MODULE MCSuspend -----------------------------
(* SuspendHistory for TLC: the machines of the runs. *)
EXTENDS SuspendHistory

Machine(nics, fallback) == [nics |-> nics, fallback |-> fallback]

OneNic == {Machine(1, "hook")}

\* One machine for each entry point, which is the one to act there.
OneForEach == {Machine(2, "hook"), Machine(0, "hook"), Machine(0, "listener")}

\* And one where dispatcher and listener are at work on the same suspend.
WithBoth == OneForEach \cup {Machine(1, "listener")}
=============================================================================
