----------------------------- MODULE CliHistory -----------------------------
(***************************************************************************)
(* Cli with a history variable: what has been true of the TV since each    *)
(* running invocation began.  It restricts nothing; the properties that    *)
(* relate a decision to what the TV really did are stated with it.         *)
(***************************************************************************)
EXTENDS Cli

VARIABLE seen

hvars == <<vars, seen>>

(* Since the run began (an ON begins when it is past its lock): the TV was
   asleep, its picture was on, it went from awake to asleep, it showed our
   input; the last poll failed although the TV was awake; two in a row did;
   an OFF left the tv-off flag, after the clearing if this is an ON. *)
Glimpse == [slept: BOOLEAN, lit: BOOLEAN, fell: BOOLEAN, ours: BOOLEAN,
            dark: BOOLEAN, blind: BOOLEAN, hinted: BOOLEAN]
Nothing == [slept |-> FALSE, lit |-> FALSE, fell |-> FALSE, ours |-> FALSE,
            dark |-> FALSE, blind |-> FALSE, hinted |-> FALSE]

Missed(p) == misses'[p] = misses[p] + 1

Update(p) ==
    IF pc'[p] \in {"idle", "exited", "lock"} THEN Nothing
    ELSE [slept |-> seen[p].slept \/ ~Awake(tv'),
          lit   |-> seen[p].lit \/ tv'.power = "Active",
          fell  |-> seen[p].fell \/ (Running(p) /\ Awake(tv) /\ ~Awake(tv')),
          ours  |-> seen[p].ours \/ tv'.app = HdmiInput,
          dark  |-> IF attempt'[p] = attempt[p] THEN seen[p].dark
                    ELSE Missed(p) /\ Awake(tv),
          blind |-> seen[p].blind \/ (Missed(p) /\ Awake(tv) /\ seen[p].dark),
          hinted |-> (pc[p] # "clear" /\ seen[p].hinted) \/ (~tvOff /\ tvOff')]

HInit == Init /\ seen = [p \in Proc |-> Nothing]
HNext == Next /\ seen' = [p \in Proc |-> Update(p)]
HSpec == HInit /\ [][HNext]_hvars /\ Fairness

-----------------------------------------------------------------------------
\* On a shared TV an ON switches the input only if the TV was asleep at some
\* time since the ON began, or two polls in a row of an awake TV failed
\* (woke_from_standby, cli.py's reading of a TV that was down).
InputTakenOnlyFromSleeper ==
    \A p \in On : Shared /\ pc[p] = "input" => seen[p].slept \/ seen[p].blind

\* An ON that ran and ends with 0 leaves a TV whose picture was on during the
\* run, unless the TV went to sleep under it: accepting -102 as success is
\* sound because the poll came first.
OnSuccessMeansLit ==
    [][\A p \in On :
        Running(p) /\ pc[p] # "lock" /\ exit'[p] = 0
        => \/ seen[p].lit \/ tv'.power = "Active"
           \/ seen[p].fell \/ (Awake(tv) /\ ~Awake(tv'))]_hvars

\* An OFF or SCREEN_OFF gets past the guard of a shared TV only if the TV has
\* shown our input since the command began, as long as the TV answers the
\* query whenever it can be reached.
OffOnlyOurPicture ==
    \A p \in Off \cup ScreenOff :
        Shared /\ FailCodes = {2} /\ pc[p] \in {"powerOff", "screenOff"} => seen[p].ours

\* A tv-off flag that stands while a root ON drives the TV was left by an OFF
\* that came after this ON's clearing: no ON works on under the hint of an
\* earlier OFF, and none ends with it in place.
NoOldHint ==
    \A p \in On \cap Root :
        tvOff /\ pc[p] \in {"wol", "poll", "screenOn", "input", "hung"} => seen[p].hinted
=============================================================================
