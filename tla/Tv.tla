-------------------------------- MODULE Tv --------------------------------
(***************************************************************************)
(* The LG television as the program meets it: what each network command    *)
(* does to it and what it answers, what a magic packet does, and what it   *)
(* does on its own or because somebody picked up the remote.  The real     *)
(* one is hardware; the repository's own account of it is the virtual      *)
(* webOS TV of the test suite, and that is what this module translates.    *)
(***************************************************************************)
EXTENDS Integers

CONSTANTS
    Inputs,     \* the HDMI inputs of the TV, as webOS app ids
    Remote      \* whether somebody uses the TV's remote control

ASSUME InputsAssumption == "" \notin Inputs
ASSUME RemoteAssumption == Remote \in BOOLEAN

VARIABLE tv

AwakeStates == {"Active", "Screen Off", "Screen Saver"}
StandbyStates == {"Active Standby", "Suspend"}
OfflineStates == {"Suspend"}

(* power: get_power_state's "state".  processing: that reply carries the
   "processing" key, the TV is mid-transition.  app: the foreground input.
   ready: the app layer has caught up with the last wake. *)
Television == [power: AwakeStates \cup StandbyStates, processing: BOOLEAN,
               app: Inputs, ready: BOOLEAN]

Awake(t) == t.power \in AwakeStates
Reachable(t) == t.processing \/ t.power \notin OfflineStates

-----------------------------------------------------------------------------
(* What a command does to a TV that receives it, and the code it answers:
   0, 1 for an error, 102 for turn_screen_on refused with -102. *)

Done(code, after) == [code |-> code, after |-> after]

Settled(t, power) == [t EXCEPT !.power = power, !.processing = FALSE]

\* power_off asks for the power state, then sends turnOff to an awake TV and
\* drops the TV's reply unread: 0 only says that the request was sent.
DoPowerOff(t) ==
    {Done(0, after) : after \in IF Awake(t) THEN {t, Settled(t, "Active Standby")} ELSE {t}}

DoScreenOff(t) == IF Awake(t) THEN Done(0, Settled(t, "Screen Off")) ELSE Done(1, t)

DoScreenOn(t) == IF t.power \in {"Screen Off", "Screen Saver"}
                 THEN Done(0, Settled(t, "Active"))
                 ELSE Done(102, t)

DoSetInput(t, input) == IF Awake(t) /\ t.ready /\ input \in Inputs
                        THEN Done(0, [t EXCEPT !.app = input])
                        ELSE Done(1, t)

\* A TV in standby has been seen to answer with no foreground app at all.
CurrentApps(t) == IF Awake(t) THEN {t.app} ELSE {t.app, ""}

\* The magic packet starts a wake unless one is under way.
ReceiveWol(t) == IF t.power \in StandbyStates THEN [t EXCEPT !.processing = TRUE] ELSE t

-----------------------------------------------------------------------------
(* What the TV does by itself. *)

TvInit == tv \in [power: AwakeStates \cup StandbyStates, processing: {FALSE},
                  app: Inputs, ready: {TRUE}]

\* The wake started by a packet or by the remote ends: the picture is there,
\* the app layer still lags.
WakeDone ==
    /\ tv.power \in StandbyStates /\ tv.processing
    /\ tv' = [Settled(tv, "Active") EXCEPT !.ready = FALSE]

AppLayerReady == ~tv.ready /\ tv' = [tv EXCEPT !.ready = TRUE]

ScreenSaver == tv.power = "Active" /\ tv' = Settled(tv, "Screen Saver")

\* The TV's own timer, some 13 minutes after the screen went off.
DeepStandby == tv.power = "Screen Off" /\ tv' = Settled(tv, "Suspend")

\* An awake TV reports a transition of its own, and the end of it.
AwakeTransition == Awake(tv) /\ tv' = [tv EXCEPT !.processing = ~tv.processing]

RemoteOn == Remote /\ tv.power \in StandbyStates /\ ~tv.processing
            /\ tv' = [tv EXCEPT !.processing = TRUE]

RemoteOff == Remote /\ Awake(tv) /\ tv' = Settled(tv, "Active Standby")

RemoteWatch == Remote /\ tv.power \in {"Screen Off", "Screen Saver"}
               /\ tv' = Settled(tv, "Active")

RemoteInput == Remote /\ tv.power = "Active"
               /\ \E input \in Inputs \ {tv.app} : tv' = [tv EXCEPT !.app = input]

TvStep == \/ WakeDone \/ AppLayerReady
          \/ ScreenSaver \/ DeepStandby \/ AwakeTransition
          \/ RemoteOn \/ RemoteOff \/ RemoteWatch \/ RemoteInput

TvTypeOK == tv \in Television
=============================================================================
