---------------------------- MODULE AdminProofs ----------------------------
(* Theorems about authorize, wol and log, for every set of installed        *)
(* services and callers.                                                    *)
EXTENDS Admin, TLAPS

\* Which command is at which step, and that a result stands only between commands.
Control ==
    /\ rc # "none" => pc = "idle"
    /\ pc \in {"status", "unlink", "prompt"} => arg = "authorize"
    /\ pc \in {"modify", "down", "up"} => arg \in {"enable", "disable"}
    /\ pc = "show" => arg = "status"
    /\ pc \in {"write", "is_active", "restart"} => arg \in {"on", "off"}

KeyInv == pc = "unlink" /\ key = "good" => raced = TRUE

\* What the profile says once it is written, and what reached the card.
CardInv ==
    /\ pc \in {"down", "up"} => profile = Flags(arg)
    /\ pushed = TRUE /\ profile # "default" => card = profile
    /\ rc = "enabled" => profile = "magic"
    /\ rc = "disabled" /\ answered = TRUE => profile = "none"
    /\ rc = "ok" /\ arg \in {"enable", "disable"} => link = TRUE /\ pushed = TRUE /\ profile = Flags(arg)

Looked(n) == Order[n] \notin unasked => Heeds(Order[n])

\* The services that log has been at heed the setting, whatever they do since.
LogInv ==
    /\ pc \in {"is_active", "restart"} => logging = arg /\ \A n \in 1..next - 1 : Looked(n)
    /\ rc = "ok" /\ arg \in {"on", "off"} => logging = arg /\ \A n \in 1..Len(Order) : Looked(n)

\* ATypeOK in two parts: what log goes through, and the rest.
LogTyped ==
    /\ logging \in {"on", "off"} /\ reads \in [Services -> {"on", "off", "down"}]
    /\ next \in 1..Len(Order) + 1 /\ failed \in SUBSET Services /\ unasked \in SUBSET Services
    /\ pc = "restart" => next <= Len(Order)
OthersTyped ==
    /\ pc \in {"idle", "status", "unlink", "prompt", "modify", "down", "up", "show",
               "write", "is_active", "restart"}
    /\ arg \in {"none", "authorize", "enable", "disable", "status", "on", "off"}
    /\ rc \in {"none", "ok", "refused", "cut off", "enabled", "disabled", "left to the card"}
    /\ key \in {"none", "stale", "good"} /\ raced \in BOOLEAN
    /\ profile \in {"default", "none", "magic"} /\ card \in {"none", "magic"}
    /\ link \in BOOLEAN /\ pushed \in BOOLEAN /\ answered \in BOOLEAN
    /\ caller \in Callers

AInv == LogTyped /\ OthersTyped /\ Control /\ KeyInv /\ CardInv /\ LogInv

\* The loop over the services comes to each of them.
LEMMA OrderFacts == Len(Order) = 3 /\ \A s \in Services : \E n \in 1..Len(Order) : Order[n] = s
BY DEF Order, Services

\* And to nothing else.
LEMMA OrderTyped == \A n \in 1..Len(Order) : Order[n] \in Services
BY DEF Order, Services

\* The invariant holds at the beginning.
LEMMA Initially == AInit => AInv
<1> SUFFICES ASSUME AInit PROVE AInv
  OBVIOUS
<1> USE DEF AInit
<1>0. LogTyped
  BY OrderFacts, InstalledAssumption DEF LogTyped
<1>1. OthersTyped
  BY DEF OthersTyped
<1>2. Control
  BY DEF Control
<1>3. KeyInv
  BY DEF KeyInv
<1>4. CardInv
  BY DEF CardInv
<1>5. LogInv
  BY DEF LogInv
<1> QED
  BY <1>0, <1>1, <1>2, <1>3, <1>4, <1>5 DEF AInv

\* authorize, and whatever pairs or forgets meanwhile.
LEMMA AuthorizeStep == AInv /\ Authorize => AInv'
<1> SUFFICES ASSUME AInv, Authorize PROVE AInv'
  OBVIOUS
<1> USE DEF Authorize, BeginAuthorize, Paired, Denied, Unreached, Unlink, Retry, TvChanges,
            AfterFailure, Begin, Goto, End, wol, log, pairing
<1>0. LogTyped'
  BY OrderFacts DEF AInv, LogTyped
<1>1. OthersTyped'
  BY DEF AInv, OthersTyped
<1>2. Control'
  BY DEF AInv, Control
<1>3. KeyInv'
  BY DEF AInv, KeyInv
<1>4. CardInv'
  BY DEF AInv, CardInv, Control
<1>5. LogInv'
  BY DEF AInv, LogInv, Control, Looked, Heeds
<1> QED
  BY <1>0, <1>1, <1>2, <1>3, <1>4, <1>5 DEF AInv

\* wol, and what NetworkManager and its users do.
LEMMA WolStep == AInv /\ Wol => AInv'
<1> SUFFICES ASSUME AInv, Wol PROVE AInv'
  OBVIOUS
<1> USE DEF Wol, BeginWol, Modify, Down, Up, Show, Reconnect, Disconnect, EditProfile, Activated,
            Begin, Goto, End, wol, log, pairing
<1>0. LogTyped'
  BY DEF AInv, LogTyped, Said
<1>1. OthersTyped'
  <2>1. CASE \E what \in {"enable", "disable", "status"} : BeginWol(what)
    BY <2>1, Zenon DEF AInv, OthersTyped
  <2>2. CASE Modify \/ EditProfile
    BY <2>2 DEF AInv, OthersTyped, Flags
  <2>3. CASE Show
    BY <2>3 DEF AInv, OthersTyped, Said
  <2>4. CASE Down \/ Disconnect
    BY <2>4 DEF AInv, OthersTyped
  <2>5. CASE Up \/ Reconnect
    BY <2>5 DEF AInv, OthersTyped
  <2> QED
    BY <2>1, <2>2, <2>3, <2>4, <2>5
<1>2. Control'
  BY DEF AInv, Control, Said
<1>3. KeyInv'
  BY DEF AInv, KeyInv
<1>4. CardInv'
  BY DEF AInv, CardInv, Control, OthersTyped, Flags, Said
<1>5. LogInv'
  BY DEF AInv, LogInv, Control, Looked, Heeds, Said
<1> QED
  BY <1>0, <1>1, <1>2, <1>3, <1>4, <1>5 DEF AInv

\* log touches neither the key nor the card.
LEMMA LogKeepsOthers == OthersTyped /\ Log => OthersTyped'
<1> SUFFICES ASSUME OthersTyped, Log PROVE OthersTyped'
  OBVIOUS
<1>1. /\ pc' \in {pc, "idle", "write", "is_active", "restart"}
      /\ arg' \in {arg, "on", "off"} /\ rc' \in {rc, "none", "ok"}
      /\ caller' \in {caller} \cup Callers
  BY DEF Log, BeginLog, Write, IsActive, Restart, Reported, StartStop, EditConf,
         Begin, Goto, End, wol, log, pairing
<1>2. UNCHANGED <<key, raced, profile, card, link, pushed, answered>>
  BY DEF Log, BeginLog, Write, IsActive, Restart, Reported, StartStop, EditConf, wol, log, pairing
<1>3. /\ key' \in {"none", "stale", "good"} /\ raced' \in BOOLEAN
      /\ profile' \in {"default", "none", "magic"} /\ card' \in {"none", "magic"}
      /\ link' \in BOOLEAN /\ pushed' \in BOOLEAN /\ answered' \in BOOLEAN
  BY <1>2 DEF OthersTyped
<1>4. /\ pc' \in {"idle", "status", "unlink", "prompt", "modify", "down", "up", "show",
                 "write", "is_active", "restart"}
      /\ arg' \in {"none", "authorize", "enable", "disable", "status", "on", "off"}
  BY <1>1 DEF OthersTyped
<1>5. /\ rc' \in {"none", "ok", "refused", "cut off", "enabled", "disabled", "left to the card"}
      /\ caller' \in Callers
  BY <1>1 DEF OthersTyped
<1> QED
  BY <1>3, <1>4, <1>5 DEF OthersTyped

\* log, and the services that start and stop meanwhile.
LEMMA LogStep == AInv /\ Log => AInv'
<1> SUFFICES ASSUME AInv, Log PROVE AInv'
  OBVIOUS
<1> USE OrderFacts, OrderTyped, InstalledAssumption
<1> USE DEF Log, BeginLog, Write, IsActive, Restart, Reported, StartStop, EditConf,
            Begin, Goto, End, Failed, wol, log, pairing
<1>0. LogTyped'
  BY DEF AInv, LogTyped, Control
<1>1. OthersTyped'
  BY LogKeepsOthers DEF AInv
<1>2. Control'
  BY DEF AInv, Control
<1>3. KeyInv'
  BY DEF AInv, KeyInv
<1>4. CardInv'
  BY DEF AInv, CardInv, Control
<1>5. LogInv'
  <2> USE DEF AInv, LogInv, Looked, Heeds
  <2>1. CASE (\E what \in {"on", "off"} : BeginLog(what)) \/ Write \/ EditConf
    BY <2>1
  <2>2. CASE IsActive
    BY <2>2 DEF LogTyped, Control
  <2>3. CASE Restart
    BY <2>3 DEF LogTyped, Control
  <2>4. CASE Reported
    BY <2>4 DEF LogTyped, Control
  <2>5. CASE StartStop
    BY <2>5 DEF LogTyped, Control
  <2> QED
    BY <2>1, <2>2, <2>3, <2>4, <2>5
<1> QED
  BY <1>0, <1>1, <1>2, <1>3, <1>4, <1>5 DEF AInv

\* A command that is cut off, and a step that changes nothing.
LEMMA OtherStep == AInv /\ (CutOff \/ UNCHANGED avars) => AInv'
<1> SUFFICES ASSUME AInv, CutOff \/ UNCHANGED avars PROVE AInv'
  OBVIOUS
<1> USE DEF End, avars, wol, log, pairing
<1>0. LogTyped'
  <2>1. CASE CutOff
    <3>1. next' = 1 /\ pc' = "idle" /\ UNCHANGED <<logging, reads, failed, unasked>>
      BY <2>1 DEF CutOff
    <3> QED
      BY <3>1, OrderFacts DEF AInv, LogTyped
  <2>2. CASE UNCHANGED avars
    BY <2>2 DEF AInv, LogTyped
  <2> QED
    BY <2>1, <2>2
<1>1. OthersTyped'
  BY DEF CutOff, AInv, OthersTyped
<1>2. Control'
  BY DEF CutOff, AInv, Control
<1>3. KeyInv'
  BY DEF CutOff, AInv, KeyInv
<1>4. CardInv'
  BY DEF CutOff, AInv, CardInv
<1>5. LogInv'
  BY DEF CutOff, AInv, LogInv, Looked, Heeds
<1> QED
  BY <1>0, <1>1, <1>2, <1>3, <1>4, <1>5 DEF AInv

\* The invariant of all three commands holds throughout.
THEOREM AdminInvariant == ASpec => []AInv
<1>1. AInit => AInv
  BY Initially
<1>2. AInv /\ [ANext]_avars => AInv'
  BY AuthorizeStep, WolStep, LogStep, OtherStep DEF ANext
<1> QED
  BY <1>1, <1>2, PTL DEF ASpec

\* Every reachable state is well typed, for every installation and caller.
THEOREM AdminTyped == ASpec => []ATypeOK
<1>1. AInv => ATypeOK
  BY DEF AInv, ATypeOK, LogTyped, OthersTyped
<1> QED
  BY <1>1, AdminInvariant, PTL

\* authorize throws away no key that the TV accepted when it asked.
THEOREM KeySafe == ASpec => GoodKeyKept
<1>1. AInv /\ [ANext]_avars => (key = "good" /\ key' = "none" => raced)
  <2> SUFFICES ASSUME AInv, [ANext]_avars, key = "good", key' = "none" PROVE raced
    OBVIOUS
  <2>1. CASE Authorize
    BY <2>1 DEF Authorize, BeginAuthorize, Paired, Denied, Unreached, Unlink, Retry, TvChanges,
                pairing, AInv, KeyInv
  <2>2. CASE Wol \/ Log \/ CutOff \/ UNCHANGED avars
    BY <2>2 DEF Wol, BeginWol, Modify, Down, Up, Show, Reconnect, Disconnect, EditProfile,
                Log, BeginLog, Write, IsActive, Restart, Reported, StartStop, EditConf,
                CutOff, avars, pairing
  <2> QED
    BY <2>1, <2>2 DEF ANext
<1>2. AInv /\ [ANext]_avars => [key = "good" /\ key' = "none" => raced]_avars
  BY <1>1
<1> QED
  BY <1>2, AdminInvariant, PTL DEF ASpec, GoodKeyKept

\* A wol that ended well has set the card.
THEOREM CardSafe == ASpec => []CardAsAsked
<1>1. AInv => CardAsAsked
  BY DEF AInv, CardInv, CardAsAsked, Flags
<1> QED
  BY <1>1, AdminInvariant, PTL

\* What NetworkManager answers wol --status of a profile that has reached the card is
\* true of the card; and "enabled" is true of it whatever fails.
THEOREM StatusSafe == ASpec => []StatusAnswered
<1>1. AInv => StatusAnswered
  BY DEF AInv, CardInv, StatusAnswered, Flags
<1> QED
  BY <1>1, AdminInvariant, PTL

\* Every service that log could ask heeds the new setting or is reported.
THEOREM LogSafe == ASpec => []LogHeeded
<1>1. AInv => LogHeeded
  BY OrderFacts DEF AInv, LogInv, LogHeeded, Looked
<1> QED
  BY <1>1, AdminInvariant, PTL
=============================================================================
