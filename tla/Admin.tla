------------------------------- MODULE Admin -------------------------------
(* admin.py: authorize, which pairs with the TV; wol, which sets the        *)
(* Wake-on-LAN of this computer's network card through NetworkManager; and  *)
(* log, which turns logging on and off.  One of them runs at a time; around *)
(* it the TV, the network, the services and other commands go on, and it    *)
(* may be interrupted at any step.                                          *)
EXTENDS Integers, Sequences

CONSTANTS Installed,  \* the services of this installation
          Callers     \* who types the command: "user", "sudo", "root" (a login)

Services == {"monitor", "sleep", "notify"}
Order == <<"monitor", "sleep", "notify">>   \* installed_services
Session == {"notify"}   \* those that run in the user's session

ASSUME InstalledAssumption == Installed \subseteq Services
ASSUME CallerAssumption == Callers \subseteq {"user", "sudo", "root"}

VARIABLES
    pc, arg, rc,           \* the step of the command, what it is to do, how the last one ended
    key, raced,            \* the pairing key; history: the TV came to accept it since STATUS
    profile, card, link,   \* NetworkManager's wake-on-lan, the card's, the connection
    pushed,                \* history: the card was activated since the profile changed
    answered,              \* history: NetworkManager answered the last wol --status
    caller, logging,       \* who runs log; LOGGING in the conf
    reads, next, failed,   \* what each running service read; where log is in Order, what it reports
    unasked                \* history: the services whose is-active log could not ask

pairing == <<key, raced>>
wol == <<profile, card, link, pushed, answered>>
log == <<caller, logging, reads, next, failed, unasked>>
avars == <<pc, arg, rc, pairing, wol, log>>

--------------------------------------------------------------------------
Begin(first, what) == pc = "idle" /\ pc' = first /\ arg' = what /\ rc' = "none"
Goto(label) == pc' = label /\ UNCHANGED <<arg, rc>>
End(how) == pc' = "idle" /\ rc' = how /\ UNCHANGED arg

\* A check=True that fails, Ctrl-C or a kill.
CutOff ==
    /\ pc # "idle" /\ End("cut off")
    /\ next' = 1 /\ raced' = FALSE
    /\ UNCHANGED <<key, wol, caller, logging, reads, failed, unasked>>

--------------------------------------------------------------------------
(* authorize.  A key is "good" while the TV accepts it.                   *)

BeginAuthorize ==
    /\ Begin("status", "authorize") /\ raced' = FALSE
    /\ UNCHANGED <<key, wol, log>>

\* STATUS with a good key, or with a dialog that the user accepts.
Paired ==
    /\ pc = "status"
    /\ key' = "good" /\ raced' = FALSE /\ End("ok")
    /\ UNCHANGED <<wol, log>>

\* STATUS ends with 3: the TV did not take the key, and the dialog was denied.
Denied ==
    /\ pc = "status" /\ key # "good"
    /\ Goto("unlink") /\ raced' = FALSE
    /\ UNCHANGED <<key, wol, log>>

AfterFailure_Unlinks == "unlink"
AfterFailure == "prompt"
\* STATUS ends with another code: nobody knows about the key.
Unreached ==
    /\ pc = "status"
    /\ Goto(AfterFailure) /\ raced' = FALSE
    /\ UNCHANGED <<key, wol, log>>

Unlink ==
    /\ pc = "unlink"
    /\ key' = "none" /\ raced' = FALSE
    /\ Goto("prompt")
    /\ UNCHANGED <<wol, log>>

Retry ==
    /\ pc = "prompt" /\ Goto("status")
    /\ UNCHANGED <<pairing, wol, log>>

\* Another command of this program pairs, or the TV forgets or takes back a key.
TvChanges ==
    /\ \/ key = "good" /\ key' = "stale" /\ UNCHANGED raced
       \/ key # "good" /\ key' = "good" /\ raced' = (pc = "unlink")
    /\ UNCHANGED <<pc, arg, rc, wol, log>>

--------------------------------------------------------------------------
(* wol.                                                                   *)

\* A connection that is down has no name to give, and nmcli may fail to look it up.
BeginWol(what) ==
    /\ \/ link /\ Begin(IF what = "status" THEN "show" ELSE "modify", what)
       \/ pc = "idle" /\ arg' = what /\ rc' = "refused" /\ UNCHANGED pc
    /\ UNCHANGED <<pairing, wol, log>>

Flags_Default(what) == IF what = "enable" THEN "magic" ELSE "default"
Flags(what) == IF what = "enable" THEN "magic" ELSE "none"

Modify ==
    /\ pc = "modify"
    /\ profile' = Flags(arg) /\ pushed' = FALSE
    /\ Goto("down")
    /\ UNCHANGED <<pairing, card, link, answered, log>>

Down ==
    /\ pc = "down" /\ link
    /\ link' = FALSE
    /\ Goto("up")
    /\ UNCHANGED <<pairing, profile, card, pushed, answered, log>>

\* NetworkManager writes the card at the activation; "default" leaves it as it is.
Activated ==
    /\ link' = TRUE /\ pushed' = TRUE
    /\ card' = IF profile = "default" THEN card ELSE profile
    /\ UNCHANGED <<profile, answered>>

Up ==
    /\ pc = "up"
    /\ Activated /\ End("ok")
    /\ UNCHANGED <<pairing, log>>

Said_TwoCases == IF profile = "magic" THEN "enabled" ELSE "disabled"
Said == IF profile = "default" THEN "left to the card"
        ELSE IF profile = "magic" THEN "enabled" ELSE "disabled"

\* nmcli() returns "" for a query that failed, which is the value of no flags.
Show ==
    /\ pc = "show"
    /\ \/ End(Said) /\ answered' = TRUE
       \/ End("disabled") /\ answered' = FALSE
    /\ UNCHANGED <<pairing, profile, card, link, pushed, log>>

\* A boot, a cable; the card keeps its own setting where the profile says nothing.
Reconnect ==
    /\ Activated
    /\ UNCHANGED <<pc, arg, rc, pairing, log>>

Disconnect ==
    /\ link' = FALSE /\ rc' = "none"
    /\ UNCHANGED <<pc, arg, profile, card, pushed, answered, pairing, log>>

\* Somebody changes the profile with another tool.
EditProfile ==
    /\ pc = "idle" /\ rc' = "none"
    /\ profile' \in {"default", "none", "magic"} /\ pushed' = FALSE
    /\ UNCHANGED <<pc, arg, card, link, answered, pairing, log>>

--------------------------------------------------------------------------
(* log --enable and --disable.  A service reads LOGGING when it starts.   *)

BeginLog(what) ==
    /\ Begin("write", what)
    /\ caller' \in Callers /\ failed' = {} /\ unasked' = {}
    /\ UNCHANGED <<pairing, wol, logging, reads, next>>

Write ==
    /\ pc = "write"
    /\ logging' = arg
    /\ next' = 1
    /\ Goto("is_active")
    /\ UNCHANGED <<pairing, wol, caller, reads, failed, unasked>>

\* A login as root has no user whose services it could reach.
Reached(s) == s \notin Session \/ caller # "root"

IsActive_Counts ==
    /\ pc = "is_active" /\ next <= Len(Order)
    /\ next' = next + 1
    /\ IF Reached(Order[next]) /\ reads[Order[next]] # "down"
       THEN Goto("restart") ELSE UNCHANGED <<pc, arg, rc>>
    /\ UNCHANGED <<pairing, wol, caller, logging, reads, failed, unasked>>
\* A service that systemctl cannot ask, or fails to ask, counts as not running.
IsActive ==
    /\ pc = "is_active" /\ next <= Len(Order)
    /\ LET s == Order[next] IN
       \/ Reached(s) /\ reads[s] # "down" /\ Goto("restart") /\ UNCHANGED <<next, unasked>>
       \/ Reached(s) /\ reads[s] = "down" /\ next' = next + 1 /\ UNCHANGED <<pc, arg, rc, unasked>>
       \/ next' = next + 1 /\ unasked' = unasked \cup {s} /\ UNCHANGED <<pc, arg, rc>>
    /\ UNCHANGED <<pairing, wol, caller, logging, reads, failed>>

Failed_Swallowed(s) == failed
Failed(s) == failed \cup {s}

\* A restart starts the service, is refused, or leaves it stopped.
Restart ==
    /\ pc = "restart"
    /\ LET s == Order[next] IN
       \/ reads' = [reads EXCEPT ![s] = logging] /\ UNCHANGED failed
       \/ /\ reads' = reads \/ reads' = [reads EXCEPT ![s] = "down"]
          /\ failed' = Failed(s)
    /\ next' = next + 1
    /\ Goto("is_active")
    /\ UNCHANGED <<pairing, wol, caller, logging, unasked>>

Reported ==
    /\ pc = "is_active" /\ next > Len(Order)
    /\ End("ok")
    /\ UNCHANGED <<pairing, wol, log>>

StartStop ==
    /\ \E s \in Installed, now \in {logging, "down"} :
          /\ now # "down" => reads[s] = "down"
          /\ reads' = [reads EXCEPT ![s] = now]
    /\ UNCHANGED <<pc, arg, rc, pairing, wol, caller, logging, next, failed, unasked>>

EditConf ==
    /\ pc = "idle" /\ rc' = "none"
    /\ logging' \in {"on", "off"}
    /\ UNCHANGED <<pc, arg, pairing, wol, caller, reads, next, failed, unasked>>

--------------------------------------------------------------------------
AInit ==
    /\ pc = "idle" /\ arg = "none" /\ rc = "none"
    /\ key = "none" /\ raced = FALSE
    /\ profile = "default" /\ card \in {"none", "magic"} /\ link = TRUE /\ pushed = TRUE
    /\ answered = TRUE /\ unasked = {}
    /\ caller \in Callers /\ logging \in {"on", "off"}
    /\ reads = [s \in Services |-> IF s \in Installed THEN logging ELSE "down"] /\ next = 1 /\ failed = {}

Authorize == BeginAuthorize \/ Paired \/ Denied \/ Unreached \/ Unlink \/ Retry \/ TvChanges
Wol == \/ (\E what \in {"enable", "disable", "status"} : BeginWol(what))
       \/ Modify \/ Down \/ Up \/ Show \/ Reconnect \/ Disconnect \/ EditProfile
Log == \/ (\E what \in {"on", "off"} : BeginLog(what))
       \/ Write \/ IsActive \/ Restart \/ Reported \/ StartStop \/ EditConf

ANext == Authorize \/ Wol \/ Log \/ CutOff
ASpec == AInit /\ [][ANext]_avars

--------------------------------------------------------------------------
(* Properties.                                                            *)

ATypeOK ==
    /\ pc \in {"idle", "status", "unlink", "prompt", "modify", "down", "up", "show",
               "write", "is_active", "restart"}
    /\ arg \in {"none", "authorize", "enable", "disable", "status", "on", "off"}
    /\ rc \in {"none", "ok", "refused", "cut off", "enabled", "disabled", "left to the card"}
    /\ key \in {"none", "stale", "good"} /\ raced \in BOOLEAN
    /\ profile \in {"default", "none", "magic"} /\ card \in {"none", "magic"}
    /\ link \in BOOLEAN /\ pushed \in BOOLEAN /\ answered \in BOOLEAN
    /\ caller \in Callers /\ logging \in {"on", "off"}
    /\ reads \in [Services -> {"on", "off", "down"}]
    /\ next \in 1..Len(Order) + 1 /\ failed \in SUBSET Services /\ unasked \in SUBSET Services
    /\ pc = "restart" => next <= Len(Order)

\* A key that the TV accepts is never thrown away, unless it came to be accepted
\* after STATUS was denied: no other exit code may cost a pairing (authorize).
GoodKeyKept == [][key = "good" /\ key' = "none" => raced]_avars

\* After a wol --enable or --disable that ended well, the connection is up and the
\* card itself set as asked, until somebody takes down or changes the connection
\* (set_nic_wol, on why a plain edit or "default" is not enough).
CardAsAsked ==
    /\ rc = "ok" /\ arg = "enable" => link /\ card = "magic"
    /\ rc = "ok" /\ arg = "disable" => link /\ card = "none"

\* wol --status never calls a card on that is off, nor, where NetworkManager answered
\* it, off that is on, as long as the profile it reads has reached the card (nic_wol,
\* on its three cases).  Where the query failed it may: nmcli() gives what a profile
\* without flags gives, and the user is told "disabled".
StatusAnswered ==
    /\ rc = "enabled" /\ pushed => card = "magic"
    /\ rc = "disabled" /\ pushed /\ answered => card = "none"

Heeds(s) == reads[s] \in {arg, "down"} \/ s \in failed

\* After log --enable or --disable each running service has read the new setting or
\* is reported, whatever starts and stops meanwhile and whoever asks.  A service whose
\* is-active could not be asked keeps the old one in silence, against what
\* restart_services says of its failures ("never swallowed").
LogHeeded == rc = "ok" /\ arg \in {"on", "off"} => \A s \in Services \ unasked : Heeds(s)
=============================================================================
