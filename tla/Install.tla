------------------------------ MODULE Install ------------------------------
(* install.py, the update and the uninstall commands, conflict_check.py:   *)
(* one root command at a time rebuilds, replaces or removes what is        *)
(* installed, step by step.  A step may fail where the code lets it, some  *)
(* of them unnoticed (check=False, ignore_errors, except OSError), and the *)
(* command may be interrupted (Ctrl-C, a kill, a power cut) anywhere.      *)
EXTENDS Integers, Sequences

CONSTANTS Releases,    \* the sets of settings that releases have
          LegacyUnits, \* services of earlier versions: LEGACY_SYSTEM_UNITS
          Unnoticed    \* the failures that may happen and be passed over: of "disable",
                       \* "session" (the user's services), "tree" (rmtree), "paths" (unlink)

Units == {"boot", "shutdown", "monitor", "sleep", "notify"}
Services == {"monitor", "sleep", "notify"}
Hooks == {"shim", "predown", "hook", "link"}  \* TEARDOWN_PATHS
InstallDir == {"lib", "bin"}                  \* with the conf and the key
Versions == {"none", "half", "old", "new"}

NoConf == [k \in {} |-> "default"]
Default(keys) == [k \in keys |-> "default"]
Values == {"user", "default", "found"}  \* "found" is what the installer worked out
Confs == (UNION {[keys -> Values] : keys \in Releases}) \cup {NoConf}
NoWork == [conf |-> NoConf, key |-> "none"]
Works == [conf : Confs, key : {"none", "good"}]

ASSUME ReleaseAssumption == {} \notin Releases

VARIABLES
    machine,   \* [readOnly : /usr cannot be written, dispatcher : NetworkManager is there]
    files,     \* the version of each installed file
    enabled, running,            \* systemd: the wanted units; what each service runs
    conf, key,                   \* the installed settings and pairing key
    repo, saved, work, kept,     \* the release's conf; the key set aside; the working
                                 \* directory of this update; one that the last left behind
    pc, next, installing, updating, sudo, outcome,  \* the command, and how the last one ended
    legacyFiles, legacyRunning,
    mine, hadKey,                \* history: what there was when the command began,
    ignored                      \* and the failures that it passed over

system == <<machine, files, enabled, running>>
data == <<conf, key>>
carried == <<repo, saved, work, kept>>
mode == <<installing, updating, sudo>>
legacy == <<legacyFiles, legacyRunning>>
ghosts == <<mine, hadKey, ignored>>
ivars == <<system, data, carried, pc, next, mode, outcome, legacy, ghosts>>

--------------------------------------------------------------------------
(* Beginning and ending.                                                  *)

\* What is there when a command begins is old to it.
Aged(version) == [x \in DOMAIN version |-> IF version[x] = "none" THEN "none" ELSE "old"]

\* A unit that a disable failed to take down and whose file has gone since: systemctl
\* does not know it any more.
Dangling ==
    \/ \E u \in enabled : files[u] = "none"
    \/ \E s \in {"monitor", "sleep"} : running[s] # "none" /\ files[s] = "none"

Begin(first) ==
    /\ pc = "idle"
    /\ pc' = first /\ outcome' = "none" /\ next' = 1
    /\ files' = Aged(files) /\ running' = Aged(running)
    /\ hadKey' = (key = "good")
    /\ ignored' = IF Dangling THEN ignored \cap {"disable"} ELSE {}
    /\ sudo' \in BOOLEAN
    /\ kept' = NoWork
    /\ UNCHANGED <<machine, enabled, data, saved, work, legacy>>

\* A plain installation takes the conf of the clone, whatever was installed.
BeginInstall ==
    /\ Begin("conflict")
    /\ installing' = TRUE /\ updating' = FALSE /\ mine' = NoConf
    /\ \E keys \in Releases : repo' = Default(keys)

BeginUninstall ==
    /\ Begin("disable")
    /\ installing' = FALSE /\ updating' = FALSE /\ mine' = NoConf
    /\ repo' = NoConf

BeginUpdate ==
    /\ conf # NoConf
    /\ Begin("backup")
    /\ installing' = TRUE /\ updating' = TRUE /\ mine' = conf
    /\ repo' = NoConf

Goto(label) == pc' = label /\ UNCHANGED <<next, mode, outcome>>

Finish(how) ==
    /\ pc' = "idle" /\ next' = 1 /\ outcome' = how
    /\ installing' = FALSE /\ updating' = FALSE /\ UNCHANGED sudo

\* install.py is a child of the update, which then looks at its exit code.
InstallerEnds(how) ==
    IF updating THEN pc' = "verdict" /\ outcome' = how /\ UNCHANGED <<next, mode>>
    ELSE Finish(how)

--------------------------------------------------------------------------
(* update.py.                                                             *)

Backup ==
    /\ pc = "backup"
    /\ work' = [conf |-> conf, key |-> key]
    /\ Goto("clone")
    /\ UNCHANGED <<system, data, repo, saved, kept, legacy, ghosts>>

Clone ==
    /\ pc = "clone"
    /\ \E keys \in Releases : repo' = Default(keys)
    /\ Goto("merge")
    /\ UNCHANGED <<system, data, saved, work, kept, legacy, ghosts>>

Merged_NewWins(old, new) == [k \in DOMAIN new |-> new[k]]
\* merge_conf: the keys the release still has keep their value.
Merged(old, new) == [k \in DOMAIN new |-> IF k \in DOMAIN old THEN old[k] ELSE new[k]]

Merge ==
    /\ pc = "merge"
    /\ repo' = Merged(mine, repo)
    /\ Goto("confirm")
    /\ UNCHANGED <<system, data, saved, work, kept, legacy, ghosts>>

Confirm ==
    /\ pc = "confirm"
    /\ Goto("conflict")
    /\ UNCHANGED <<system, data, carried, legacy, ghosts>>

Abort_KeepsWork ==
    /\ pc \in {"clone", "merge", "confirm"}
    /\ Finish("aborted")
    /\ UNCHANGED <<system, data, carried, legacy, ghosts>>
\* No git, a failed clone, not this project, the answer no: SystemExit.
Abort ==
    /\ pc \in {"clone", "merge", "confirm"}
    /\ work' = NoWork
    /\ Finish("aborted")
    /\ UNCHANGED <<system, data, repo, saved, kept, legacy, ghosts>>

KeepsWork_Never(rc) == FALSE
KeepsWork(rc) == rc # "installed"

Verdict ==
    /\ pc = "verdict"
    /\ kept' = IF KeepsWork(outcome) THEN work ELSE kept
    /\ work' = NoWork
    /\ Finish(IF outcome = "installed" THEN "updated" ELSE outcome)
    /\ UNCHANGED <<system, data, repo, saved, legacy, ghosts>>

--------------------------------------------------------------------------
(* conflict_check.py, and what install() looks at before it changes       *)
(* anything.                                                              *)

\* disable --now with several units does nothing when one of them does not exist.
StopLegacy ==
    /\ pc = "conflict"
    /\ legacyRunning' = IF legacyFiles = LegacyUnits THEN {} ELSE legacyRunning
    /\ Goto("unlink_legacy")
    /\ UNCHANGED <<system, data, carried, legacyFiles, ghosts>>

UnlinkLegacy ==
    /\ pc = "unlink_legacy"
    /\ legacyFiles' = {}
    /\ Goto("preflight")
    /\ UNCHANGED <<system, data, carried, legacyRunning, ghosts>>

\* The address, the TV, venv, the MAC address; then the key is set aside.
SaveKey ==
    /\ pc = "preflight"
    /\ saved' = key
    /\ Goto("disable")
    /\ UNCHANGED <<system, data, repo, work, kept, legacy, ghosts>>

--------------------------------------------------------------------------
(* uninstall(): its own command, and the first half of an installation.   *)

Order == <<"boot", "shutdown", "monitor", "sleep">>

Disable_AllAtOnce ==
    /\ pc = "disable" /\ next <= Len(Order)
    /\ LET all == {Order[n] : n \in DOMAIN Order}
           here == IF \A u \in all : files[u] # "none" THEN all ELSE {}
       IN  /\ enabled' = enabled \ here
           /\ running' = [s \in Services |-> IF s \in here THEN "none" ELSE running[s]]
    /\ next' = Len(Order) + 1
    /\ UNCHANGED <<machine, files, data, carried, pc, mode, outcome, legacy, ghosts>>
\* A failure that has left something behind is remembered; nobody is told of it.
Ignore(kind, left) ==
    \/ ~left /\ UNCHANGED ignored
    \/ left /\ kind \in Unnoticed /\ ignored' = ignored \cup {kind}

\* systemctl disable --now, one call per unit; it does nothing for a unit without a
\* file.  A call that fails leaves the unit running, and perhaps wanted.
Disable ==
    /\ pc = "disable" /\ next <= Len(Order)
    /\ LET u == Order[next] IN
       IF files[u] = "none" THEN UNCHANGED <<enabled, running, ignored>>
       ELSE \E off, stopped \in BOOLEAN :
              /\ stopped => off
              /\ enabled' = IF off THEN enabled \ {u} ELSE enabled
              /\ running' = [s \in Services |-> IF s = u /\ stopped THEN "none" ELSE running[s]]
              /\ Ignore("disable", u \in enabled' \/ (u \in Services /\ running'[u] # "none"))
    /\ next' = next + 1
    /\ UNCHANGED <<machine, files, data, carried, pc, mode, outcome, legacy, mine, hadKey>>

DisableNotify ==
    /\ pc = "disable" /\ next > Len(Order)
    /\ IF files["notify"] = "none" THEN UNCHANGED <<enabled, ignored>>
       ELSE /\ enabled' \in {enabled \ {"notify"}, enabled}
            /\ Ignore("disable", "notify" \in enabled')
    /\ Goto("stop_notify")
    /\ UNCHANGED <<machine, files, running, data, carried, legacy, mine, hadKey>>

\* The user's own service manager is reached through SUDO_USER only, if it is there.
StopNotify ==
    /\ pc = "stop_notify"
    /\ \E stopped \in BOOLEAN :
          /\ stopped => sudo
          /\ running' = IF stopped THEN [running EXCEPT !["notify"] = "none"] ELSE running
          /\ Ignore("session", sudo /\ running'["notify"] # "none")
    /\ Goto("rmtree")
    /\ UNCHANGED <<machine, files, enabled, data, carried, legacy, mine, hadKey>>

Gone(parts) == [p \in DOMAIN files |-> IF p \in parts THEN "none" ELSE files[p]]

\* What cannot be removed stays, a directory with some of its files.
RemoveTree ==
    /\ pc = "rmtree"
    /\ \E left \in SUBSET {p \in InstallDir : files[p] # "none"} :
          files' = [p \in DOMAIN files |-> IF p \in left THEN "half" ELSE Gone(InstallDir)[p]]
    /\ conf' \in {NoConf, conf} /\ key' \in {"none", key}
    /\ Ignore("tree", (\E p \in InstallDir : files'[p] # "none") \/ conf' # NoConf \/ key' # "none")
    /\ Goto("unlink")
    /\ UNCHANGED <<machine, enabled, running, carried, legacy, mine, hadKey>>

UnlinkUnits ==
    /\ pc = "unlink"
    /\ files' = Gone(Units)
    /\ Goto("unlink_paths")
    /\ UNCHANGED <<machine, enabled, running, data, carried, legacy, ghosts>>

\* Where /usr cannot be written the hook stays as it is: it was never there.
Teardown_Links(parts) == parts \ {"shim"}
Teardown(parts) == IF machine.readOnly THEN parts \ {"hook"} ELSE parts

\* Any other error is passed over as well, path by path.
UnlinkPaths ==
    /\ pc = "unlink_paths"
    /\ \E left \in SUBSET {p \in Teardown(Hooks) : files[p] # "none"} :
          /\ files' = Gone(Teardown(Hooks) \ left)
          /\ Ignore("paths", left # {})
    /\ IF installing THEN Goto("mklib") ELSE Finish("uninstalled")
    /\ UNCHANGED <<machine, enabled, running, data, carried, legacy, mine, hadKey>>

--------------------------------------------------------------------------
(* The second half of install().                                          *)

Put(from, parts, to) ==
    /\ pc = from
    /\ files' = [p \in DOMAIN files |-> IF p \in parts THEN "new" ELSE files[p]]
    /\ Goto(to)
    /\ UNCHANGED <<machine, enabled, running, data, carried, legacy, ghosts>>

\* mkdir without exist_ok: what is left of an old library ends the installation (Fail).
MakeLib ==
    /\ pc = "mklib" /\ files["lib"] = "none"
    /\ files' = [files EXCEPT !["lib"] = "half"]
    /\ Goto("pip")
    /\ UNCHANGED <<machine, enabled, running, data, carried, legacy, ghosts>>

Pip == Put("pip", {"lib"}, "wrappers")
WriteWrappers == Put("wrappers", {"bin"}, "key")

MoveKeyBack ==
    /\ pc = "key"
    /\ key' = IF saved = "good" THEN saved ELSE key
    /\ saved' = "none"
    /\ Goto("conf")
    /\ UNCHANGED <<system, conf, repo, work, kept, legacy, ghosts>>

CopyConf ==
    /\ pc = "conf"
    /\ conf' = repo
    /\ Goto("units")
    /\ UNCHANGED <<system, key, carried, legacy, ghosts>>

WriteUnits_All == Put("units", Units, "mac")
WriteUnits == Put("units", Units \ {"sleep"}, "mac")

\* The address is the conf's, or the one in the ARP table when the conf has none.
Fill(k, v) == IF k = "LGTV_MAC" /\ v = "default" THEN "found" ELSE v
Filled(c) == [k \in DOMAIN c |-> Fill(k, c[k])]

SetMac ==
    /\ pc = "mac"
    /\ conf' = Filled(conf)
    /\ Goto("shim")
    /\ UNCHANGED <<system, key, carried, legacy, ghosts>>

WriteShim == Put("shim", IF machine.dispatcher THEN {"shim", "predown"} ELSE {}, "hook")
\* A /usr that cannot be written gets the listener in place of the hook.
WriteHook == Put("hook", IF machine.readOnly THEN {"sleep"} ELSE {"hook"}, "link")
LinkCommand == Put("link", {"link"}, "enable")

\* enable --now starts a service that does not run, and leaves one alone that does.
Started(s) == [running EXCEPT ![s] = IF @ = "none" THEN files["lib"] ELSE @]

Enable(from, units, start, to) ==
    /\ pc = from
    /\ enabled' = enabled \cup units
    /\ running' = IF start THEN Started(CHOOSE u \in units : TRUE) ELSE running
    /\ Goto(to)
    /\ UNCHANGED <<machine, files, data, carried, legacy, ghosts>>

EnableBoot == Enable("enable", {"boot", "shutdown"}, FALSE, "enable_monitor")
EnableMonitor == Enable("enable_monitor", {"monitor"}, TRUE, "enable_sleep")
EnableSleep ==
    \/ machine.readOnly /\ Enable("enable_sleep", {"sleep"}, TRUE, "enable_notify")
    \/ ~machine.readOnly /\ Enable("enable_sleep", {}, FALSE, "enable_notify")

\* Enabled for every user, started for the one of SUDO_USER: that may fail, unnoticed.
EnableNotify ==
    /\ pc = "enable_notify"
    /\ enabled' = enabled \cup {"notify"}
    /\ \E reached \in BOOLEAN :
          /\ reached => sudo
          /\ running' = IF reached THEN Started("notify") ELSE running
          /\ Ignore("session", sudo /\ ~reached)
    /\ Goto("authorize")
    /\ UNCHANGED <<machine, files, data, carried, legacy, mine, hadKey>>

\* The pairing: a key that is there is kept, reached TV or not; without one the
\* user accepts on the TV, or not.
Authorize ==
    /\ pc = "authorize"
    /\ \E paired \in BOOLEAN :
          /\ key' = IF paired THEN "good" ELSE key
          /\ InstallerEnds(IF paired THEN "installed" ELSE "unpaired")
    /\ UNCHANGED <<system, conf, carried, legacy, ghosts>>

--------------------------------------------------------------------------
(* What goes wrong, and what happens between commands.                    *)

Preparing == {"conflict", "unlink_legacy", "preflight"}
Rebuilding == {"mklib", "pip", "wrappers", "key", "conf", "units", "mac", "shim", "hook", "link",
               "enable", "enable_monitor", "enable_sleep", "enable_notify"}

\* A check=True that fails, a sys.exit, a write the disk refuses.
Fail ==
    /\ pc \in Preparing \cup Rebuilding
    /\ InstallerEnds("failed")
    /\ saved' = "none"
    /\ UNCHANGED <<system, data, repo, work, kept, legacy, ghosts>>

\* Nothing of the program runs any more; the key set aside is in /tmp under no name.
Interrupt ==
    /\ pc # "idle"
    /\ Finish("interrupted")
    /\ saved' = "none" /\ work' = NoWork
    /\ kept' = IF work # NoWork THEN work ELSE kept
    /\ UNCHANGED <<system, data, repo, legacy, ghosts>>

Quietly ==
    /\ pc = "idle" /\ outcome' = "none" /\ sudo' = FALSE
    /\ UNCHANGED <<pc, next, installing, updating, carried>>

Edit ==
    /\ Quietly
    /\ \E k \in DOMAIN conf, v \in {"user", "default"} : conf' = [conf EXCEPT ![k] = v]
    /\ mine' = NoConf
    /\ UNCHANGED <<system, key, legacy, hadKey, ignored>>

Pair ==
    /\ Quietly
    /\ conf # NoConf
    /\ key' \in {"none", "good"} /\ hadKey' = FALSE
    /\ UNCHANGED <<system, conf, legacy, mine, ignored>>

Reboot ==
    /\ Quietly
    /\ running' = [s \in Services |->
                     IF s \in enabled /\ files[s] # "none" THEN files["lib"] ELSE "none"]
    /\ legacyRunning' = legacyFiles
    /\ UNCHANGED <<machine, files, enabled, data, legacyFiles, ghosts>>

--------------------------------------------------------------------------

IInit ==
    /\ machine \in [readOnly : BOOLEAN, dispatcher : BOOLEAN]
    /\ files = [p \in InstallDir \cup Units \cup Hooks |-> "none"]
    /\ enabled = {} /\ running = [s \in Services |-> "none"]
    /\ conf = NoConf /\ key = "none"
    /\ repo = NoConf /\ saved = "none" /\ work = NoWork /\ kept = NoWork
    /\ pc = "idle" /\ next = 1 /\ outcome = "none"
    /\ installing = FALSE /\ updating = FALSE /\ sudo = FALSE
    /\ legacyFiles \in SUBSET LegacyUnits /\ legacyRunning = legacyFiles
    /\ mine = NoConf /\ hadKey = FALSE /\ ignored = {}

UpdateStep == BeginUpdate \/ Backup \/ Clone \/ Merge \/ Confirm \/ Abort \/ Verdict
ConflictStep == StopLegacy \/ UnlinkLegacy \/ SaveKey
UninstallStep == BeginUninstall \/ Disable \/ DisableNotify \/ StopNotify \/ RemoveTree \/ UnlinkUnits \/ UnlinkPaths
InstallStep == \/ BeginInstall \/ MakeLib \/ Pip \/ WriteWrappers \/ MoveKeyBack \/ CopyConf
               \/ WriteUnits \/ SetMac \/ WriteShim \/ WriteHook \/ LinkCommand
               \/ EnableBoot \/ EnableMonitor \/ EnableSleep \/ EnableNotify \/ Authorize
INext == \/ UpdateStep \/ ConflictStep \/ UninstallStep \/ InstallStep
         \/ Fail \/ Interrupt \/ Edit \/ Pair \/ Reboot
ISpec == IInit /\ [][INext]_ivars

--------------------------------------------------------------------------
(* Properties.                                                            *)

Labels == {"idle", "backup", "clone", "merge", "confirm", "verdict", "disable", "stop_notify",
           "rmtree", "unlink", "unlink_paths", "authorize"} \cup Preparing \cup Rebuilding

\* A conf is always one of a release, a working directory a backup of one, and
\* nothing but an update has one.
ITypeOK ==
    /\ machine \in [readOnly : BOOLEAN, dispatcher : BOOLEAN]
    /\ files \in [InstallDir \cup Units \cup Hooks -> Versions]
    /\ enabled \in SUBSET Units /\ running \in [Services -> Versions]
    /\ {conf, repo, mine} \subseteq Confs /\ {key, saved} \subseteq {"none", "good"}
    /\ {work, kept} \subseteq Works
    /\ work # NoWork => updating
    /\ pc \in Labels /\ next \in 1..Len(Order) + 1
    /\ {installing, updating, sudo, hadKey} \subseteq BOOLEAN
    /\ outcome \in {"none", "installed", "unpaired", "updated", "uninstalled", "failed",
                    "aborted", "interrupted"}
    /\ legacyFiles \in SUBSET LegacyUnits /\ legacyRunning \in SUBSET LegacyUnits
    /\ ignored \subseteq Unnoticed

\* No wanted unit without its file, wherever a command was cut off: uninstall()
\* disables what it is about to delete (uninstall.py, on dangling wants links).  Only a
\* disable that fails breaks it, which nobody hears of.
EnabledHasFile == "disable" \notin ignored => \A u \in enabled : files[u] # "none"

Installed == InstallDir \cup {"boot", "shutdown", "monitor", "notify", "link"}
             \cup (IF machine.dispatcher THEN {"shim", "predown"} ELSE {})
             \cup (IF machine.readOnly THEN {"sleep"} ELSE {"hook"})
Wanted == Installed \cap Units

\* An installation that got to its end is whole and of one version, from whatever
\* wreck it started and whatever it failed to remove: every file new and no other
\* left, the wanted units exactly those, the key carried (install).  No service of the
\* old version still serves, unless the call that was to stop or to start it failed.
InstallIsWhole ==
    outcome \in {"installed", "unpaired", "updated"} =>
        /\ \A p \in DOMAIN files : files[p] = IF p \in Installed THEN "new" ELSE "none"
        /\ enabled = Wanted
        /\ "disable" \notin ignored =>
              /\ running["monitor"] = "new"
              /\ running["sleep"] = IF machine.readOnly THEN "new" ELSE "none"
        /\ sudo /\ "session" \notin ignored => running["notify"] = "new"
        /\ hadKey => key = "good"

\* An uninstallation that got to its end leaves nothing, from whatever wreck, but what
\* it failed to remove, to disable or to stop: it passes over each such failure and
\* says that all is removed (uninstall; the notification service only where sudo names
\* its user).
UninstallLeavesNothing ==
    outcome = "uninstalled" =>
        /\ \A p \in DOMAIN files : files[p] # "none" => \/ p \in InstallDir /\ "tree" \in ignored
                                                        \/ p \in Hooks /\ "paths" \in ignored
        /\ "tree" \notin ignored => conf = NoConf /\ key = "none"
        /\ "disable" \notin ignored => enabled = {} /\ running["monitor"] = "none" /\ running["sleep"] = "none"
        /\ sudo /\ "session" \notin ignored => running["notify"] = "none"

Keeps(c) ==
    /\ c # NoConf
    /\ \A k \in DOMAIN c \cap DOMAIN mine : c[k] \in {mine[k], Fill(k, mine[k])}
ConfSafe == mine # NoConf => Keeps(conf) \/ mine \in {work.conf, kept.conf}
KeySafe == (mine # NoConf /\ hadKey) => "good" \in {key, saved, work.key, kept.key}

\* However an update ends, the settings and the key it found are installed or in a
\* directory it leaves behind (update: the backup, the one outcome that keeps it).
UpdateLosesNothing == ConfSafe /\ KeySafe

\* A finished update has the user's value of every setting the release still has,
\* and the default of the others (merge_conf, then the copy in install); an address
\* that neither has is the one found.
SettingsCarried ==
    outcome = "updated" =>
        \A k \in DOMAIN conf : conf[k] = Fill(k, IF k \in DOMAIN mine THEN mine[k] ELSE "default")

\* conflict_check.py, remove_legacy: "Stops anything still running before its unit
\* file disappears."
LegacyStopped == legacyRunning \subseteq legacyFiles
=============================================================================
