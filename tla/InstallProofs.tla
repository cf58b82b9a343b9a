--------------------------- MODULE InstallProofs ---------------------------
(* Theorems about installing, updating and removing, for every set of       *)
(* releases and of legacy units, wherever a command is cut off.             *)
EXTENDS Install, TLAPS

Parts == InstallDir \cup Units \cup Hooks

\* The labels before the uninstallation begins, those after every unit is disabled,
\* and those after the new units, and the listener's, are written.
Before == {"backup", "clone", "merge", "confirm", "conflict", "unlink_legacy", "preflight"}
NoneWanted == {"stop_notify", "rmtree", "unlink"}
HookWritten == {"link", "enable", "enable_monitor", "enable_sleep", "enable_notify"}
UnitsWritten == {"mac", "shim", "hook"} \cup HookWritten

\* No disable has failed that still shows.
Disabling == "disable" \notin ignored

\* EnabledHasFile with what makes it inductive: the loop over Order has disabled what
\* it is past, nothing is wanted when the units are unlinked, and what is enabled was
\* written before.
FInv ==
    /\ enabled \subseteq Units /\ files \in [Parts -> Versions] /\ next \in Nat
    /\ EnabledHasFile
    /\ pc \in Before => next = 1
    /\ pc = "disable" /\ Disabling => \A n \in 1..next - 1 : Order[n] \notin enabled
    /\ pc \in NoneWanted /\ Disabling => enabled = {}
    /\ pc \in UnitsWritten => \A u \in Units \ {"sleep"} : files[u] # "none"
    /\ pc \in HookWritten /\ machine.readOnly => files["sleep"] # "none"

\* A step that leaves files and wants alone, and goes to a label of no account or to
\* the next of two before the uninstallation.
Harmless ==
    /\ UNCHANGED <<machine, files, enabled>>
    /\ Disabling' => Disabling
    /\ \/ UNCHANGED <<pc, next>>
       \/ pc' \in {"idle", "verdict", "conf", "units"} /\ next' \in {1, next}
       \/ pc \in Before /\ pc' \in Before \cup {"disable"} /\ next' = next
       \/ pc = "stop_notify" /\ pc' = "rmtree" /\ next' = next
       \/ pc = "mac" /\ pc' = "shim" /\ next' = next

\* Harmless steps keep the invariant.
LEMMA HarmlessStep == FInv /\ Harmless => FInv'
BY DEF FInv, Harmless, EnabledHasFile, Disabling, Before, NoneWanted, UnitsWritten, HookWritten

\* Everything but the steps named below is harmless.
LEMMA MostAreHarmless ==
    ASSUME \/ Backup \/ Clone \/ Merge \/ Confirm \/ Abort \/ Verdict
           \/ StopLegacy \/ UnlinkLegacy \/ SaveKey \/ StopNotify \/ MoveKeyBack \/ CopyConf
           \/ SetMac \/ Authorize \/ Fail \/ Interrupt \/ Edit \/ Pair \/ Reboot \/ UNCHANGED ivars
    PROVE  Harmless
<1> USE DEF Harmless, Before, Goto, Finish, InstallerEnds, system, ghosts, Disabling
<1>1. CASE Backup \/ Clone \/ Merge \/ Confirm
  BY <1>1 DEF Backup, Clone, Merge, Confirm
<1>2. CASE Abort \/ Verdict
  BY <1>2 DEF Abort, Verdict
<1>3. CASE StopLegacy \/ UnlinkLegacy \/ SaveKey
  BY <1>3 DEF StopLegacy, UnlinkLegacy, SaveKey
<1>4. CASE StopNotify \/ MoveKeyBack \/ CopyConf \/ SetMac
  BY <1>4 DEF StopNotify, Ignore, MoveKeyBack, CopyConf, SetMac
<1>5. CASE Authorize
  BY <1>5 DEF Authorize
<1>6. CASE Fail \/ Interrupt
  BY <1>6 DEF Fail, Interrupt
<1>7. CASE Edit \/ Pair \/ Reboot \/ UNCHANGED ivars
  BY <1>7 DEF Edit, Pair, Reboot, Quietly, ivars
<1> QED
  BY <1>1, <1>2, <1>3, <1>4, <1>5, <1>6, <1>7

\* A command begins with the files that are there, now old.
LEMMA BeginStep == FInv /\ (\E first \in {"conflict", "disable", "backup"} : Begin(first)) => FInv'
<1> SUFFICES ASSUME FInv, NEW first \in {"conflict", "disable", "backup"}, Begin(first)
             PROVE  FInv'
  OBVIOUS
<1>1. /\ files' = Aged(files) /\ pc' = first /\ next' = 1 /\ UNCHANGED <<machine, enabled>>
  BY DEF Begin
<1>2. /\ files' \in [Parts -> Versions]
      /\ \A p \in Parts : files'[p] = "none" <=> files[p] = "none"
  BY <1>1 DEF FInv, Aged, Versions
<1>3. Disabling' => \A u \in enabled : files[u] # "none"
  BY DEF Begin, Dangling, Disabling, FInv, EnabledHasFile
<1> QED
  BY <1>1, <1>2, <1>3 DEF FInv, EnabledHasFile, Disabling, Before, NoneWanted, UnitsWritten, HookWritten, Parts

\* The uninstallation disables before it unlinks.
LEMMA UninstallStepKeeps ==
    FInv /\ (Disable \/ DisableNotify \/ RemoveTree \/ UnlinkUnits \/ UnlinkPaths) => FInv'
<1> SUFFICES ASSUME FInv, Disable \/ DisableNotify \/ RemoveTree \/ UnlinkUnits \/ UnlinkPaths
             PROVE  FInv'
  OBVIOUS
<1>0. Len(Order) = 4 /\ Units = {Order[1], Order[2], Order[3], Order[4], "notify"}
  BY DEF Order, Units
<1>1. CASE Disable
  <2>1. /\ enabled' \subseteq enabled
        /\ Disabling' => Disabling /\ Order[next] \notin enabled'
        /\ pc = "disable" /\ next' = next + 1 /\ next <= 4 /\ UNCHANGED <<machine, files, pc>>
    BY <1>0, <1>1 DEF Disable, Ignore, Disabling, FInv, EnabledHasFile
  <2> QED
    BY <2>1 DEF FInv, EnabledHasFile, Disabling, Before, NoneWanted, UnitsWritten, HookWritten
<1>2. CASE DisableNotify
  <2>1. pc = "disable" /\ next > 4 /\ pc' = "stop_notify" /\ UNCHANGED <<machine, files, next>>
    BY <1>0, <1>2 DEF DisableNotify, Goto
  <2>2. Disabling => enabled \subseteq {"notify"}
    BY <1>0, <2>1 DEF FInv
  <2>3. enabled' \subseteq enabled /\ (Disabling' => Disabling /\ enabled' = {})
    BY <1>2, <2>2 DEF DisableNotify, Ignore, Disabling, FInv, EnabledHasFile
  <2> QED
    BY <2>1, <2>3 DEF FInv, EnabledHasFile, Disabling, Before, NoneWanted, UnitsWritten, HookWritten
<1>3. CASE RemoveTree \/ UnlinkUnits
  <2>1. /\ pc' \in {"unlink", "unlink_paths"} /\ UNCHANGED <<machine, enabled, next>>
        /\ files' \in [Parts -> Versions]
    BY <1>3 DEF RemoveTree, UnlinkUnits, Goto, Gone, FInv, Versions
  <2>2. Disabling' => Disabling /\ enabled = {}
    BY <1>3 DEF RemoveTree, UnlinkUnits, Ignore, Disabling, ghosts, FInv, NoneWanted
  <2> QED
    BY <2>1, <2>2 DEF FInv, EnabledHasFile, Disabling, Before, NoneWanted, UnitsWritten, HookWritten
<1>4. CASE UnlinkPaths
  <2>1. /\ pc' \in {"mklib", "idle"} /\ next' \in {1, next} /\ UNCHANGED <<machine, enabled>>
        /\ Disabling' => Disabling
    BY <1>4 DEF UnlinkPaths, Goto, Finish, Ignore, Disabling
  <2>2. files' \in [Parts -> Versions] /\ \A u \in Units : files'[u] = files[u]
    BY <1>4 DEF UnlinkPaths, Gone, Teardown, FInv, Versions, Units, Hooks, Parts
  <2>3. enabled' \subseteq Units /\ next' \in Nat /\ EnabledHasFile'
    BY <2>1, <2>2 DEF FInv, EnabledHasFile, Disabling
  <2> QED
    BY <2>1, <2>2, <2>3 DEF FInv, Before, NoneWanted, UnitsWritten, HookWritten
<1> QED
  BY <1>1, <1>2, <1>3, <1>4

\* An installation writes a unit before it enables it.
LEMMA InstallStepKeeps ==
    FInv /\ (\/ MakeLib \/ Pip \/ WriteWrappers \/ WriteUnits \/ WriteShim \/ WriteHook \/ LinkCommand
             \/ EnableBoot \/ EnableMonitor \/ EnableSleep \/ EnableNotify) => FInv'
<1> USE DEF FInv, EnabledHasFile, Disabling, Before, NoneWanted, UnitsWritten, HookWritten
<1>1. ASSUME FInv, NEW from, NEW parts, NEW to, Put(from, parts, to),
             to \in UnitsWritten \cup {"wrappers", "key"},
             \/ to \notin UnitsWritten
             \/ to = "mac" /\ parts = Units \ {"sleep"}
             \/ to = "hook" /\ from = "shim"
             \/ to = "link" /\ from = "hook" /\ (machine.readOnly => "sleep" \in parts)
             \/ to = "enable" /\ from = "link"
      PROVE  FInv'
  <2>1. /\ pc = from /\ pc' = to /\ UNCHANGED <<machine, enabled, next, ignored>>
        /\ files' \in [Parts -> Versions]
        /\ \A p \in Parts : /\ files[p] # "none" => files'[p] # "none"
                            /\ p \in parts => files'[p] # "none"
    BY <1>1 DEF Put, Goto, Versions, ghosts
  <2> QED
    BY <1>1, <2>1 DEF Parts, Units
<1>2. ASSUME FInv, NEW from \in HookWritten, NEW units, NEW to \in HookWritten \cup {"authorize"},
             pc = from, pc' = to, enabled' = enabled \cup units, UNCHANGED <<machine, files, next>>,
             Disabling' => Disabling, units \subseteq Units, "sleep" \in units => machine.readOnly
      PROVE  FInv'
  BY <1>2 DEF Parts, Units
<1>3. ASSUME FInv, MakeLib PROVE FInv'
  <2>1. /\ pc' = "pip" /\ UNCHANGED <<machine, enabled, next, ignored>> /\ files' \in [Parts -> Versions]
        /\ \A u \in Units : files'[u] = files[u]
    BY <1>3 DEF MakeLib, Goto, Versions, Units, Parts, ghosts
  <2>2. enabled' \subseteq Units /\ next' \in Nat /\ EnabledHasFile'
    BY <1>3, <2>1
  <2> QED
    BY <2>1, <2>2
<1>4. ASSUME FInv, Pip \/ WriteWrappers \/ WriteUnits \/ WriteShim \/ WriteHook \/ LinkCommand PROVE FInv'
  BY <1>1, <1>4 DEF Pip, WriteWrappers, WriteUnits, WriteShim, WriteHook, LinkCommand
<1>5. ASSUME FInv, EnableBoot \/ EnableMonitor \/ EnableSleep PROVE FInv'
  BY <1>2, <1>5 DEF EnableBoot, EnableMonitor, EnableSleep, Enable, Goto, ghosts, Units
<1>6. ASSUME FInv, EnableNotify PROVE FInv'
  BY <1>2, <1>6 DEF EnableNotify, Ignore, Goto, Units
<1> QED
  BY <1>3, <1>4, <1>5, <1>6

\* The invariant holds at the beginning.
LEMMA FInvInitially == IInit => FInv
BY DEF IInit, FInv, EnabledHasFile, Before, NoneWanted, UnitsWritten, HookWritten, Parts, Versions

\* Every step keeps it.
LEMMA FInvStep == FInv /\ [INext]_ivars => FInv'
BY HarmlessStep, MostAreHarmless, BeginStep, UninstallStepKeeps, InstallStepKeeps
   DEF INext, UpdateStep, ConflictStep, UninstallStep, InstallStep,
       BeginInstall, BeginUninstall, BeginUpdate

\* Wherever a command is cut off, every wanted unit has its file, unless a disable has
\* failed.
THEOREM WantsSafe == ISpec => []EnabledHasFile
<1>1. FInv => EnabledHasFile
  BY DEF FInv
<1> QED
  BY FInvInitially, FInvStep, <1>1, PTL DEF ISpec

--------------------------------------------------------------------------

Merging == {"clone", "merge", "confirm"}
ConfCopied == {"units", "mac"}
AfterMac == {"shim", "hook", "link", "enable", "enable_monitor", "enable_sleep", "enable_notify", "authorize"}
AfterConf == ConfCopied \cup AfterMac
AfterMerge == {"confirm", "conflict", "unlink_legacy", "preflight", "disable", "stop_notify", "rmtree",
               "unlink", "unlink_paths", "mklib", "pip", "wrappers", "key", "conf"} \cup AfterConf

\* The user's value of every setting of the update's beginning, the default of the others.
Carries(c) == DOMAIN c # {} /\ \A k \in DOMAIN c : c[k] = IF k \in DOMAIN mine THEN mine[k] ELSE "default"

CarriesFilled(c) ==
    DOMAIN c # {} /\ \A k \in DOMAIN c : c[k] = Fill(k, IF k \in DOMAIN mine THEN mine[k] ELSE "default")

\* With its address filled in, a conf that carries the user's values still keeps them.
LEMMA FilledCarries ==
    /\ \A c : Carries(c) => CarriesFilled(Filled(c))
    /\ \A c : CarriesFilled(c) => Keeps(c)
<1>1. \A c : Carries(c) => CarriesFilled(Filled(c))
  BY DEF Carries, CarriesFilled, Filled
<1>2. \A c : CarriesFilled(c) => Keeps(c)
  <2> SUFFICES ASSUME NEW c, CarriesFilled(c) PROVE Keeps(c)
    OBVIOUS
  <2>1. DOMAIN NoConf = {}
    BY DEF NoConf
  <2>2. c # NoConf
    BY <2>1 DEF CarriesFilled
  <2> QED
    BY <2>2 DEF CarriesFilled, Keeps
<1> QED
  BY <1>1, <1>2

\* UpdateLosesNothing with where the settings and the key are at each step: untouched
\* until the installer begins, in the working directory from the backup to the verdict,
\* merged into the release's conf, and in the installed one from the copy on, which then
\* has its address.
UInv ==
    /\ UpdateLosesNothing
    /\ updating => installing /\ pc # "idle" /\ mine # NoConf
    /\ pc # "idle" /\ ~updating => mine = NoConf
    /\ pc \in {"backup", "verdict"} \cup Merging => updating
    /\ pc \in {"backup"} \cup Merging => mine = conf /\ (hadKey => key = "good")
    /\ updating /\ pc # "backup" => work.conf = mine /\ (hadKey => work.key = "good")
    /\ pc = "merge" => DOMAIN repo # {} /\ \A k \in DOMAIN repo : repo[k] = "default"
    /\ updating /\ pc \in AfterMerge => Carries(repo)
    /\ updating /\ pc \in ConfCopied => conf = repo
    /\ updating /\ pc \in AfterMac => conf = Filled(repo)
    /\ pc = "verdict" /\ outcome = "installed" => CarriesFilled(conf) /\ key = "good"
    /\ outcome = "updated" => pc = "idle" /\ CarriesFilled(conf)
    /\ outcome # "none" => pc \in {"idle", "verdict"}

\* A step of the installer on its way, which leaves the backup and the merged conf alone.
Passing ==
    /\ UNCHANGED <<repo, work, kept, mine, hadKey, updating, installing, outcome>>
    /\ pc \in AfterMerge /\ pc' \in AfterMerge
    /\ pc' \in ConfCopied => conf' = repo \/ (pc \in ConfCopied /\ conf' = conf)
    /\ pc' \in AfterMac => \/ pc \in ConfCopied /\ conf' = Filled(conf)
                           \/ pc \in AfterMac /\ conf' = conf
    /\ pc' # "confirm" \/ UNCHANGED <<pc, conf, key>>

\* The backup outlives the installer's steps.
LEMMA PassingStep == UInv /\ Passing => UInv'
<1> SUFFICES ASSUME UInv, Passing PROVE UInv'
  OBVIOUS
<1> USE DEF UInv, Passing, Merging, AfterMerge, AfterConf, ConfCopied, AfterMac
<1>1. UpdateLosesNothing'
  BY DEF UpdateLosesNothing, ConfSafe, KeySafe
<1>2. (updating /\ pc \in AfterMerge => Carries(repo))'
  BY DEF Carries
<1>3. (pc = "verdict" => UNCHANGED pc) /\ outcome' = "none"
  OBVIOUS
<1> QED
  BY <1>1, <1>2, <1>3

\* The installer's steps up to its end are all of that kind.
LEMMA MostPass ==
    ASSUME \/ StopLegacy \/ UnlinkLegacy \/ SaveKey \/ Disable \/ DisableNotify \/ StopNotify
           \/ RemoveTree \/ UnlinkUnits \/ (UnlinkPaths /\ installing) \/ MakeLib \/ Pip
           \/ WriteWrappers \/ MoveKeyBack \/ CopyConf \/ WriteUnits \/ SetMac \/ WriteShim
           \/ WriteHook \/ LinkCommand \/ EnableBoot \/ EnableMonitor \/ EnableSleep \/ EnableNotify
    PROVE  Passing
<1> USE DEF Passing, AfterMerge, AfterConf, ConfCopied, AfterMac, Goto, mode, carried, data, ghosts
<1>1. CASE StopLegacy \/ UnlinkLegacy \/ SaveKey
  BY <1>1 DEF StopLegacy, UnlinkLegacy, SaveKey
<1>2. CASE Disable \/ DisableNotify \/ StopNotify
  BY <1>2 DEF Disable, DisableNotify, StopNotify
<1>3. CASE RemoveTree \/ UnlinkUnits \/ (UnlinkPaths /\ installing)
  BY <1>3 DEF RemoveTree, UnlinkUnits, UnlinkPaths
<1>4. CASE MakeLib \/ MoveKeyBack \/ CopyConf \/ SetMac
  BY <1>4 DEF MakeLib, MoveKeyBack, CopyConf, SetMac
<1>5. CASE Pip \/ WriteWrappers \/ WriteUnits \/ WriteShim \/ WriteHook \/ LinkCommand
  BY <1>5 DEF Pip, WriteWrappers, WriteUnits, WriteShim, WriteHook, LinkCommand, Put
<1>6. CASE EnableBoot \/ EnableMonitor \/ EnableSleep \/ EnableNotify
  BY <1>6 DEF EnableBoot, EnableMonitor, EnableSleep, EnableNotify, Enable
<1> QED
  BY <1>1, <1>2, <1>3, <1>4, <1>5, <1>6

\* The steps of the update before the installer runs.
LEMMA PreparingStep == UInv /\ (Backup \/ Clone \/ Merge \/ Confirm \/ Abort) => UInv'
<1> SUFFICES ASSUME UInv, Backup \/ Clone \/ Merge \/ Confirm \/ Abort PROVE UInv'
  OBVIOUS
<1> USE DEF Keeps, Carries, CarriesFilled, Merging, AfterMerge, AfterConf, ConfCopied, AfterMac, Goto, Finish,
            mode, carried, data, ghosts, UpdateLosesNothing, ConfSafe, KeySafe
<1>1. CASE Backup
  BY <1>1 DEF Backup, UInv
<1>2. CASE Clone
  BY <1>2, ReleaseAssumption DEF Clone, Default, UInv
<1>3. CASE Merge
  <2>1. repo' = Merged(mine, repo) /\ mine # NoConf /\ DOMAIN repo # {}
    BY <1>3 DEF Merge, UInv
  <2>2. /\ DOMAIN repo' = DOMAIN repo
        /\ \A k \in DOMAIN repo' : repo'[k] = IF k \in DOMAIN mine THEN mine[k] ELSE "default"
    BY <1>3, <2>1 DEF Merge, Merged, UInv
  <2>3. DOMAIN NoConf = {}
    BY DEF NoConf
  <2>4. UNCHANGED mine /\ Carries(repo)'
    BY <1>3, <2>1, <2>2, <2>3 DEF Merge
  <2> QED
    BY <1>3, <2>4 DEF Merge, UInv
<1>4. CASE Confirm
  BY <1>4 DEF Confirm, UInv
<1>5. CASE Abort
  BY <1>5 DEF Abort, UInv
<1> QED
  BY <1>1, <1>2, <1>3, <1>4, <1>5

\* The ways a command ends: with the installer, at the verdict, or cut off.
LEMMA EndingStep ==
    UInv /\ (Authorize \/ Verdict \/ Fail \/ Interrupt \/ (UnlinkPaths /\ ~installing)) => UInv'
<1> SUFFICES ASSUME UInv, Authorize \/ Verdict \/ Fail \/ Interrupt \/ (UnlinkPaths /\ ~installing)
             PROVE  UInv'
  OBVIOUS
<1> USE DEF UInv, Merging, AfterMerge, AfterConf, ConfCopied, AfterMac, Goto, Finish, InstallerEnds, mode,
            carried, data, ghosts, UpdateLosesNothing, ConfSafe, KeySafe
<1>0. /\ (Carries(repo) <=> Carries(repo)') \/ ~UNCHANGED <<mine, repo>>
      /\ (CarriesFilled(conf) <=> CarriesFilled(conf)') \/ ~UNCHANGED <<mine, conf>>
      /\ (Keeps(conf) <=> Keeps(conf)') \/ ~UNCHANGED <<mine, conf>>
  BY DEF Carries, CarriesFilled, Keeps
<1>1. CASE Authorize
  <2>1. UNCHANGED <<mine, repo, conf, work, kept, hadKey>> /\ pc = "authorize"
    BY <1>1 DEF Authorize
  <2>2. updating => CarriesFilled(conf)
    BY <2>1, FilledCarries
  <2> QED
    BY <1>0, <1>1, <2>1, <2>2 DEF Authorize
<1>2. CASE Verdict
  <2>1. UNCHANGED <<mine, repo, conf, hadKey>> /\ pc = "verdict" /\ updating
    BY <1>2 DEF Verdict
  <2>2. outcome = "installed" => Keeps(conf)
    BY <2>1, FilledCarries
  <2> QED
    BY <1>0, <1>2, <2>1, <2>2 DEF Verdict, KeepsWork
<1>3. CASE Fail
  BY <1>0, <1>3 DEF Fail, Preparing, Rebuilding
<1>4. CASE Interrupt
  <2>1. mine = conf /\ mine # NoConf => Keeps(conf)
    BY DEF Keeps
  <2> QED
    BY <1>0, <1>4, <2>1 DEF Interrupt, NoWork
<1>5. CASE UnlinkPaths /\ ~installing
  BY <1>5 DEF UnlinkPaths
<1> QED
  BY <1>1, <1>2, <1>3, <1>4, <1>5

\* Beginning a command, and what happens between two.
LEMMA IdleStep ==
    UInv /\ (\/ BeginInstall \/ BeginUninstall \/ BeginUpdate \/ Edit \/ Pair \/ Reboot
             \/ UNCHANGED ivars) => UInv'
<1> SUFFICES ASSUME UInv, \/ BeginInstall \/ BeginUninstall \/ BeginUpdate \/ Edit \/ Pair \/ Reboot
                          \/ UNCHANGED ivars
             PROVE  UInv'
  OBVIOUS
<1> USE DEF UInv, Keeps, Carries, CarriesFilled, Merging, AfterMerge, AfterConf, ConfCopied, AfterMac, mode,
            carried, data, ghosts, UpdateLosesNothing, ConfSafe, KeySafe
<1>1. CASE BeginInstall \/ BeginUninstall
  BY <1>1 DEF BeginInstall, BeginUninstall, Begin
<1>2. CASE BeginUpdate
  BY <1>2 DEF BeginUpdate, Begin
<1>3. CASE Edit \/ Pair \/ Reboot
  BY <1>3 DEF Edit, Pair, Reboot, Quietly
<1>4. CASE UNCHANGED ivars
  BY <1>4 DEF ivars
<1> QED
  BY <1>1, <1>2, <1>3, <1>4

\* Nothing is updated at the beginning.
LEMMA UInvInitially == IInit => UInv
BY DEF IInit, UInv, UpdateLosesNothing, ConfSafe, KeySafe, Keeps, Carries, CarriesFilled, Merging, AfterMerge,
       AfterConf, ConfCopied, AfterMac

\* Every step keeps the invariant.
LEMMA UInvStep == UInv /\ [INext]_ivars => UInv'
BY PassingStep, MostPass, PreparingStep, EndingStep, IdleStep
   DEF INext, UpdateStep, ConflictStep, UninstallStep, InstallStep

\* However an update ends, the settings and the key that it found are kept somewhere.
THEOREM NothingLost == ISpec => []UpdateLosesNothing
<1>1. UInv => UpdateLosesNothing
  BY DEF UInv
<1> QED
  BY UInvInitially, UInvStep, <1>1, PTL DEF ISpec

\* A finished update has the user's value of every setting the release still has.
THEOREM SettingsSafe == ISpec => []SettingsCarried
<1>1. UInv => SettingsCarried
  BY DEF UInv, SettingsCarried, CarriesFilled
<1> QED
  BY UInvInitially, UInvStep, <1>1, PTL DEF ISpec

--------------------------------------------------------------------------

\* ITypeOK in three: what the commands note, what the machine and the commands are,
\* and what a conf, a key and a working directory are.
Noted == installing \in BOOLEAN /\ updating \in BOOLEAN /\ sudo \in BOOLEAN /\ hadKey \in BOOLEAN

Shapes ==
    /\ machine \in [readOnly : BOOLEAN, dispatcher : BOOLEAN]
    /\ running \in [Services -> Versions]
    /\ pc \in Labels /\ next \in 1..Len(Order) + 1
    /\ outcome \in {"none", "installed", "unpaired", "updated", "uninstalled", "failed",
                    "aborted", "interrupted"}
    /\ legacyFiles \in SUBSET LegacyUnits /\ legacyRunning \in SUBSET LegacyUnits
    /\ ignored \subseteq Unnoticed

Contents ==
    /\ conf \in Confs /\ repo \in Confs /\ mine \in Confs
    /\ key \in {"none", "good"} /\ saved \in {"none", "good"}
    /\ work \in Works /\ kept \in Works
    /\ work # NoWork => updating

\* A note of a command stays a yes or a no.
LEMMA NotedStep == Noted /\ [INext]_ivars => Noted'
<1> SUFFICES ASSUME Noted, [INext]_ivars  PROVE Noted'
  OBVIOUS
<1> USE DEF Noted, Goto, Finish, InstallerEnds, mode, ghosts
<1>1. CASE BeginInstall \/ BeginUninstall \/ BeginUpdate
  BY <1>1, Zenon DEF BeginInstall, BeginUninstall, BeginUpdate, Begin
<1>2. CASE Backup \/ Clone \/ Merge \/ Confirm \/ Abort \/ Verdict
  BY <1>2, Zenon DEF Backup, Clone, Merge, Confirm, Abort, Verdict
<1>3. CASE ConflictStep
  BY <1>3, Zenon DEF ConflictStep, StopLegacy, UnlinkLegacy, SaveKey
<1>4. CASE Disable \/ DisableNotify \/ StopNotify \/ RemoveTree \/ UnlinkUnits \/ UnlinkPaths
  BY <1>4, Zenon DEF Disable, DisableNotify, StopNotify, RemoveTree, UnlinkUnits, UnlinkPaths
<1>5. CASE MakeLib \/ MoveKeyBack \/ CopyConf \/ SetMac \/ Authorize
  BY <1>5, Zenon DEF MakeLib, MoveKeyBack, CopyConf, SetMac, Authorize
<1>6. CASE Pip \/ WriteWrappers \/ WriteUnits \/ WriteShim \/ WriteHook \/ LinkCommand
  BY <1>6, Zenon DEF Pip, WriteWrappers, WriteUnits, WriteShim, WriteHook, LinkCommand, Put
<1>7. CASE EnableBoot \/ EnableMonitor \/ EnableSleep \/ EnableNotify
  BY <1>7, Zenon DEF EnableBoot, EnableMonitor, EnableSleep, EnableNotify, Enable
<1>8. CASE Fail \/ Interrupt
  BY <1>8, Zenon DEF Fail, Interrupt
<1>9. CASE Edit \/ Pair \/ Reboot
  BY <1>9, Zenon DEF Edit, Pair, Reboot, Quietly
<1>10. CASE UNCHANGED ivars
  BY <1>10, Zenon DEF ivars
<1> QED
  BY <1>1, <1>2, <1>3, <1>4, <1>5, <1>6, <1>7, <1>8, <1>9, <1>10
     DEF INext, UpdateStep, UninstallStep, InstallStep

\* The steps that touch the machine or the course of the commands.
LEMMA ShapesStep == FInv /\ Shapes /\ [INext]_ivars => Shapes'
<1> SUFFICES ASSUME FInv, Shapes, [INext]_ivars  PROVE Shapes'
  OBVIOUS
<1>0. Len(Order) = 4 /\ files["lib"] \in Versions
  BY DEF Order, FInv, Parts, InstallDir
<1> USE <1>0 DEF Shapes, Labels, Preparing, Rebuilding, Goto, Finish, InstallerEnds, mode, legacy, ghosts,
                 system
<1>1. CASE BeginInstall \/ BeginUninstall \/ BeginUpdate
  <2>1. running' \in [Services -> Versions]
    BY <1>1 DEF BeginInstall, BeginUninstall, BeginUpdate, Begin, Aged, Versions
  <2> QED
    BY <1>1, <2>1 DEF BeginInstall, BeginUninstall, BeginUpdate, Begin
<1>2. CASE Backup \/ Clone \/ Merge \/ Confirm \/ Abort \/ Verdict
  BY <1>2 DEF Backup, Clone, Merge, Confirm, Abort, Verdict
<1>3. CASE ConflictStep
  BY <1>3 DEF ConflictStep, StopLegacy, UnlinkLegacy, SaveKey
<1>4. CASE Disable \/ DisableNotify \/ StopNotify \/ RemoveTree \/ UnlinkUnits \/ UnlinkPaths
  <2>1. CASE Disable
    <3>1. running' \in [Services -> Versions] /\ ignored' \subseteq Unnoticed
      BY <2>1 DEF Disable, Ignore, Versions
    <3> QED
      BY <2>1, <3>1 DEF Disable
  <2>2. CASE DisableNotify
    BY <2>2 DEF DisableNotify, Ignore
  <2>3. CASE StopNotify
    <3>1. running' \in [Services -> Versions] /\ ignored' \subseteq Unnoticed
      BY <2>3 DEF StopNotify, Ignore, Versions
    <3> QED
      BY <2>3, <3>1 DEF StopNotify
  <2>4. CASE RemoveTree \/ UnlinkUnits \/ UnlinkPaths
    <3>1. ignored' \subseteq Unnoticed
      BY <2>4 DEF RemoveTree, UnlinkUnits, UnlinkPaths, Ignore
    <3>2. /\ UNCHANGED <<machine, running, legacyFiles, legacyRunning>>
          /\ \/ pc' \in {"unlink", "unlink_paths", "mklib"} /\ UNCHANGED <<next, outcome>>
             \/ pc' = "idle" /\ next' = 1 /\ outcome' = "uninstalled"
      BY <2>4 DEF RemoveTree, UnlinkUnits, UnlinkPaths
    <3> QED
      BY <3>1, <3>2
  <2> QED
    BY <1>4, <2>1, <2>2, <2>3, <2>4
<1>5. CASE MakeLib \/ MoveKeyBack \/ CopyConf \/ SetMac \/ Authorize
  BY <1>5 DEF MakeLib, MoveKeyBack, CopyConf, SetMac, Authorize
<1>6. CASE Pip \/ WriteWrappers \/ WriteUnits \/ WriteShim \/ WriteHook \/ LinkCommand
  BY <1>6 DEF Pip, WriteWrappers, WriteUnits, WriteShim, WriteHook, LinkCommand, Put
<1>7. CASE EnableBoot \/ EnableMonitor \/ EnableSleep \/ EnableNotify
  <2>1. \A s : Started(s) \in [Services -> Versions]
    BY DEF Started
  <2> QED
    BY <1>7, <2>1 DEF EnableBoot, EnableMonitor, EnableSleep, EnableNotify, Enable, Ignore
<1>8. CASE Fail \/ Interrupt
  BY <1>8 DEF Fail, Interrupt
<1>9. CASE Edit \/ Pair
  BY <1>9 DEF Edit, Pair, Quietly
<1>10. CASE Reboot
  <2>1. running' \in [Services -> Versions]
    BY <1>10 DEF Reboot, Versions
  <2> QED
    BY <1>10, <2>1 DEF Reboot, Quietly
<1>11. CASE UNCHANGED ivars
  BY <1>11 DEF ivars
<1> QED
  BY <1>1, <1>2, <1>3, <1>4, <1>5, <1>6, <1>7, <1>8, <1>9, <1>10, <1>11
     DEF INext, UpdateStep, UninstallStep, InstallStep

\* A conf of a release, merged with any other, is a conf of that release.
LEMMA ConfsClosed ==
  /\ NoConf \in Confs
  /\ \A keys \in Releases : Default(keys) \in Confs
  /\ \A old, new \in Confs : Merged(old, new) \in Confs
  /\ \A c \in Confs : Filled(c) \in Confs
  /\ \A c \in Confs : \A k \in DOMAIN c, v \in {"user", "default"} : [c EXCEPT ![k] = v] \in Confs
<1>1. NoConf \in Confs /\ \A keys \in Releases : Default(keys) \in Confs
  <2>1. NoConf \in Confs
    BY DEF Confs
  <2>2. ASSUME NEW keys \in Releases  PROVE Default(keys) \in Confs
    <3>1. Default(keys) \in [keys -> Values]
      BY DEF Default, Values
    <3> QED
      BY <3>1 DEF Confs
  <2> QED
    BY <2>1, <2>2
<1>2. ASSUME NEW c \in Confs
      PROVE  /\ c = [k \in DOMAIN c |-> c[k]]
             /\ \A k \in DOMAIN c : c[k] \in Values
             /\ DOMAIN c \in Releases \/ c = NoConf
  <2>1. CASE c = NoConf
    BY <2>1 DEF NoConf
  <2>2. ASSUME NEW keys \in Releases, c \in [keys -> Values]
        PROVE  /\ c = [k \in DOMAIN c |-> c[k]]
               /\ \A k \in DOMAIN c : c[k] \in Values
               /\ DOMAIN c \in Releases
    BY <2>2
  <2>3. c = NoConf \/ \E keys \in Releases : c \in [keys -> Values]
    BY DEF Confs
  <2> QED
    BY <2>1, <2>2, <2>3
<1>3. ASSUME NEW old \in Confs, NEW new \in Confs  PROVE Merged(old, new) \in Confs
  <2>1. CASE new = NoConf
    <3>1. Merged(old, new) = NoConf
      BY <2>1 DEF Merged, NoConf
    <3> QED
      BY <1>1, <3>1
  <2>2. CASE DOMAIN new \in Releases
    <3>1. Merged(old, new) \in [DOMAIN new -> Values]
      BY <1>2 DEF Merged
    <3> QED
      BY <2>2, <3>1 DEF Confs
  <2> QED
    BY <1>2, <2>1, <2>2
<1>4. ASSUME NEW c \in Confs, NEW k \in DOMAIN c, NEW v \in {"user", "default"}
      PROVE  [c EXCEPT ![k] = v] \in Confs
  <2>1. c # NoConf
    BY DEF NoConf
  <2>2. [c EXCEPT ![k] = v] \in [DOMAIN c -> Values]
    BY <1>2 DEF Values
  <2> QED
    BY <1>2, <2>1, <2>2 DEF Confs
<1>5. ASSUME NEW c \in Confs  PROVE Filled(c) \in Confs
  <2>1. CASE c = NoConf
    <3>1. Filled(c) = NoConf
      BY <2>1 DEF Filled, NoConf
    <3> QED
      BY <1>1, <3>1
  <2>2. CASE DOMAIN c \in Releases
    <3>1. Filled(c) \in [DOMAIN c -> Values]
      BY <1>2 DEF Filled, Fill, Values
    <3> QED
      BY <2>2, <3>1 DEF Confs
  <2> QED
    BY <1>2, <2>1, <2>2
<1> QED
  BY <1>1, <1>3, <1>4, <1>5

\* The steps that touch a conf, a key or a working directory.
LEMMA ContentsStep == UInv /\ UInv' /\ Contents /\ [INext]_ivars => Contents'
<1> SUFFICES ASSUME UInv, UInv', Contents, [INext]_ivars  PROVE Contents'
  OBVIOUS
<1>0. /\ NoWork \in Works /\ (work # NoWork => updating)
      /\ updating => installing /\ pc # "idle"
      /\ pc \in {"backup", "verdict"} \cup Merging => updating
  BY ConfsClosed DEF NoWork, Works, Contents, UInv
<1> USE <1>0, ConfsClosed DEF Contents, Goto, Finish, InstallerEnds, mode, ghosts, data, carried
<1>1. CASE BeginInstall \/ BeginUninstall \/ BeginUpdate
  BY <1>1 DEF BeginInstall, BeginUninstall, BeginUpdate, Begin
<1>2. CASE Backup
  BY <1>2 DEF Backup, Works
<1>3. CASE Clone \/ Merge \/ Confirm \/ Abort \/ Verdict
  BY <1>3 DEF Clone, Merge, Confirm, Abort, Verdict
<1>4. CASE ConflictStep
  BY <1>4 DEF ConflictStep, StopLegacy, UnlinkLegacy, SaveKey
<1>5. CASE Disable \/ DisableNotify \/ StopNotify \/ RemoveTree \/ UnlinkUnits \/ UnlinkPaths
  BY <1>5 DEF Disable, DisableNotify, StopNotify, RemoveTree, UnlinkUnits, UnlinkPaths
<1>6. CASE MakeLib \/ MoveKeyBack \/ CopyConf \/ SetMac \/ Authorize
  BY <1>6 DEF MakeLib, MoveKeyBack, CopyConf, SetMac, Authorize
<1>7. CASE Pip \/ WriteWrappers \/ WriteUnits \/ WriteShim \/ WriteHook \/ LinkCommand
  BY <1>7 DEF Pip, WriteWrappers, WriteUnits, WriteShim, WriteHook, LinkCommand, Put
<1>8. CASE EnableBoot \/ EnableMonitor \/ EnableSleep \/ EnableNotify
  BY <1>8 DEF EnableBoot, EnableMonitor, EnableSleep, EnableNotify, Enable
<1>9. CASE Fail \/ Interrupt
  BY <1>9 DEF Fail, Interrupt
<1>10. CASE Edit \/ Pair \/ Reboot
  BY <1>10 DEF Edit, Pair, Reboot, Quietly
<1>11. CASE UNCHANGED ivars
  BY <1>11 DEF ivars
<1> QED
  BY <1>1, <1>2, <1>3, <1>4, <1>5, <1>6, <1>7, <1>8, <1>9, <1>10, <1>11
     DEF INext, UpdateStep, UninstallStep, InstallStep

\* A conf is always one of a release, whatever was merged and edited, and nothing but
\* an update has a working directory: no way out of one forgets to leave or remove it.
THEOREM ITypeSafe == ISpec => []ITypeOK
<1>1. IInit => Noted /\ Shapes /\ Contents
  <2> SUFFICES ASSUME IInit  PROVE Noted /\ Shapes /\ Contents
    OBVIOUS
  <2>1. Noted
    BY Zenon DEF IInit, Noted
  <2>2. Shapes
    BY DEF IInit, Shapes, Labels, Versions, Order
  <2>3. Contents
    BY ConfsClosed DEF IInit, Contents, Works, NoWork
  <2> QED
    BY <2>1, <2>2, <2>3
<1>2. FInv /\ Noted /\ Shapes /\ Contents => ITypeOK
  <2> SUFFICES ASSUME FInv, Noted, Shapes, Contents  PROVE ITypeOK
    OBVIOUS
  <2>1. {installing, updating, sudo, hadKey} \subseteq BOOLEAN
    BY Zenon DEF Noted
  <2> QED
    BY <2>1 DEF FInv, Shapes, Contents, ITypeOK, Parts
<1> QED
  BY <1>1, <1>2, NotedStep, ShapesStep, ContentsStep, FInvInitially, FInvStep, UInvInitially, UInvStep, PTL DEF ISpec
=============================================================================
