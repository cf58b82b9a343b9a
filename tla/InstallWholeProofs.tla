------------------------ MODULE InstallWholeProofs ------------------------
(* That an installation that gets to its end is whole, and an uninstalla-   *)
(* tion leaves nothing, whatever wreck it started from, but for the         *)
(* failures that they pass over.                                            *)
EXTENDS InstallProofs

\* The labels of an installation from each of its steps on, and those of the
\* uninstallation before it once every unit is disabled.
FromEnableNotify == {"enable_notify", "authorize"}
FromEnableSleep == {"enable_sleep"} \cup FromEnableNotify
FromEnableMonitor == {"enable_monitor"} \cup FromEnableSleep
FromEnable == {"enable"} \cup FromEnableMonitor
FromLink == {"link"} \cup FromEnable
FromHook == {"hook"} \cup FromLink
FromShim == {"shim"} \cup FromHook
FromMac == {"mac"} \cup FromShim
FromKey == {"key", "conf", "units"} \cup FromMac
FromWrappers == {"wrappers"} \cup FromKey
FromMkLib == {"mklib", "pip"} \cup FromWrappers
Unlinking == {"unlink", "unlink_paths"}
FromRmTree == {"rmtree"} \cup Unlinking \cup FromMkLib
FromStopNotify == {"stop_notify"} \cup FromRmTree

\* What an installation has written and wants at each of its labels.
Written(p) ==
    \/ p = "lib" /\ pc \in FromWrappers
    \/ p = "bin" /\ pc \in FromKey
    \/ p \in Units \ {"sleep"} /\ pc \in FromMac
    \/ p \in {"shim", "predown"} /\ machine.dispatcher /\ pc \in FromHook
    \/ p = "sleep" /\ machine.readOnly /\ pc \in FromLink
    \/ p = "hook" /\ ~machine.readOnly /\ pc \in FromLink
    \/ p = "link" /\ pc \in FromEnable
WantedSoFar(u) ==
    \/ u \in {"boot", "shutdown"} /\ pc \in FromEnableMonitor
    \/ u = "monitor" /\ pc \in FromEnableSleep
    \/ u = "sleep" /\ machine.readOnly /\ pc \in FromEnableNotify
    \/ u = "notify" /\ pc = "authorize"

\* The user's services are to be reached, and were at every call.
Reaching == sudo /\ "session" \notin ignored

\* An uninstallation removes part after part, an installation writes part after part,
\* over what could not be removed; no hook where /usr cannot be written, and nothing of
\* the dispatcher's where there is none.
FilesInv ==
    /\ machine.readOnly => files["hook"] = "none"
    /\ ~machine.dispatcher => files["shim"] = "none" /\ files["predown"] = "none"
    /\ pc \in Unlinking /\ "tree" \notin ignored => \A p \in InstallDir : files[p] = "none"
    /\ pc = "unlink_paths" => \A p \in Units : files[p] = "none"
    /\ pc \in FromMkLib => \A u \in Units : files[u] = IF Written(u) THEN "new" ELSE "none"
    /\ pc \in FromMkLib => \A p \in Hooks \cup {"bin"} : Written(p) => files[p] = "new"
    /\ pc \in FromWrappers => files["lib"] = "new"

WantsInv ==
    /\ "sleep" \in enabled => machine.readOnly
    /\ pc \in FromStopNotify => \A u \in Units : WantedSoFar(u) => u \in enabled
    /\ pc \in NoneWanted \cup Unlinking /\ Disabling => enabled = {}

\* Unless a disable has failed, a system service runs only from a unit that is there, so
\* that disabling what is there stops it; from then on it runs when the installation has
\* started it.
RunningInv ==
    /\ running \in [Services -> Versions]
    /\ Disabling => \A s \in {"monitor", "sleep"} : running[s] # "none" => files[s] # "none"
    /\ pc = "disable" /\ Disabling =>
         \A n \in 1..next - 1, s \in {"monitor", "sleep"} : s = Order[n] => running[s] = "none"
    /\ pc \in FromStopNotify /\ Disabling =>
         /\ running["monitor"] = IF pc \in FromEnableSleep THEN "new" ELSE "none"
         /\ running["sleep"] = IF pc \in FromEnableNotify /\ machine.readOnly THEN "new" ELSE "none"
    /\ pc \in FromRmTree /\ Reaching => running["notify"] = IF pc = "authorize" THEN "new" ELSE "none"

\* Where the key is that was there at the beginning.
KeyInv ==
    /\ pc \in Unlinking /\ "tree" \notin ignored => conf = NoConf /\ key = "none"
    /\ hadKey =>
         /\ pc \in Before => key = "good"
         /\ pc \in {"disable", "stop_notify", "rmtree"} \cup Unlinking /\ installing => saved = "good"
         /\ pc \in {"mklib", "pip", "wrappers", "key"} => saved = "good"
         /\ pc \in {"conf", "units"} \cup FromMac => key = "good"

EndInv ==
    /\ outcome # "none" => pc \in {"idle", "verdict"}
    /\ pc = "verdict" => outcome # "uninstalled"
    /\ InstallIsWhole
    /\ UninstallLeavesNothing

WInv == FilesInv /\ WantsInv /\ RunningInv /\ KeyInv /\ EndInv

\* The invariant holds at the beginning.
LEMMA WInvInitially == IInit => WInv
<1> SUFFICES ASSUME IInit PROVE WInv
  OBVIOUS
<1> USE DEF IInit, Parts, Services, Versions, Before, Unlinking, FromRmTree, FromStopNotify, FromMkLib, FromWrappers, FromKey,
        FromMac, FromShim, FromHook, FromLink, FromEnable, FromEnableMonitor, FromEnableSleep, FromEnableNotify
<1>1. FilesInv
  BY DEF FilesInv, Hooks
<1>2. WantsInv
  BY DEF WantsInv, NoneWanted
<1>3. RunningInv
  BY DEF RunningInv
<1>4. KeyInv
  BY DEF KeyInv
<1>5. EndInv
  BY DEF EndInv, InstallIsWhole, UninstallLeavesNothing
<1> QED
  BY <1>1, <1>2, <1>3, <1>4, <1>5 DEF WInv

\* A whole installation, and what is left of one removed.
Whole ==
    /\ \A p \in Parts : files[p] = IF p \in Installed THEN "new" ELSE "none"
    /\ enabled = Wanted
    /\ Disabling => /\ running["monitor"] = "new"
                    /\ running["sleep"] = IF machine.readOnly THEN "new" ELSE "none"
    /\ Reaching => running["notify"] = "new"
    /\ hadKey => key = "good"
Clean ==
    /\ \A p \in Parts : files[p] # "none" => \/ p \in InstallDir /\ "tree" \in ignored
                                             \/ p \in Hooks /\ "paths" \in ignored
    /\ "tree" \notin ignored => conf = NoConf /\ key = "none"
    /\ Disabling => enabled = {} /\ running["monitor"] = "none" /\ running["sleep"] = "none"
    /\ Reaching => running["notify"] = "none"

\* The two properties say just that of the ways to end.
LEMMA EndsSay ==
    FInv => /\ InstallIsWhole <=> (outcome \in {"installed", "unpaired", "updated"} => Whole)
            /\ UninstallLeavesNothing <=> (outcome = "uninstalled" => Clean)
BY Zenon DEF FInv, InstallIsWhole, UninstallLeavesNothing, Whole, Clean, Disabling, Reaching

\* Where nothing installed changes, and no label is reached of which the invariant says
\* something new, it holds on.
LEMMA StillStep ==
    ASSUME FInv, FInv', WInv,
           UNCHANGED <<machine, files, enabled, running, sudo, hadKey, ignored, conf>>,
           pc' \in Before \cup {"disable", "idle", "verdict"},
           pc' = "disable" => next' = 1,
           UNCHANGED outcome \/ outcome' \notin {"installed", "unpaired", "updated", "uninstalled"}
             \/ (outcome \in {"installed", "unpaired"} /\ outcome' \in {"updated", "unpaired"}),
           outcome' # "none" => pc' \in {"idle", "verdict"},
           pc' = "verdict" => outcome' # "uninstalled",
           outcome' \in {"installed", "unpaired", "updated", "uninstalled"} => UNCHANGED key,
           hadKey /\ pc' \in Before => key' = "good",
           hadKey /\ pc' = "disable" /\ installing' => saved' = "good"
    PROVE  WInv'
<1> USE DEF Before, Unlinking, FromRmTree, FromStopNotify, FromMkLib, FromWrappers, FromKey,
        FromMac, FromShim, FromHook, FromLink, FromEnable, FromEnableMonitor, FromEnableSleep, FromEnableNotify
<1>1. FilesInv'
  BY DEF WInv, FilesInv
<1>2. WantsInv'
  BY DEF WInv, WantsInv, NoneWanted
<1>3. RunningInv'
  BY DEF WInv, RunningInv, Disabling
<1>4. KeyInv'
  BY DEF WInv, KeyInv
<1>5. EndInv'
  <2>0. (Disabling' <=> Disabling) /\ (Reaching' <=> Reaching)
    BY Zenon DEF Disabling, Reaching
  <2>1. Whole /\ UNCHANGED key => Whole'
    BY <2>0 DEF Whole, Installed, Wanted
  <2>2. Clean /\ UNCHANGED key => Clean'
    BY <2>0 DEF Clean
  <2>3. outcome' \in {"installed", "unpaired", "updated"} => Whole'
    BY <2>1, EndsSay DEF WInv, EndInv
  <2>4. outcome' = "uninstalled" => Clean'
    BY <2>2, EndsSay DEF WInv, EndInv
  <2>5. InstallIsWhole' /\ UninstallLeavesNothing'
    BY <2>3, <2>4, Zenon DEF FInv, InstallIsWhole, UninstallLeavesNothing, Whole, Clean, Disabling, Reaching
  <2> QED
    BY <2>5 DEF EndInv
<1> QED
  BY <1>1, <1>2, <1>3, <1>4, <1>5 DEF WInv

\* Before the uninstallation, at the end of an update and where a command is cut off
\* nothing installed changes.
LEMMA QuietStep ==
    FInv /\ FInv' /\ WInv /\ (\/ Backup \/ Clone \/ Merge \/ Confirm \/ Abort \/ Verdict
             \/ StopLegacy \/ UnlinkLegacy \/ SaveKey \/ Fail \/ Interrupt) => WInv'
<1> SUFFICES ASSUME FInv, FInv', WInv, \/ Backup \/ Clone \/ Merge \/ Confirm \/ Abort \/ Verdict
                          \/ StopLegacy \/ UnlinkLegacy \/ SaveKey \/ Fail \/ Interrupt
             PROVE  WInv'
  OBVIOUS
<1> USE DEF Backup, Clone, Merge, Confirm, Abort, Verdict, StopLegacy, UnlinkLegacy, SaveKey, Fail, Interrupt,
         Goto, Finish, InstallerEnds, Before
<1>1. /\ UNCHANGED <<machine, files, enabled, running, data, hadKey, ignored, sudo>>
      /\ pc' \in Before \cup {"disable", "idle", "verdict"}
  BY DEF system, ghosts, mode
<1>2. /\ pc' = "disable" => next' = 1 /\ saved' = key /\ pc \in Before
      /\ pc' \in Before => pc \in Before
  BY DEF FInv
<1>3. \/ UNCHANGED outcome \/ outcome' \in {"failed", "aborted", "interrupted"}
      \/ outcome \in {"installed", "unpaired"} /\ outcome' \in {"updated", "unpaired"}
  BY DEF WInv, EndInv
<1>4. /\ outcome' # "none" => pc' \in {"idle", "verdict"}
      /\ pc' = "verdict" => outcome' # "uninstalled"
  BY DEF WInv, EndInv, Preparing, Rebuilding
<1>5. hadKey /\ pc \in Before => key = "good"
  BY DEF WInv, KeyInv
<1> QED
  BY <1>1, <1>2, <1>3, <1>4, <1>5, StillStep DEF data

\* A command begins, and what happens between two.
LEMMA BetweenStep ==
    FInv /\ FInv' /\ WInv /\ (\/ BeginInstall \/ BeginUninstall \/ BeginUpdate \/ Edit \/ Pair \/ Reboot
                     \/ UNCHANGED ivars) => WInv'
<1> SUFFICES ASSUME FInv, FInv', WInv, \/ BeginInstall \/ BeginUninstall \/ BeginUpdate \/ Edit \/ Pair
                                      \/ Reboot \/ UNCHANGED ivars
             PROVE  WInv'
  OBVIOUS
<1> USE DEF Before, Unlinking, FromRmTree, FromStopNotify, FromMkLib, FromWrappers, FromKey,
        FromMac, FromShim, FromHook, FromLink, FromEnable, FromEnableMonitor, FromEnableSleep, FromEnableNotify
<1>1. CASE BeginInstall \/ BeginUninstall \/ BeginUpdate
  <2>1. PICK first \in {"conflict", "disable", "backup"} :
            Begin(first) /\ (first = "disable" => installing' = FALSE)
    BY <1>1 DEF BeginInstall, BeginUninstall, BeginUpdate
  <2>2. /\ pc' = first /\ next' = 1 /\ outcome' = "none" /\ hadKey' = (key = "good")
        /\ files' = Aged(files) /\ running' = Aged(running) /\ UNCHANGED <<machine, enabled, key>>
    BY <2>1 DEF Begin, data
  <2>10. Disabling' => \A s \in {"monitor", "sleep"} : running[s] # "none" => files[s] # "none"
    BY <2>1 DEF Begin, Dangling, Disabling, WInv, RunningInv
  <2>3. \A p \in Parts : files'[p] = "none" <=> files[p] = "none"
    BY <2>2 DEF Aged, FInv, Versions
  <2>4. /\ running' \in [Services -> Versions]
        /\ \A s \in Services : running'[s] = "none" <=> running[s] = "none"
    BY <2>2 DEF Aged, WInv, RunningInv, Versions
  <2>5. FilesInv'
    BY <2>2, <2>3 DEF WInv, FilesInv, Parts, Hooks
  <2>6. WantsInv'
    BY <2>2 DEF WInv, WantsInv, NoneWanted
  <2>7. RunningInv'
    BY <2>2, <2>3, <2>4, <2>10 DEF WInv, RunningInv, Services, Parts, Units
  <2>8. KeyInv'
    BY <2>1, <2>2 DEF WInv, KeyInv
  <2>9. EndInv'
    BY <2>2 DEF WInv, EndInv, InstallIsWhole, UninstallLeavesNothing
  <2> QED
    BY <2>5, <2>6, <2>7, <2>8, <2>9 DEF WInv
<1>2. CASE Edit \/ Pair \/ Reboot
  <2>1. /\ pc = "idle" /\ pc' = "idle" /\ outcome' = "none" /\ UNCHANGED <<machine, files, enabled, ignored>>
    BY <1>2 DEF Edit, Pair, Reboot, Quietly, system, ghosts
  <2>2. /\ running' \in [Services -> Versions]
        /\ Disabling => \A s \in {"monitor", "sleep"} : running'[s] # "none" => files[s] # "none"
    BY <1>2 DEF Edit, Pair, Reboot, WInv, RunningInv, system, Services, FInv, Parts, InstallDir, Versions
  <2>3. FilesInv'
    BY <2>1 DEF WInv, FilesInv
  <2>4. WantsInv' /\ KeyInv'
    BY <2>1 DEF WInv, WantsInv, KeyInv, NoneWanted
  <2>5. RunningInv'
    BY <2>1, <2>2 DEF WInv, RunningInv, Disabling
  <2>6. EndInv'
    BY <2>1 DEF WInv, EndInv, InstallIsWhole, UninstallLeavesNothing
  <2> QED
    BY <2>3, <2>4, <2>5, <2>6 DEF WInv
<1>3. CASE UNCHANGED ivars
  <2> USE <1>3 DEF ivars, system, data, carried, mode, ghosts
  <2>1. FilesInv'
    BY DEF WInv, FilesInv, Written
  <2>2. WantsInv'
    BY DEF WInv, WantsInv, WantedSoFar, Disabling
  <2>3. RunningInv'
    <3>1. (Disabling' <=> Disabling) /\ (Reaching' <=> Reaching)
      BY Zenon DEF Disabling, Reaching
    <3> QED
      BY <3>1 DEF WInv, RunningInv
  <2>4. KeyInv'
    BY DEF WInv, KeyInv
  <2>5. EndInv'
    BY DEF WInv, EndInv, InstallIsWhole, UninstallLeavesNothing, Installed, Wanted
  <2> QED
    BY <2>1, <2>2, <2>3, <2>4, <2>5 DEF WInv
<1> QED
  BY <1>1, <1>2, <1>3

\* The uninstallation stops and disables what is there, then unlinks it.
LEMMA RemovalStep ==
    FInv /\ FInv' /\ WInv /\ (Disable \/ DisableNotify \/ StopNotify \/ RemoveTree \/ UnlinkUnits) => WInv'
<1> SUFFICES ASSUME FInv, FInv', WInv, Disable \/ DisableNotify \/ StopNotify \/ RemoveTree \/ UnlinkUnits
             PROVE  WInv'
  OBVIOUS
<1> USE DEF Before, Unlinking, FromRmTree, FromStopNotify, FromMkLib, FromWrappers, FromKey,
        FromMac, FromShim, FromHook, FromLink, FromEnable, FromEnableMonitor, FromEnableSleep, FromEnableNotify
<1>0. Order[1] = "boot" /\ Order[2] = "shutdown" /\ Order[3] = "monitor" /\ Order[4] = "sleep" /\ Len(Order) = 4
  BY DEF Order
<1>1. /\ UNCHANGED <<machine, outcome, hadKey, saved, installing, sudo>>
      /\ pc' \in {"disable", "stop_notify", "rmtree", "unlink", "unlink_paths"}
      /\ outcome = "none"
  BY DEF Disable, DisableNotify, StopNotify, RemoveTree, UnlinkUnits, Goto, mode, carried, ghosts, WInv, EndInv
<1>11. ignored \subseteq ignored'
  BY DEF Disable, DisableNotify, StopNotify, RemoveTree, UnlinkUnits, Ignore, ghosts
<1>12. (Disabling' => Disabling) /\ (Reaching' => Reaching)
  <2>1. UNCHANGED sudo
    BY Zenon DEF Disable, DisableNotify, StopNotify, RemoveTree, UnlinkUnits, Goto, mode
  <2> QED
    BY <1>11, <2>1, Zenon DEF Disabling, Reaching
<1>2. EndInv'
  BY <1>1 DEF EndInv, InstallIsWhole, UninstallLeavesNothing
<1>3. KeyInv'
  <2>1. CASE RemoveTree
    <3>1. pc = "rmtree" /\ pc' = "unlink" /\ ("tree" \notin ignored' => conf' = NoConf /\ key' = "none")
      BY <2>1 DEF RemoveTree, Ignore, Goto
    <3> QED
      BY <1>1, <3>1 DEF WInv, KeyInv
  <2>2. CASE Disable \/ DisableNotify \/ StopNotify
    BY <1>1, <2>2 DEF WInv, KeyInv, Disable, DisableNotify, StopNotify, Goto, data
  <2>3. CASE UnlinkUnits
    BY <1>1, <2>3 DEF WInv, KeyInv, UnlinkUnits, Goto, data, ghosts
  <2> QED
    BY <2>1, <2>2, <2>3
<1>4. FilesInv'
  <2>1. CASE RemoveTree
    <3>1. /\ pc' = "unlink" /\ \A p \in Parts \ InstallDir : files'[p] = files[p]
          /\ "tree" \notin ignored' => \A p \in InstallDir : files'[p] = "none"
      BY <2>1 DEF RemoveTree, Ignore, Goto, Gone, FInv
    <3> QED
      BY <1>1, <3>1 DEF WInv, FilesInv, Parts, InstallDir, Units, Hooks
  <2>2. CASE Disable \/ DisableNotify \/ StopNotify
    BY <1>1, <2>2 DEF WInv, FilesInv, Disable, DisableNotify, StopNotify, Goto
  <2>3. CASE UnlinkUnits
    BY <1>1, <2>3 DEF WInv, FilesInv, FInv, UnlinkUnits, Goto, Gone, Parts, InstallDir, Units, Hooks, ghosts
  <2> QED
    BY <2>1, <2>2, <2>3
<1>5. WantsInv'
  <2>1. enabled' \subseteq enabled
    BY DEF Disable, DisableNotify, StopNotify, RemoveTree, UnlinkUnits
  <2>2. pc' \in NoneWanted \cup Unlinking /\ Disabling' => enabled' = {}
    <3>1. CASE UnlinkUnits \/ RemoveTree \/ StopNotify
      BY <1>12, <2>1, <3>1 DEF UnlinkUnits, RemoveTree, StopNotify, FInv, NoneWanted
    <3>2. CASE DisableNotify \/ Disable
      BY <1>1, <3>2 DEF FInv, NoneWanted, DisableNotify, Disable, Goto
    <3> QED
      BY <3>1, <3>2
  <2> QED
    BY <1>1, <2>1, <2>2 DEF WInv, WantsInv, WantedSoFar
<1>6. RunningInv'
  <2>1. CASE Disable
    <3>1. pc = "disable" /\ pc' = "disable" /\ next \in 0..4 /\ next' = next + 1 /\ UNCHANGED files
      BY <1>0, <2>1 DEF Disable, FInv
    <3>2. /\ running' \in [Services -> Versions]
          /\ \A s \in Services : \/ running'[s] = running[s]
                                \/ running'[s] = "none"
          /\ Disabling' => \A s \in Services : s = Order[next] /\ files[s] # "none" => running'[s] = "none"
      <4>1. CASE files[Order[next]] = "none"
        BY <2>1, <4>1 DEF Disable, WInv, RunningInv
      <4>2. CASE files[Order[next]] # "none"
        BY <2>1, <4>2 DEF Disable, Ignore, Disabling, WInv, RunningInv, Versions
      <4> QED
        BY <4>1, <4>2
    <3>3. \A s \in {"monitor", "sleep"} : s \in Services
      BY DEF Services
    <3>4. \A n \in 1..next' - 1 : n \in 1..next - 1 \/ n = next
      BY <3>1
    <3> QED
      BY <1>12, <3>1, <3>2, <3>3, <3>4 DEF WInv, RunningInv
  <2>2. CASE DisableNotify
    <3>1. pc = "disable" /\ pc' = "stop_notify" /\ next > 4 /\ next \in Nat /\ UNCHANGED <<files, running>>
      BY <1>0, <2>2 DEF DisableNotify, Goto, FInv
    <3>2. 3 \in 1..next - 1 /\ 4 \in 1..next - 1
      BY <3>1
    <3>3. Disabling => running["monitor"] = "none" /\ running["sleep"] = "none"
      BY <1>0, <3>1, <3>2 DEF WInv, RunningInv
    <3> QED
      BY <1>12, <3>1, <3>3 DEF WInv, RunningInv
  <2>3. CASE StopNotify
    <3>1. pc = "stop_notify" /\ pc' = "rmtree" /\ UNCHANGED files
      BY <2>3 DEF StopNotify, Goto
    <3>2. running' \in {running, [running EXCEPT !["notify"] = "none"]}
      BY <2>3 DEF StopNotify
    <3>3. /\ running' \in [Services -> Versions] /\ running'["monitor"] = running["monitor"]
          /\ running'["sleep"] = running["sleep"]
      BY <3>2 DEF WInv, RunningInv, Services, Versions
    <3>4. Disabling' => /\ running["monitor"] = "none" /\ running["sleep"] = "none"
                        /\ \A s \in {"monitor", "sleep"} : running[s] # "none" => files[s] # "none"
      BY <1>12, <3>1 DEF WInv, RunningInv
    <3>5. Reaching' => running'["notify"] = "none"
      <4>1. UNCHANGED sudo /\ ("session" \in ignored' \/ ~(sudo /\ running'["notify"] # "none"))
        BY <2>3, Zenon DEF StopNotify, Ignore, Goto, mode
      <4> QED
        BY <4>1, Zenon DEF Reaching
    <3> QED
      BY <3>1, <3>3, <3>4, <3>5 DEF RunningInv
  <2>4. CASE RemoveTree \/ UnlinkUnits
    <3>1. pc \in {"rmtree", "unlink"} /\ pc' \in Unlinking /\ UNCHANGED running
      BY <1>1, <2>4 DEF RemoveTree, UnlinkUnits, Goto
    <3>2. /\ running \in [Services -> Versions]
          /\ Disabling => running["monitor"] = "none" /\ running["sleep"] = "none"
          /\ Reaching => running["notify"] = "none"
      BY <3>1 DEF WInv, RunningInv
    <3> QED
      BY <1>12, <3>1, <3>2 DEF RunningInv
  <2> QED
    BY <2>1, <2>2, <2>3, <2>4
<1> QED
  BY <1>2, <1>3, <1>4, <1>5, <1>6 DEF WInv

\* The last step of an uninstallation, which leaves nothing or begins the installation.
LEMMA LastRemovalStep == FInv /\ FInv' /\ WInv /\ UnlinkPaths => WInv'
<1> SUFFICES ASSUME FInv, FInv', WInv, UnlinkPaths PROVE WInv'
  OBVIOUS
<1> USE DEF Before, Unlinking, FromRmTree, FromStopNotify, FromMkLib, FromWrappers, FromKey,
        FromMac, FromShim, FromHook, FromLink, FromEnable, FromEnableMonitor, FromEnableSleep, FromEnableNotify
<1>1. /\ pc = "unlink_paths" /\ UNCHANGED <<machine, enabled, running, conf, key, saved, hadKey, sudo>>
      /\ \/ installing /\ pc' = "mklib" /\ UNCHANGED outcome
         \/ pc' = "idle" /\ outcome' = "uninstalled"
  BY DEF UnlinkPaths, Goto, Finish, data, carried, mode
<1>11. /\ ignored \subseteq ignored' /\ ("tree" \in ignored' => "tree" \in ignored)
       /\ (Disabling' <=> Disabling) /\ (Reaching' => Reaching)
  <2>1. UNCHANGED sudo
    BY Zenon DEF UnlinkPaths, Goto, Finish, mode
  <2>2. ignored' \in {ignored, ignored \cup {"paths"}}
    BY DEF UnlinkPaths, Ignore
  <2>3. ("disable" \in ignored <=> "disable" \in ignored') /\ ("session" \in ignored => "session" \in ignored')
    BY <2>2
  <2> QED
    BY <2>1, <2>2, <2>3, Zenon DEF Disabling, Reaching
<1>2. /\ \A p \in Parts \ Hooks : files'[p] = files[p]
      /\ \A p \in Hooks : files'[p] \in {"none", files[p]}
      /\ "paths" \notin ignored' => \A p \in Hooks : files'[p] = "none"
  BY DEF WInv, FilesInv, UnlinkPaths, Ignore, Gone, Teardown, Parts, FInv
<1>3. FilesInv'
  BY <1>1, <1>2 DEF WInv, FilesInv, Written, Parts, InstallDir, Units, Hooks
<1>4. Disabling => enabled = {}
  BY <1>1 DEF WInv, WantsInv
<1>5. WantsInv'
  BY <1>1 DEF WInv, WantsInv, WantedSoFar, NoneWanted
<1>6. /\ running \in [Services -> Versions]
      /\ Disabling => /\ running["monitor"] = "none" /\ running["sleep"] = "none"
  BY <1>1 DEF WInv, RunningInv
<1>7. Reaching' => running'["notify"] = "none"
  BY <1>1, <1>11 DEF WInv, RunningInv
<1>8. RunningInv'
  BY <1>1, <1>11, <1>6, <1>7 DEF RunningInv
<1>9. KeyInv'
  BY <1>1 DEF WInv, KeyInv
<1>10. EndInv'
  <2>1. outcome = "none"
    BY <1>1 DEF WInv, EndInv
  <2>2. \A p \in Parts : files'[p] # "none" => \/ p \in InstallDir /\ "tree" \in ignored'
                                               \/ p \in Hooks /\ "paths" \in ignored'
    BY <1>1, <1>11, <1>2 DEF WInv, FilesInv, Parts
  <2>3. "tree" \notin ignored' => conf' = NoConf /\ key' = "none"
    BY <1>1, <1>11 DEF WInv, KeyInv
  <2>4. Disabling' => enabled' = {} /\ running'["monitor"] = "none" /\ running'["sleep"] = "none"
    BY <1>1, <1>11, <1>4, <1>6
  <2>5. Clean'
    BY <1>7, <2>2, <2>3, <2>4, Zenon DEF Clean
  <2>6. UninstallLeavesNothing'
    BY <2>5, Zenon DEF UninstallLeavesNothing, Clean, Disabling, Reaching, FInv
  <2>7. InstallIsWhole' /\ (outcome' # "none" => pc' \in {"idle", "verdict"})
                      /\ (pc' = "verdict" => outcome' # "uninstalled")
    BY <1>1, <2>1 DEF InstallIsWhole
  <2> QED
    BY <2>6, <2>7, Zenon DEF EndInv
<1> QED
  BY <1>3, <1>5, <1>8, <1>9, <1>10 DEF WInv

\* What a step of an installation leaves alone when it writes files.
Writing ==
    /\ UNCHANGED <<machine, enabled, running, hadKey, ignored, sudo, outcome>>
    /\ pc \in {"mklib", "pip", "wrappers", "key", "conf", "units", "mac", "shim", "hook", "link"}
    /\ pc' \in {"pip", "wrappers", "key", "conf", "units", "mac", "shim", "hook", "link", "enable"}

\* Wants, services and outcome of a step that writes files.
LEMMA WritingStep == WInv /\ Writing => WantsInv' /\ RunningInv' /\ EndInv'
<1> SUFFICES ASSUME WInv, Writing PROVE WantsInv' /\ RunningInv' /\ EndInv'
  OBVIOUS
<1> USE DEF Before, Unlinking, FromRmTree, FromStopNotify, FromMkLib, FromWrappers, FromKey,
        FromMac, FromShim, FromHook, FromLink, FromEnable, FromEnableMonitor, FromEnableSleep, FromEnableNotify
<1>0. /\ UNCHANGED <<machine, enabled, running, outcome>>
      /\ pc' \in {"pip", "wrappers", "key", "conf", "units", "mac", "shim", "hook", "link", "enable"}
      /\ pc \in {"mklib", "pip", "wrappers", "key", "conf", "units", "mac", "shim", "hook", "link"}
  BY DEF Writing
<1>1. WantsInv'
  BY <1>0 DEF WInv, WantsInv, WantedSoFar, NoneWanted
<1>2. RunningInv'
  <2>1. (Disabling' <=> Disabling) /\ (Reaching' <=> Reaching)
    BY Zenon DEF Writing, Disabling, Reaching
  <2>2. /\ running \in [Services -> Versions]
        /\ Disabling => /\ running["monitor"] = "none" /\ running["sleep"] = "none"
        /\ Reaching => running["notify"] = "none"
    BY <1>0 DEF WInv, RunningInv
  <2>3. Disabling => \A s \in {"monitor", "sleep"} : running'[s] = "none"
    BY <1>0, <2>2
  <2> QED
    BY <1>0, <2>1, <2>2, <2>3 DEF RunningInv
<1>3. EndInv'
  BY <1>0 DEF WInv, EndInv, InstallIsWhole, UninstallLeavesNothing
<1> QED
  BY <1>1, <1>2, <1>3

\* Each step of an installation writes what its next label says.
LEMMA InstallFilesStep ==
    FInv /\ WInv /\ (\/ MakeLib \/ Pip \/ WriteWrappers \/ MoveKeyBack \/ CopyConf \/ WriteUnits
                     \/ SetMac \/ WriteShim \/ WriteHook \/ LinkCommand) => WInv'
<1> SUFFICES ASSUME FInv, WInv, \/ MakeLib \/ Pip \/ WriteWrappers \/ MoveKeyBack \/ CopyConf \/ WriteUnits
                                \/ SetMac \/ WriteShim \/ WriteHook \/ LinkCommand
             PROVE  WInv'
  OBVIOUS
<1> USE DEF Before, Unlinking, FromRmTree, FromStopNotify, FromMkLib, FromWrappers, FromKey,
        FromMac, FromShim, FromHook, FromLink, FromEnable, FromEnableMonitor, FromEnableSleep, FromEnableNotify
<1> DEFINE Step(from, parts, to) ==
             /\ pc = from /\ pc' = to /\ UNCHANGED machine
             /\ \A p \in Parts : files'[p] = IF p \in parts THEN "new" ELSE files[p]
<1>1. Writing
  BY DEF Writing, MakeLib, Pip, WriteWrappers, MoveKeyBack, CopyConf, WriteUnits, SetMac, WriteShim, WriteHook,
         LinkCommand, Put, Goto, system, mode, ghosts
<1>2. FilesInv'
  <2>1. CASE MakeLib
    <3>1. /\ pc = "mklib" /\ pc' = "pip" /\ UNCHANGED machine
          /\ \A p \in Parts \ {"lib"} : files'[p] = files[p]
      BY <2>1 DEF MakeLib, Goto, FInv, Parts
    <3> QED
      BY <3>1 DEF WInv, FilesInv, Written, Parts, InstallDir, Units, Hooks
  <2>2. CASE Pip
    <3>1. Step("pip", {"lib"}, "wrappers")
      BY <2>2 DEF Pip, Put, Goto, FInv
    <3> QED
      BY <3>1 DEF WInv, FilesInv, Written, Parts, InstallDir, Hooks, Units
  <2>3. CASE WriteWrappers
    <3>1. Step("wrappers", {"bin"}, "key")
      BY <2>3 DEF WriteWrappers, Put, Goto, FInv
    <3> QED
      BY <3>1 DEF WInv, FilesInv, Written, Parts, InstallDir, Hooks, Units
  <2>4. CASE MoveKeyBack \/ CopyConf \/ SetMac
    <3>1. Step("key", {}, "conf") \/ Step("conf", {}, "units") \/ Step("mac", {}, "shim")
      BY <2>4 DEF MoveKeyBack, CopyConf, SetMac, Goto, system
    <3> QED
      BY <3>1 DEF WInv, FilesInv, Written, Parts, InstallDir, Hooks, Units
  <2>5. CASE WriteUnits
    <3>1. Step("units", Units \ {"sleep"}, "mac")
      BY <2>5 DEF WriteUnits, Put, Goto, FInv
    <3> QED
      BY <3>1 DEF WInv, FilesInv, Written, Parts, InstallDir, Hooks, Units
  <2>6. CASE WriteShim
    <3>1. Step("shim", IF machine.dispatcher THEN {"shim", "predown"} ELSE {}, "hook")
      BY <2>6 DEF WriteShim, Put, Goto, FInv
    <3> QED
      BY <3>1 DEF WInv, FilesInv, Written, Parts, InstallDir, Hooks, Units
  <2>7. CASE WriteHook
    <3>1. Step("hook", IF machine.readOnly THEN {"sleep"} ELSE {"hook"}, "link")
      BY <2>7 DEF WriteHook, Put, Goto, FInv
    <3> QED
      BY <3>1 DEF WInv, FilesInv, Written, Parts, InstallDir, Hooks, Units
  <2>8. CASE LinkCommand
    <3>1. Step("link", {"link"}, "enable")
      BY <2>8 DEF LinkCommand, Put, Goto, FInv
    <3> QED
      BY <3>1 DEF WInv, FilesInv, Written, Parts, InstallDir, Hooks, Units
  <2> QED
    BY <2>1, <2>2, <2>3, <2>4, <2>5, <2>6, <2>7, <2>8
<1>3. KeyInv'
  <2>1. CASE MoveKeyBack
    BY <2>1 DEF MoveKeyBack, Goto, WInv, KeyInv, ghosts
  <2>2. CASE CopyConf \/ SetMac
    BY <2>2 DEF CopyConf, SetMac, Goto, WInv, KeyInv, ghosts
  <2>3. CASE MakeLib
    BY <2>3 DEF MakeLib, Goto, WInv, KeyInv, ghosts, data, carried
  <2>4. CASE Pip \/ WriteWrappers \/ WriteUnits \/ WriteShim \/ WriteHook \/ LinkCommand
    BY <2>4 DEF Pip, WriteWrappers, WriteUnits, WriteShim, WriteHook, LinkCommand, Put, Goto, WInv, KeyInv,
                ghosts, data, carried
  <2> QED
    BY <2>1, <2>2, <2>3, <2>4
<1> QED
  BY <1>1, <1>2, <1>3, WritingStep DEF WInv

\* Each step that enables wants and starts what its next label says.
LEMMA EnableStep ==
    FInv /\ FInv' /\ WInv /\ (EnableBoot \/ EnableMonitor \/ EnableSleep \/ EnableNotify) => WInv'
<1> SUFFICES ASSUME FInv, FInv', WInv, EnableBoot \/ EnableMonitor \/ EnableSleep \/ EnableNotify
             PROVE  WInv'
  OBVIOUS
<1> USE DEF Before, Unlinking, FromRmTree, FromStopNotify, FromMkLib, FromWrappers, FromKey,
        FromMac, FromShim, FromHook, FromLink, FromEnable, FromEnableMonitor, FromEnableSleep, FromEnableNotify
<1>1. /\ UNCHANGED <<machine, files, conf, key, saved, hadKey, outcome>>
      /\ pc \in {"enable", "enable_monitor", "enable_sleep", "enable_notify"}
      /\ pc' \in {"enable_monitor", "enable_sleep", "enable_notify", "authorize"}
  BY DEF EnableBoot, EnableMonitor, EnableSleep, EnableNotify, Enable, Goto, mode, data, carried, ghosts
<1>11. (Disabling' => Disabling) /\ (Reaching' => Reaching)
  <2>1. UNCHANGED sudo
    BY Zenon DEF EnableBoot, EnableMonitor, EnableSleep, EnableNotify, Enable, Goto, mode
  <2>2. ignored \subseteq ignored'
    BY DEF EnableBoot, EnableMonitor, EnableSleep, EnableNotify, Enable, Ignore, ghosts
  <2> QED
    BY <2>1, <2>2, Zenon DEF Disabling, Reaching
<1>2. FilesInv'
  BY <1>1 DEF WInv, FilesInv, Written
<1>3. WantsInv'
  <2> USE DEF Goto, WInv, WantsInv, WantedSoFar, NoneWanted, Units
  <2>1. CASE EnableBoot
    BY <2>1 DEF EnableBoot, Enable
  <2>2. CASE EnableMonitor
    BY <2>2 DEF EnableMonitor, Enable
  <2>3. CASE EnableSleep
    BY <2>3 DEF EnableSleep, Enable
  <2>4. CASE EnableNotify
    BY <2>4 DEF EnableNotify
  <2> QED
    BY <2>1, <2>2, <2>3, <2>4
<1>4. RunningInv'
  <2>1. /\ running \in [Services -> Versions] /\ files["lib"] = "new" /\ files["monitor"] = "new"
        /\ pc = "enable_sleep" /\ machine.readOnly => files["sleep"] = "new"
    BY <1>1 DEF WInv, RunningInv, FilesInv, Written, Parts, InstallDir, Units
  <2>2. \A s \in Services : Started(s) \in [Services -> Versions]
    BY <2>1 DEF Started, Versions
  <2>3. CASE EnableBoot
    <3>1. UNCHANGED running /\ pc = "enable" /\ pc' = "enable_monitor"
      BY <2>3 DEF EnableBoot, Enable, Goto
    <3> QED
      BY <1>1, <1>11, <3>1 DEF WInv, RunningInv
  <2>4. CASE EnableMonitor
    <3>1. /\ pc = "enable_monitor" /\ pc' = "enable_sleep" /\ running' = Started("monitor")
          /\ Disabling => running["monitor"] = "none" /\ running["sleep"] = "none"
          /\ Reaching => running["notify"] = "none"
      BY <2>4 DEF EnableMonitor, Enable, Goto, WInv, RunningInv
    <3>2. /\ running' \in [Services -> Versions]
          /\ running["monitor"] = "none" => running'["monitor"] = "new"
          /\ running'["sleep"] = running["sleep"] /\ running'["notify"] = running["notify"]
      BY <2>1, <2>2, <3>1 DEF Started, Services
    <3> QED
      BY <1>1, <1>11, <2>1, <3>1, <3>2 DEF RunningInv
  <2>5. CASE EnableSleep
    <3>1. /\ pc = "enable_sleep" /\ pc' = "enable_notify"
          /\ running' = IF machine.readOnly THEN Started("sleep") ELSE running
          /\ Disabling => running["monitor"] = "new" /\ running["sleep"] = "none"
          /\ Reaching => running["notify"] = "none"
      BY <2>5 DEF EnableSleep, Enable, Goto, WInv, RunningInv
    <3>2. /\ running' \in [Services -> Versions]
          /\ running'["monitor"] = running["monitor"] /\ running'["notify"] = running["notify"]
          /\ running["sleep"] = "none" => running'["sleep"] = IF machine.readOnly THEN "new" ELSE "none"
      BY <2>1, <2>2, <3>1 DEF Started, Services
    <3> QED
      BY <1>1, <1>11, <2>1, <3>1, <3>2 DEF RunningInv
  <2>6. CASE EnableNotify
    <3>1. /\ pc = "enable_notify" /\ pc' = "authorize"
          /\ running' \in {Started("notify"), running}
          /\ Disabling => /\ running["monitor"] = "new"
                          /\ running["sleep"] = IF machine.readOnly THEN "new" ELSE "none"
                          /\ running["sleep"] # "none" => files["sleep"] # "none"
          /\ Reaching => running["notify"] = "none"
      BY <2>6 DEF EnableNotify, Goto, WInv, RunningInv
    <3>2. Reaching' => running' = Started("notify")
      BY <2>6, Zenon DEF EnableNotify, Ignore, Goto, mode, Reaching
    <3>3. /\ running' \in [Services -> Versions]
          /\ running'["monitor"] = running["monitor"] /\ running'["sleep"] = running["sleep"]
          /\ Reaching' => running'["notify"] = "new"
      BY <1>11, <2>1, <2>2, <3>1, <3>2 DEF Started, Services
    <3> QED
      BY <1>1, <1>11, <2>1, <3>1, <3>3 DEF RunningInv
  <2> QED
    BY <2>3, <2>4, <2>5, <2>6
<1>5. KeyInv'
  BY <1>1 DEF WInv, KeyInv
<1>6. EndInv'
  BY <1>1 DEF WInv, EndInv, InstallIsWhole, UninstallLeavesNothing
<1> QED
  BY <1>2, <1>3, <1>4, <1>5, <1>6 DEF WInv

\* The pairing ends an installation that is whole.
LEMMA PairingStep == FInv /\ FInv' /\ WInv /\ Authorize => WInv'
<1> SUFFICES ASSUME FInv, FInv', WInv, Authorize PROVE WInv'
  OBVIOUS
<1> USE DEF Before, Unlinking, FromRmTree, FromStopNotify, FromMkLib, FromWrappers, FromKey,
        FromMac, FromShim, FromHook, FromLink, FromEnable, FromEnableMonitor, FromEnableSleep, FromEnableNotify
<1>1. /\ pc = "authorize" /\ pc' \in {"idle", "verdict"} /\ outcome' \in {"installed", "unpaired"}
      /\ key' \in {"good", key} /\ UNCHANGED <<machine, files, enabled, running, hadKey, sudo>>
  BY DEF Authorize, InstallerEnds, Finish, system, ghosts, mode
<1>2. FilesInv'
  BY <1>1 DEF WInv, FilesInv
<1>11. (Disabling' <=> Disabling) /\ (Reaching' <=> Reaching)
  BY Zenon DEF Authorize, InstallerEnds, Finish, ghosts, mode, Disabling, Reaching
<1>3. WantsInv'
  BY <1>1 DEF WInv, WantsInv, NoneWanted
<1>4. RunningInv'
  BY <1>1, <1>11 DEF WInv, RunningInv
<1>5. KeyInv'
  BY <1>1 DEF KeyInv
<1>6. EndInv'
  <2>1. \A p \in Parts : files[p] = IF p \in Installed THEN "new" ELSE "none"
    BY <1>1 DEF WInv, FilesInv, Written, Installed, Parts, InstallDir, Units, Hooks
  <2>2. enabled = Wanted
    BY <1>1 DEF WInv, WantsInv, WantedSoFar, Wanted, Installed, FInv, InstallDir, Units
  <2>3. /\ Disabling => /\ running["monitor"] = "new"
                        /\ running["sleep"] = IF machine.readOnly THEN "new" ELSE "none"
        /\ Reaching => running["notify"] = "new"
        /\ hadKey => key = "good"
    BY <1>1 DEF WInv, RunningInv, KeyInv
  <2>4. Whole
    BY <2>1, <2>2, <2>3 DEF Whole
  <2>5. Whole'
    BY <1>1, <1>11, <2>4 DEF Whole, Installed, Wanted
  <2>6. InstallIsWhole'
    BY <2>5, Zenon DEF InstallIsWhole, Whole, Disabling, Reaching, FInv
  <2>7. UninstallLeavesNothing'
    BY <1>1 DEF UninstallLeavesNothing
  <2> QED
    BY <1>1, <2>6, <2>7 DEF EndInv
<1> QED
  BY <1>2, <1>3, <1>4, <1>5, <1>6 DEF WInv

\* Every step keeps the invariant.
LEMMA WInvStep == FInv /\ FInv' /\ WInv /\ [INext]_ivars => WInv'
BY QuietStep, BetweenStep, RemovalStep, LastRemovalStep, InstallFilesStep, EnableStep, PairingStep
   DEF INext, UpdateStep, ConflictStep, UninstallStep, InstallStep

\* An installation that got to its end is whole, whatever wreck it started from and
\* whatever it could not remove; its services are the new ones unless the call that was to
\* stop or to start one failed.
THEOREM WholeSafe == ISpec => []InstallIsWhole
<1>1. WInv => InstallIsWhole
  BY DEF WInv, EndInv
<1> QED
  BY FInvInitially, FInvStep, WInvInitially, WInvStep, <1>1, PTL DEF ISpec

\* An uninstallation that got to its end leaves nothing, whatever wreck, but what it could
\* not remove, disable or stop.
THEOREM RemovalSafe == ISpec => []UninstallLeavesNothing
<1>1. WInv => UninstallLeavesNothing
  BY DEF WInv, EndInv
<1> QED
  BY FInvInitially, FInvStep, WInvInitially, WInvStep, <1>1, PTL DEF ISpec
=============================================================================
