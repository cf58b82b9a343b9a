# LGPowerControl in TLA+

Models, checks and proofs of the program in `src/`: the command line that turns an LG TV on and
off over the network, the services of a Linux desktop that call it, and the commands that install,
update and administer it. Paths below are relative to `src/`, and to `src/lgpowercontrol/` for a
bare file name of a module of the package.

## The system

| Component | State it keeps | Operations | What makes it correct |
| --- | --- | --- | --- |
| Command line (`cli.py`) | none between runs but the lock file and the tv-off flag; within a run the attempt, the misses in a row, `woke_from_standby` | `ON`, `OFF`, `SCREEN_OFF`, `STATUS` | bounded; one locked `ON` at a time and no wake lost to that; on a shared TV only our picture is turned off and only a sleeper's input is taken; no wake works on under an earlier `OFF`'s tv-off flag |
| Television (hardware; `tests/virtual-webos-tv`) | power state, transition, foreground app, lag of the app layer | the requests, a magic packet, its timers, its remote | what the program may assume of it |
| DPMS watcher (`monitor.py`) | previous reading, `off_since`, `escalated`, `last_tick` | one `tick` a second | every display change acted on; the full power-off neither early nor late |
| Suspend entry points (`suspend.py`) | one sleep flag each for dispatcher and hook/listener; the listener's inhibitor | `pre-down`, `up`; `pre`, `post`; the two sleep signals; the listener's death and restart | each suspend is handled once, before the sleep, and the resume undoes it once |
| Screen-off warning (`notify.py`) | two timers, the notification shown, the last state seen, the timings | poll, warning thread, check thread, `cancel_timer`, stop | a warning as long before the screen-off as promised, none left behind, a notice exactly when something held the screen on |
| Administration (`admin.py`) | pairing key, NetworkManager profile, `LOGGING` in the conf | `authorize`, `wol`, `log` | no good key thrown away; the card is what was asked; a running service that answers has the setting or is reported |
| Update, uninstall, installer, conflict check (`update.py`, `uninstall.py`, `install.py`, `conflict_check.py`, `units.py`) | installed files, wanted units, running services, conf, key, the backup | install, upgrade, uninstall, each of which fails or is cut off | what ends is whole; what does not end loses no setting and no key of an update; no wanted unit without a file |
| Helpers (`common.py`), `manifest.py` | the flag files | readings of logind, DPMS, conf | used by all of the above |

Interactions. Every service runs `lgpowercontrol` as a process and sees its exit code only: the
watcher blocks on it, the resume starts it detached. The processes share three flag files in
`/run` and the lock of `ON`; nothing orders an `OFF` and an `ON`. logind, NetworkManager and
systemd start the suspend entry points, which detect each other by the flags. The TV can change
at any moment, by its own timers or by its remote. An update runs the installer as its child, the
installer begins with an uninstallation, and what they leave is what the services find. `log`
restarts the services so that they read the conf again.

Hard to test, and what the properties aim at: two commands that overlap; a TV that changes
between a query and the request that rests on it; packets and answers that are lost; requests
cut after they were carried out, lost while taken for done, or never answered; kills; failures that
are passed over; a watcher that sleeps, blocks, is frozen by a suspend or
restarted; flags that outlive what they say; three threads that share fields without a lock; a
maintenance command that is cut off at any step and followed by another. `PROJECT.json` lists
each with its line.

## The modules

| Module | Models | Extends |
| --- | --- | --- |
| `Tv` | the TV | |
| `Cli` | concurrent invocations of the four commands | `Tv` |
| `CliHistory` | `Cli` with what each run has seen of the TV | `Cli` |
| `MCCli` | the symmetry of the locked `ON`s | `Cli` |
| `CliProofs` | theorems | `CliHistory`, TLAPS |
| `Monitor` | the DPMS watcher, on a discrete clock, and the machine around it | |
| `MonitorHistory` | `Monitor` with how long the display was really dark | `Monitor` |
| `MonitorProofs` | theorems | `MonitorHistory`, TLAPS |
| `SleepCycle` | abstract: what the suspend entry points promise together | |
| `Suspend` | dispatcher, hook and listener, and the machine around them | |
| `SuspendHistory` | `Suspend` with the entry points that took the present suspend, the listener's deafness, and the mapping to `SleepCycle` | `Suspend`, instance of `SleepCycle` |
| `MCSuspend` | the machines of the runs | `SuspendHistory` |
| `SuspendProofs`, `CycleProofs` | theorems; the second that `Suspend` implements `SleepCycle` | `SuspendHistory`, TLAPS |
| `Timings` | the arithmetic of the warning | |
| `Notify` | the warning's main thread, its two timer threads, Plasma and the desktop | `Timings` |
| `NotifyHistory` | `Notify` with what happened in the present dim | `Notify` |
| `MCNotify` | the settings of Plasma for the run | `NotifyHistory` |
| `NotifyProofs` | theorems | `NotifyHistory`, TLAPS |
| `Install` | installation, update and uninstallation, with the removal of earlier versions | |
| `InstallProofs`, `InstallWholeProofs` | theorems | `Install`, TLAPS |
| `Admin` | `authorize`, `wol` and `log` | |
| `AdminProofs` | theorems | `Admin`, TLAPS |

**Tv.** One variable, a record: the reported power state, whether the reply carries `processing`,
the foreground app, whether the app layer has caught up. A request is an operator from a TV to
an answer code and the TV after it, translated from the virtual TV of the test suite, which is
the repository's own account of the hardware. What the TV does by itself or by its remote is
outside the code, and is marked so in the map where no line of the repository speaks of it.
`DoPowerOff` is the one request with two outcomes: its reply is never read, so that it answers 0 when
the request was sent, whether the TV turns off or not.

**Cli.** `pc[p]` is the point a run has reached; labels stand between two effects another actor
can see (lock, flag, packet, request), so everything in between is one step. `attempt`,
`misses` and `woke` are the locals `attempt`, `consecutive_unreachable` and
`woke_from_standby`; `lock` is the holder of the `flock`, `tvOff` is `TV_OFF_FLAG`. The wait
before a poll is the freedom of other actions to come first. `TvCmd` is `tv_cmd`: the
request reaches a reachable TV and is answered, or carried out and then cut (code 2), or fails
untried with a code of `FailCodes`; an unreachable TV gives 2. Or it is never answered (`Hang`):
only the connect has a timeout, so a run that waits for a TV gone silent is `hung`, its request carried
out or not, until somebody kills it; it keeps its lock. `RETRIES` only repeats the
connect, which such an answer already includes. `send_wol` may lose its packet. A
process that may be killed (`Killable`) can end at any label, which frees its lock; its exit
code is kept until its parent reads it (`Reap`), after which it may run again. A process outside
`Root` cannot open `/run`: it runs `ON` without the lock and touches no flag. That `ON`, unlike
the others, is the one nothing excludes. Left out: arguments, log lines, the text of errors.

**Monitor.** `now` is the wall clock `time.time()` returns; `Nap` moves it and leaves the waits
of the processes as they are, which is how a suspend looks to the code. `since` is when the
present wait began. `Tick`, then `_transition` in the steps `gate` (logind is asked), `stale`
(the sleep flag is removed), `command` and `running` (the watcher blocks), then the escalation
test, then `sleep(1)`. No other label takes time: the watcher is assumed to get the processor
whenever it can run. `OnBlock` and `OffBlock` bound how long a command blocks it. Around it the
display changes at will, logind announces sleeps that may not come about, the dispatcher lays
its flag in one and clears it at any later `up`, and systemd restarts the watcher.

**Suspend.** `at[e]` is the point an entry point has reached; `_tv_off` is the steps `Claim` (the
flag), `SkipKnownOff` (the hint) and `PowerOff`, `MarkOff` (the `OFF` it waits for), `_tv_on` is
`TvOn`, whose `ON` runs detached (`RequestOn`, then `RunOn`). The two commands keep of `Cli` what
the suspend depends on: the lock, when the hint is cleared and set, that either may fail, and the
order of wake and input; an `OFF` whose request is lost leaves the hint all the same. NetworkManager's queue holds the events its serial dispatcher has not
run; logind goes to sleep when nobody inhibits it (NetworkManager until its scripts are done, the
listener by its child), or earlier where `DelayExpires`; the hook runs after that; `Freeze` stops
everything where it is. A device that the machine can be woken by is not taken down: `setup.nics`
counts the others. `Calm` lets a suspend come only when the last one is over for the network and
the listener; without it, suspends follow each other at any moment. Where `ListenerDies`, the
listener may die wherever it is (`busctl` ends, a crash, the out-of-memory killer): its inhibitor,
its `OFF` and its unread signals go with it, and systemd starts it again, with an inhibitor only if
logind is not preparing for a sleep already. The watcher appears as the source of an `ON`, of an
`OFF`, and of the removal of a flag it takes for stale (`Darkens`), in two steps as in `Monitor`.

**SleepCycle.** Three variables: the stage of the machine, whether this suspend has been handled,
whether an `ON` is owed. A machine sleeps only when the suspend was handled, which happens
once, and what is owed is answered before the next. `SuspendHistory` maps `preparing` and the
hooks to one stage, `claims` to handled (it can exceed one, which the promise forbids), and a flag
of either kind to what is owed. `CycleKept` is `SleepCycle`'s specification under that mapping.

**Notify.** The fields of the `Notifier` are variables of the same name; `notificationId`, `timer`
and `checkTimer` are written by the main thread and by the two timer threads, and a label stands
between any two accesses another thread can come between: the answer of the desktop and the field
it is stored in, the `Timer` that is made and the field that is read again to start it, the close
and the `None` after it. `Cancelled` is `Timer.cancel()`, which does nothing to a timer that has
fired. Time passes (`Tick`) only when nothing is due, so a thread is as fast as its steps but in
any order with the others. Plasma is its settings, the seconds without input, whether an
application holds the screen on, and the display; what it does itself (`OffDue`: the unlocked
timer until the lock, then the locked one) is stated from how the code describes it and is
external, so that `Timings` is checked against it and not against itself. `Stop` and
`StartService` are a restart of the service at any moment.

**Install.** `files` gives each part the version that is there; a command ages what it finds, so
that `new` is what this command wrote and `half` a directory without its environment. One command
runs at a time and `pc` is its next step, in the order of the code; `install()` runs the steps of
`uninstall()` first, with `installing` telling the two apart. `Fail` is a `check=True` or a
`sys.exit`; `Interrupt` is everything else that ends a command (Ctrl-C, a kill, a power cut), after
which the next command starts from the wreck. An update keeps its backup in `work`; `Verdict` is
what it does with the exit code of its child, and `kept` a directory that stays behind. A conf is a
function from the settings its release has to `user`, `default` or, for an `LGTV_MAC` that nobody set,
`found`: the address the installer works out and writes (`Fill`, `SetMac`). What the code passes over
(`check=False`, `ignore_errors`, `except OSError`) may fail as well: `Ignore` lets it, for the kinds in
`Unnoticed`, and keeps in `ignored` which kinds have left something behind. The kinds are a disable
(`disable`), a call to the session's service manager (`session`), the removal of the tree (`tree`) and of
a path (`paths`). A part of the tree that stays ends an installation at its `mkdir`, an uninstallation
ends well with it. `machine` has or has not a
`/usr` that can be written and a NetworkManager. Between commands the user edits the conf, pairs,
and reboots.

**Admin.** One command at a time, its services and the network around it. `key` is what is stored,
`good` while the TV accepts it: a TV may forget or learn it meanwhile. `profile` is what
NetworkManager has, `card` what the card has been set to, which an activation copies; `pushed` is
the history that they agree. `reads[s]` is the setting service `s` read when it started; `log`
goes through `Order`, asking first and restarting then, and a service may start or
stop in between. `unasked` are the services whose `is-active` failed or could not be asked, which the
loop takes for services that do not run; `answered` is false for a `wol --status` whose query failed,
which reads like a profile without flags.

## What the runs check

All bounds are values of constants in the `.cfg` files; no definition is replaced.

| Run | Bounds | Properties |
| --- | --- | --- |
| `cli_shared` | one `ON`, one `OFF`, both root and killable and rerun at will; two inputs; remote in use; 3 polls, 2 input attempts; requests fail with 2 | `TypeOK`, `BudgetKept`, `InputTakenOnlyFromSleeper`, `OffOnlyOurPicture`, `NoOldHint`, `OnSuccessMeansLit` |
| `cli_locks` | two root `ON`s (killable, interchangeable), an unlocked `ON`, an `OFF` without root, one that is disabled, a `STATUS`; one poll | `OneLockedOn` |
| `cli_live` | two root `ON`s, one killable, a `SCREEN_OFF`; shared TV, two inputs, all failure codes; 2 polls, 2 input attempts | `OnlySilenceHangs`, `DroppedOnIsServed` |
| `monitor` | escalation after 4, jump limit 2, `ON` blocks up to 2, `OFF` 1, naps up to 3, clock up to 12 | `MTypeOK`, `EscalationNotEarly`, `EscalatesInTime`, `DisplayHeeded` |
| `suspend` | a machine with two devices and the hook, one whose devices all have Wake-on-LAN with the hook, and one with the listener (two looks for the flag); commands may fail, an idle `OFF` at any time, four pending events | `STypeOK`, `NoOffAcrossSleep`, `CycleKept`, `ResumeAnswered` |
| `suspend_late` | the same machines and one with both a device and the listener; logind may tire, the listener may die, suspends at any moment, stale flags removed | `SettledOwesNothing` |
| `notify` | five settings of Plasma: without a lock, with a lock that decides, with windows of the promised length, shorter and none, without a screen-off; warning 3, grace 1, a poll every 2; three threads (interchangeable), three notifications | `NTypeOK`, `NoStaleWarning`, `HeldOnIsNoticed`, `WarnedInTime`, `NoticeJustified` |
| `install` | a release with `LGTV_MAC` and one with a second setting; `/usr` writable or not, NetworkManager or not; calls to the session and the removal of the tree may fail unnoticed; any sequence of commands | `ITypeOK`, `EnabledHasFile`, `InstallIsWhole`, `UninstallLeavesNothing`, `SettingsCarried`, `UpdateLosesNothing` |
| `admin` | watcher and warning installed, typed by a user or in a login as root; any sequence of commands | `ATypeOK`, `CardAsAsked`, `StatusAnswered`, `LogHeeded`, `GoodKeyKept` |
| `suspend_stale` | one device, the hook, suspends at any moment | `SuspendHandled`, violated |
| `install_legacy` | two services of earlier versions, one or both of them there | `LegacyStopped`, violated |
| `cli_hang` | as `cli_live` | `DropIsRedundant`, violated |

*Why the bounds are enough.* Three polls are the least with which two misses in a row can be
followed by an answer, and with which a miss, an answer and a miss can be told from them. Two
input attempts show the lag of the app layer once and its end once. Two contenders for a lock
and an intruder without it are all the roles there are. In the watcher, naps of 1 to 3 lie on
both sides of the jump limit, as do the waits an ordinary tick makes (1, or 2 after an `OFF`);
the clock leaves room for two periods of darkness with an escalation. 600 s, 30 s and the
blocking times of the code are the theorems' business, which hold for any values. The runs of
the watcher stop the clock at `Horizon` but never deadlock, the display still changes. Two
devices are the least with a second pre-down in one suspend and with one link that is back before
the other; four pending events hold a suspend's two behind a resume's two. The number of suspends
is not bounded. Of the warning's threads at most one warning and one check are meant to be there,
a third is what a cancel can miss; three numbers let a warning be stale, another replaced and a
third come; with a poll of two, a cancel can be late by one second, and a dim of three or four
seconds is longer than a poll, as in Plasma, whose settings are minutes. `MaxIdle` is one more than
the last moment at which anything depends on the idle time: a screen-off, or a dim after which there is
none, with a poll and the grace. In `Install` a setting both
releases have and one that only the other has are the four cases of a merge; every file, unit and
service is there by itself. All four kinds of unnoticed failure together are more states than a run of
minutes can visit: the run has the two that the most steps depend on, and a disable or an unlink that
fails unnoticed is left to the theorems, which hold for any `Unnoticed`. In `Admin` a system service and
one of the session, and a caller with and without a session, are the combinations `restart_services`
tells apart; `sudo` is in the theorems, where `Installed` and `Callers` are any.

*Disagreements*, each a run that TLC must find violated:

- `suspend_stale`: the sleep flag is cleared by `up` only, so a suspend before the network is back
  finds the flag of the last one; the hook stands down for a dispatcher that is not called
  (`suspend.py:105`). No expired delay is needed. `CycleKept` holds where each resume gets its
  network back first, and `SettledOwesNothing` says that once it does come back nothing is left.
- `install_legacy`: `remove_legacy` passes all services of earlier versions to one
  `systemctl disable --now` (`conflict_check.py:187`), "Stops anything still running before its unit
  file disappears" (line 184). `uninstall.py:53` has it measured that such a call does nothing at all
  when one of the units is missing, and calls it once per unit for that reason. The earlier names are of
  different releases, so one is always missing: the files go, the services run on.
- `cli_hang`: an `ON` dropped at the lock ends with 0 (`cli.py:290`), for the one that runs serves it. When
  that one waits for a TV gone silent, for which the test suite has a case (`check_timing_paths.py:86`),
  it never ends, and every later `ON` is dropped with 0 while the TV stays dark. `DroppedOnIsServed` says
  that this is the only way to lose a wake, `OnlySilenceHangs` that nothing else keeps a run for good.

*Behaviour worth knowing that is in the models without a run of its own:*

- An `ON` that never reached the TV exits with 1 (`cli.py:317`) where `README.md:79` says 2. Two lost
  polls of an awake shared TV are enough for `ON` to take its input (`cli.py:328`), where `README.md:47`
  promises that a TV that is on keeps its picture; `cli_shared` and `InputSafe` give what does hold, it
  takes those two, in a row.
- `power_off` does not wait for its reply (`tests/virtual-webos-tv/virtual_webos_tv.py:624`), so an `OFF`
  that ends with 0 has sent its request, no more. When that is lost, or the TV refuses it, the tv-off
  flag stands with the TV on, where `cli.py:422` has "the TV is off either way" and `tests/test_cli.py:456`
  "The flag means "the TV is off"", and the next suspend leaves the TV on. The flag can be left so by an
  overlap with an `ON` as well. `NoOldHint` is what the code does see to: no `ON` works on under the flag
  of an `OFF` before it.
- A tv-off flag that is older than a wake by the remote makes the next suspend leave the TV on: nobody
  tells the program, and `suspend.py:52` believes the flag. A listener that dies in a suspend loses its
  `OFF`, the signal of the resume and with it its `ON`; `SettledOwesNothing` exempts that cycle.
- An update or an uninstallation that fails to disable a unit deletes its file all the same and ends well
  (`uninstall.py:57` to `83`): the wanted link dangles, the service runs on. The properties of `Install`
  say what still holds then, and that nothing else goes wrong.
- A suspend that begins after logind was asked and before the stale flag is removed loses its flag
  (`monitor.py:65`, `70`) and with it the `ON` of the resume; the window is one D-Bus call, and the
  watcher sends an `ON` when the display comes back.
- An `ON` frozen in the sleep after its wake holds the lock at the resume, and the resume's own `ON` is
  dropped (`cli.py:290`): the sequence is wake, suspend, resume, request. And an `ON` under way when a
  suspend begins can wake the TV behind the `OFF`: request, `OFF`, wake, sleep. Nothing orders the two;
  `DroppedOnIsServed` therefore is checked without an `OFF` around, and `ResumeAnswered` says that the
  resume has its `ON` or finds one under way.
- A shared TV that answers the guard's query with an error is turned off whatever it shows (`cli.py:215`,
  fail-open by design): `OffOnlyOurPicture` is the promise under the condition that it answers.
- The watcher takes the display as it finds it when it starts, so a restart in the dark never escalates;
  it marks the escalation done before its `OFF` runs, and does not repeat one that failed; a flicker
  during a blocking command is not seen.
- A cancel that comes while the warning thread is past its second look at the screen state misses it
  (`notify.py:150` to `160`, against `180` to `191`): its warning stands until it expires and its check
  goes off in the next dim. The user who comes back between the two readings of the check
  (`notify.py:166`) gets a notice that the screen was not turned off. `NoStaleWarning` names
  the first exception (`overtaken`), `NoticeJustified` both (`back`); they hold in every other case. The promises
  to the user need neither: a late cancel costs no warning and no notice (`WarnedInTime`, `HeldOnIsNoticed`).
- `EscalatesInTime` needs a `SCREEN_OFF` that blocks for less than the jump limit and for less than the
  escalation time: one that takes as long as `ESCALATE_AFTER_SECONDS` delays the power-off by its own
  length. The code's 30 s and 600 s are far apart from a command of some seconds; the second condition came
  out of the proof, the constants of the run satisfy both.
- An update cut off by Ctrl-C leaves its working directory (only `SystemExit` is caught, `update.py:172`);
  it is one of the places `UpdateLosesNothing` counts. A plain reinstallation cut off between the
  uninstallation and the move back loses the key, which is in `/tmp` under no known name.
- `wol --status` reads the profile, and a profile that has not reached the card says nothing of the card:
  `StatusAnswered` is under the condition that it has. And a query that fails comes back as `""`
  (`common.py:74`, `84`), which is what a profile without flags says (`common.py:101`): `wol --status`
  then calls a card that is on "disabled", what `admin.py:100` to `102` says must not happen.
  `StatusAnswered` is the promise where NetworkManager answers.
- `restart_services` promises that no failure is swallowed (`admin.py:249`), but takes a service that it
  could not ask for one that does not run (`admin.py:257`): whatever fails in `is-active`, and each
  service of the session in a login as root, which then keeps its old setting with nothing said.
  `LogHeeded` is the promise for the services that were asked.

*Fairness.* A process that is running is scheduled (`WF` on the steps of each run). That a request
is answered is not assumed: `Hang`, which no fairness forces or forbids, can take any request to a label
with no step but a kill, and a request that does not hang is answered or fails. A TV that has begun to
wake gets there. Starting a command, kills, the remote and the TV's timers are not fair.
`OnlySilenceHangs` needs only the first; `DroppedOnIsServed` needs no more. In the two models that keep
of a command only its effects, a command ends: `Monitor` bounds how long the watcher waits for one
(`OnBlock`, `OffBlock`), and `ResumeAnswered` of `Suspend` has the entry points' commands end. A
silent TV blocks the watcher, or an entry point, as it blocks the command. The safety properties of
`Suspend` do not rest on that, since a command may take as long as it likes there. In `Suspend`
the entry points and the detached `ON` are scheduled, systemd starts a dead listener again
(`Restart=on-failure`), logind completes a resume, and a connection that is down comes back; nobody
has to suspend or wake the machine, the listener does not have to die, and the watcher's steps are
not fair. `ResumeAnswered` is about a machine that does wake. `Notify`, `Install` and `Admin` need no
fairness: their bounds on time are safety properties (`Tick` does not pass what is due), and nobody
has to finish an installation.

*History.* `InputTakenOnlyFromSleeper` and the like cannot be stated over the program's own
variables, which hold only its guesses; `CliHistory`, `MonitorHistory`, `SuspendHistory` and
`NotifyHistory` add what was true, and restrict nothing the program does (`HistoryRefinesCli` and the
`HistoryStep` lemmas: each step is a step of the specification without them, and each history variable has
one value for it). In `Install` and `Admin` a few history variables are among the others and marked.

## What is proved

By TLAPS, for every value of the constants (any number of invocations, services, releases and network
devices, any budgets and durations) that satisfies the named assumptions: commands are distinct, `Free`
is no process, budgets are positive, an unreachable TV is among the failures (`CommandAssumption`,
`RootAssumption`, `BudgetAssumption`, `FailAssumption` in `Cli`, `InputsAssumption` and
`RemoteAssumption` in `Tv`); durations are natural numbers, the escalation's positive (`TimeAssumption`
in `Monitor`); the warning, the grace and the poll last at least a second, the settings of Plasma are
numbers, a negative one only where the code reads it as none, and a dim takes longer than a poll
(`WarningAssumption`, `ProfileAssumption`), no object is no thread (`NoneAssumption`, all in `Notify`); a machine has a number of devices and a hook or a listener (`SuspendAssumption`); a
release has at least one setting (`ReleaseAssumption`); services and callers are those there are
(`InstalledAssumption`, `CallerAssumption`).

| Theorem | States | Argument |
| --- | --- | --- |
| `TypeCorrect` | `Spec => []TypeOK` | inductive as it stands, given that no code other than the program's comes out of `TvCmd` (`TvCmdTyped`): -102 must be turned into success before a run can end with it |
| `BudgetSafe` | `Spec => []BudgetKept` | needs `Fresh`: a run that has not polled has counted nothing, so that every run begins at zero however the last one ended |
| `LockSafe` | `Spec => []OneLockedOn` | needs `HoldsLock`: a root `ON` past the lock is the one who holds it; mutual exclusion follows since the lock has one holder |
| `InputSafe` | `HSpec => []InputTakenOnlyFromSleeper` | needs `WokeEarned`: what each value of the miss counter stands for in the history, and that `woke` is never set without a reason; `WokeFrame` shows that other actors cannot take the reason away |
| `OffSafe` | `HSpec => []OffOnlyOurPicture` | what a run has seen stays seen (`Monotone`); the guard's step is where it is seen |
| `SuccessHonest` | `HSpec => OnSuccessMeansLit` | needs `LitOK`: at `turn_screen_on` the TV is awake, as the poll found it, or has fallen asleep since; at the input the picture was on or it has. `ScreenOnLights`: an awake TV that answers 0 or -102 has its picture on |
| `HintCleared` | `HSpec => []NoOldHint` | inductive (`FlagIsNew`) once an `ON` is known to be at labels of `ON` only: the clearing leaves no flag, and a flag laid after it enters the history of each run that is past it and stays there (`Monotone`) |
| `MTypeCorrect` | `HMSpec => []MTypeOK` | inductive, clocks and flags apart |
| `NotEarly` | `HMSpec => []EscalationNotEarly` | needs `CountIsIdle`: what the watcher counts up to its last tick was idle time, and what it will count at the next one too, unless the gap is one that makes it start again; and a count belongs to a dark display |
| `NoChangeLost` | `HMSpec => []DisplayHeeded` | needs `Heeding`: how old a change that is not heeded can be at each label; it comes from how long a wait can take (`Waits`) and from which reading the watcher has acted on, the one it remembers or the one whose command it runs (`Acted`) |
| `InTime` | `HMSpec => []EscalatesInTime` | needs `Darkened`: the darkness that counts was not seen yet, and is at most what the watcher was busy or asleep for (`Unseen`), or it was, and then the count began at most an `ON` and a tick after it and no tick of it passes for a suspend (`Seen`). The attempt showed that a `SCREEN_OFF` as long as the escalation breaks the promise |
| `NTypeCorrect` | `HNSpec => []NTypeOK` | needs `Timers`: which timers there can be at each step of the main thread. The warning that lives is the one the `Notifier` knows of, but for the one poll after a cancel that missed it; that is why what it sends is positive |
| `NothingStale` | `HNSpec => []NoStaleWarning` | needs `Tidy`, as long as no cancel has missed a running thread (`Kempt`): one thread lives at most, the only warning is the one the `Notifier` knows of or is about to, and both are gone after a cancel |
| `NoticeSafe` | `HNSpec => NoticeJustified` | needs `OnPace`, on top of `Tidy`: within a dim no thread is ahead of the timings computed at its beginning; after it the next poll comes before the next dim can (`JustBack`) |
| `HeldOnNoticed`, `WarnedSafe` | `HNSpec => []HeldOnIsNoticed`, `WarnedInTime` | need `Seeing`, what the poll knows of the dim and when, and `Chain`: in a dim seen whole, with a window, the warning waits or is being sent, then the check is being made, then it waits or runs, each with its deadline. Both hold whatever cancels missed before: what is left of an earlier dim is no part of the chain. `TimingsAgree`: what `compute_timings` computes is when Plasma turns the screen off, lock or not |
| `STypeSafe` | `HSSpec => []STypeOK` | needs `Places`: where each entry point can be, and that at most two signals are pending from a suspend to its resume; `PreDownQueue` is what a suspend does to the queue |
| `SettledSafe` | `HSSpec => []SettledOwesNothing` | needs `Owing`, a debt for every flag: a sleep flag, or a dispatcher about to lay it, has a link still down or an `up` pending (`NetInv`); the hook's flag lasts no longer than the hook (`HookInv`); the listener's has a resume to come or its signal pending, which is the last (`DeafInv`) |
| `NoOffSafe` | `HSSpec => []NoOffAcrossSleep` where `Unhurried` | NetworkManager's script is on the queue as long as it runs, and logind waits for the queue (`Patient`); the listener holds its inhibitor from the resume to the end of its `OFF` (`ListenInv`); the hook is what systemd waits for (`HookInv`) |
| `CycleSafe` | `HSSpec => CycleKept` where `Unhurried` and `Apart` | the refinement of `SleepCycle`. `CycleInv` says for each kind of machine who has handled the suspend at each stage. With devices that go down (`NetCycle`): a suspend finds no pre-down pending, so its own come after every `up` of the last resume (`Ordered`), the old flag is gone when the first is run, and the flag it lays is there for the others. Without, the hook (`HookCycle`) or the listener (`ListenerCycle`). One lemma per entry point shows that its steps are steps of the promise or change nothing of it |
| `AdminTyped`, `KeySafe`, `CardSafe`, `StatusSafe`, `LogSafe` | `ASpec => []ATypeOK`, `GoodKeyKept`, `[]CardAsAsked`, `[]StatusAnswered`, `[]LogHeeded` | one invariant, `AInv`: a key is unlinked only after a refusal (`KeyInv`); what has reached the card is the profile (`CardInv`); the services behind the loop that were asked heed the setting whatever starts and stops behind it (`LogInv`) |
| `WantsSafe` | `ISpec => []EnabledHasFile` | `FInv`: when units are unlinked nothing is wanted, since the loop has disabled what had a file and what has none is not wanted, unless a disable failed (`Disabling`); what is enabled was written before |
| `ITypeSafe` | `ISpec => []ITypeOK` | relative to `FInv` and `UInv`: confs are closed under merging and editing (`ConfsClosed`), and a command that ends, at whatever step, is no update with a backup any more |
| `NothingLost`, `SettingsSafe` | `ISpec => []UpdateLosesNothing`, `[]SettingsCarried` | `UInv`: from the backup to the verdict the settings and the key are in the working directory, before it they are installed, and from the merge on the release's conf carries them, filled in once it is installed |
| `WholeSafe`, `RemovalSafe` | `ISpec => []InstallIsWhole`, `[]UninstallLeavesNothing` | `WInv`, relative to `FInv`: at each step exactly the parts behind it are new and no other is there; a system service runs only from a unit that is there, so disabling what is there stops it. What is left where an unnoticed failure was is only of the kind that failed, and an installation that gets past its `mkdir` overwrites what is left of the old tree |

`Unhurried` is `Calm /\ ~DelayExpires /\ ~ListenerDies`; `Apart` says that a machine with the listener
has no device that goes down and that no flag is taken for stale. Both are formulas over the constants,
and the run `suspend` is an instance of both; where suspends follow each other at once nobody may handle
one, as `suspend_stale` shows.
`SettledSafe` needs neither.

Only model-checked: the liveness properties `OnlySilenceHangs`, `DroppedOnIsServed` and `ResumeAnswered`, since
liveness under fairness is out of the prover's reach, and of course the disagreements. Every other
invariant and action property of a run is a theorem above. The theorems about `Notify` hold with its bound
on the idle time, which is an operator of the profile and not a constant of the run.

## Not modelled

- `manifest.py` is a constant.
- Of the installer: the owner and the SELinux label of the files, the question about Wake-on-LAN (which is `wol --enable`), the
  detection of LG Buddy, the list of paths of earlier versions; what any of them print.
- Of `admin.py`: showing the journal, the choice of the network device (here the one `link`); writing the
  conf is one step, though the code truncates and writes: a crash in between leaves no conf, and nothing
  restores it.
- Argument parsing, the parsing of the conf and of the addresses in it, log lines, the wire protocol and
  the pairing dialogue of the virtual TV.
- A command that hangs on a silent TV, in `Monitor` and `Suspend`; `Cli` has it.
- Time within `Cli` (a poll takes as long as it takes), and in `Suspend`, where a delay expires or not.

## Later

1. `Cli` refining an abstract TV switch (`On` and `Off` requests with an answer), so that `Suspend` and
   `Monitor` rest on a checked abstraction; the composition of `Suspend` with `Monitor`, for the
   escalation that comes just before a suspend.
2. Theorems: the lemmas about the budgets of `ON` that liveness would rest on (a bound on the steps a run
   has left); what holds of the flags of a machine with both a listener and a dispatcher.
3. A listener and a dispatcher at work on the same suspend, beyond what `suspend_late` says of their
   flags: what holds of the TV when the grace wait is too short.
