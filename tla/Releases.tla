------------------------------ MODULE Releases ------------------------------
(***************************************************************************)
(* An installed PAI and its versions: `pai update` and `--rollback`, the   *)
(* kernel's flock, build stamp and re-exec, and the web console, which     *)
(* compares the builds, restarts a stale kernel and replaces itself.       *)
(***************************************************************************)
EXTENDS Naturals, Sequences, SequencesExt

CONSTANTS Versions,     \* of releases; Oldest is installed first
          Oldest,
          Kernels,      \* processes that may run `-m boot.entry`
          UpdateFlags,  \* sets of flags of updates: "no_reprovision", "no_restart"
          ReleaseSteps  \* bound: commands of the owner, and crashes

ASSUME ReleaseAssumption == Oldest \in Versions /\ ReleaseSteps \in Nat

VARIABLES
    dirs,      \* opt/pai/<version>, newest first
    link,      \* opt/pai/current: {} between unlink and symlink
    marker,    \* var/lib/.release
    code,      \* the version that a new process imports (the FHS symlinks)
    update,    \* the updater: [at, to, flags]
    kern,      \* kern[k]: [at, build]
    flock,     \* who holds run/kernel.pid
    stamp,     \* run/pai/build/kernel.json
    restart,   \* kernel:restart waits in the spool
    console,   \* [build, tried, alive]: tried is PAI_CONSOLE_RESTARTED_FOR
    heal,      \* [last, escalated]
    cooling,   \* less than 60 s since the last restart that the hub asked for
    recheck,   \* _build_recheck is armed
    buildPoke, \* the build worker's event
    seen,      \* seen[w]: what the worker, or the timer, has read
    banner,    \* [state, escalated] as broadcast
    asked,     \* ghost: the owner, or an update, asked for a restart
    overlap,   \* ghost: the hub's two threads read before the other acted
    torn,      \* ghost: an update was cut between the link and the marker
    stepsUsed

relVars == <<dirs, link, marker, code, update, kern, flock, stamp, restart, console, heal,
             cooling, recheck, buildPoke, seen, banner, asked, overlap, torn, stepsUsed>>

Hubs == {"worker", "timer"}
Quiet == [at |-> "idle", to |-> Oldest, flags |-> {}]
Blank == [at |-> "idle", kernel |-> {}, current |-> Oldest]
Fresh == [last |-> {}, escalated |-> FALSE]

ReleasesTypeOK ==
    /\ dirs \in SeqOf(Versions, Len(dirs)) /\ IsInjective(dirs)
    /\ link \in SUBSET Versions /\ marker \in Versions /\ code \in Versions
    /\ update.at \in {"idle", "extract", "provision", "unlink", "symlink", "mark", "gc", "notify"}
    /\ kern \in [Kernels -> [at : {"off", "starting", "locked", "phases", "up", "exec"}, build : Versions]]
    /\ flock \subseteq Kernels \cup {"probe"} /\ stamp \subseteq Versions
    /\ console \in [build : Versions, tried : SUBSET Versions, alive : BOOLEAN]
    /\ heal \in [last : SUBSET Versions, escalated : BOOLEAN]
    /\ seen \in [Hubs -> [at : {"idle", "read"}, kernel : SUBSET Versions, current : Versions]]
    /\ banner.state \in {"unknown", "in_sync", "kernel_stale", "console_stale", "both_stale"}

ReleasesInit ==
    /\ dirs = <<Oldest>> /\ link = {Oldest} /\ marker = Oldest /\ code = Oldest
    /\ update = Quiet /\ kern = [k \in Kernels |-> [at |-> "off", build |-> Oldest]]
    /\ flock = {} /\ stamp = {} /\ restart = FALSE
    /\ console = [build |-> Oldest, tried |-> {}, alive |-> TRUE] /\ heal = Fresh
    /\ cooling = FALSE /\ recheck = FALSE /\ buildPoke = FALSE
    /\ seen = [w \in Hubs |-> Blank]
    /\ banner = [state |-> "unknown", escalated |-> FALSE] /\ asked = FALSE /\ overlap = FALSE
    /\ torn = FALSE /\ stepsUsed = 0

-----------------------------------------------------------------------------
Disk == <<dirs, link, marker, code, asked, torn>>
Kernel == <<kern, flock, stamp, asked, torn>>
Console == <<console, heal, cooling, recheck, seen, banner, overlap>>
Command == stepsUsed < ReleaseSteps /\ stepsUsed' = stepsUsed + 1

(* pai update. *)

\* The directories of versions in S, newest first.
DirsOf(S) ==
    LET places == {i \in DOMAIN dirs : dirs[i] \in S}
        Place(n) == CHOOSE i \in places : Cardinality({j \in places : j <= i}) = n
    IN  [n \in 1..Cardinality(places) |-> dirs[Place(n)]]

\* A newer version, or the same one rebuilt; or --rollback to the newest
\* directory that the marker does not name.
Updates(v, flags) ==
    /\ Command /\ update.at = "idle"
    /\ update' = [at |-> "extract", to |-> v, flags |-> flags]
    /\ dirs' = DirsOf(Versions \ {v})
    /\ UNCHANGED <<link, marker, code, Kernel, restart, Console, buildPoke>>

RollsBack(flags) ==
    /\ Command /\ update.at = "idle"
    /\ LET others == DirsOf(Versions \ {marker}) IN
       others # << >> /\ update' = [at |-> "provision", to |-> Head(others),
                                    flags |-> (flags \ {"no_reprovision"}) \cup {"rollback"}]
    /\ UNCHANGED <<Disk, Kernel, restart, Console, buildPoke>>

Extracts ==
    /\ update.at = "extract" /\ dirs' = <<update.to>> \o dirs
    /\ update' = [update EXCEPT !.at = IF "no_reprovision" \in update.flags THEN "unlink" ELSE "provision"]
    /\ UNCHANGED <<link, marker, code, Kernel, restart, Console, buildPoke, stepsUsed>>

\* uv sync and paifs-init: the FHS tree points at the version.
Provisions ==
    /\ update.at = "provision" /\ code' = update.to /\ update' = [update EXCEPT !.at = "unlink"]
    /\ UNCHANGED <<dirs, link, marker, Kernel, restart, Console, buildPoke, stepsUsed>>

\* _repoint_current
Repoints ==
    /\ \/ update.at = "unlink" /\ link' = {} /\ update' = [update EXCEPT !.at = "symlink"]
       \/ update.at = "symlink" /\ link' = {update.to} /\ update' = [update EXCEPT !.at = "mark"]
    /\ UNCHANGED <<dirs, marker, code, Kernel, restart, Console, buildPoke, stepsUsed>>

Marks ==
    /\ update.at = "mark" /\ marker' = update.to /\ buildPoke' = TRUE
    /\ update' = [update EXCEPT !.at = IF "rollback" \in update.flags THEN "notify" ELSE "gc"]
    /\ torn' = FALSE
    /\ UNCHANGED <<dirs, link, code, kern, flock, stamp, asked, restart, Console, stepsUsed>>

\* _gc_versions(keep=2)
Kept == link \cup {dirs[i] : i \in DOMAIN dirs \cap {1, 2}}
Collects ==
    /\ update.at = "gc" /\ dirs' = DirsOf(Kept)
    /\ update' = [update EXCEPT !.at = "notify"]
    /\ UNCHANGED <<link, marker, code, Kernel, restart, Console, buildPoke, stepsUsed>>

\* _restart_kernel_after_update
Notifies ==
    /\ update.at = "notify" /\ update' = Quiet
    /\ asked' = (asked \/ "no_restart" \notin update.flags)
    /\ restart' = (restart \/ ("no_restart" \notin update.flags /\ flock # {}))
    /\ UNCHANGED <<dirs, link, marker, code, kern, flock, stamp, torn, Console, buildPoke, stepsUsed>>

\* A download, uv or paifs-init fails, or the command is killed.
UpdateFails ==
    /\ Command /\ update.at # "idle" /\ update' = Quiet
    /\ torn' = (torn \/ update.at \in {"symlink", "mark"})
    /\ UNCHANGED <<dirs, link, marker, code, kern, flock, stamp, asked, restart, Console, buildPoke>>

-----------------------------------------------------------------------------
(* The kernel: boot.entry. *)

Alive(k) == kern[k].at # "off"
Loadable == code \in ToSet(dirs)
Gone(k) == [kern EXCEPT ![k].at = "off"]

\* `pai start`, `init`, the console's start button: any of them.
Spawns(k) ==
    /\ Command /\ ~Alive(k) /\ Loadable
    /\ kern' = [kern EXCEPT ![k] = [at |-> "starting", build |-> code]]
    /\ UNCHANGED <<Disk, update, flock, stamp, restart, Console, buildPoke>>

Locks(k) ==
    /\ kern[k].at = "starting" /\ flock = {} /\ flock' = {k}
    /\ kern' = [kern EXCEPT ![k].at = "locked"]
    /\ UNCHANGED <<Disk, update, stamp, restart, Console, buildPoke, stepsUsed>>

\* "kernel already running": whoever holds it, were it a status probe.
LockFails(k) ==
    /\ kern[k].at = "starting" /\ flock # {} /\ kern' = Gone(k)
    /\ UNCHANGED <<Disk, update, flock, stamp, restart, Console, buildPoke, stepsUsed>>

\* _reap_duplicate_kernels, then write_kernel_stamp: running_build resolves the
\* links of its own path now, whatever the process has loaded.
Stamps(k) ==
    /\ kern[k].at = "locked"
    /\ kern' = [j \in Kernels |-> IF j = k THEN [kern[k] EXCEPT !.at = "phases"]
                                           ELSE [kern[j] EXCEPT !.at = "off"]]
    /\ stamp' = {code} /\ buildPoke' = TRUE
    /\ UNCHANGED <<Disk, update, flock, restart, Console, stepsUsed>>

\* sanity .. backfill: clean wipes the spool.
PhasesPass(k) ==
    /\ kern[k].at = "phases" /\ kern' = [kern EXCEPT ![k].at = "up"] /\ restart' = FALSE
    /\ UNCHANGED <<Disk, update, flock, stamp, Console, buildPoke, stepsUsed>>

\* kernel:restart: drain, release the lock, execvp.
Releases(k) ==
    /\ kern[k].at = "up" /\ restart /\ restart' = FALSE /\ flock' = {}
    /\ kern' = [kern EXCEPT ![k].at = "exec"]
    /\ UNCHANGED <<Disk, update, stamp, Console, buildPoke, stepsUsed>>

Execs(k) ==
    /\ kern[k].at = "exec"
    /\ kern' = IF Loadable THEN [kern EXCEPT ![k] = [at |-> "starting", build |-> code]] ELSE Gone(k)
    /\ UNCHANGED <<Disk, update, flock, stamp, restart, Console, buildPoke, stepsUsed>>

\* Stopped, killed, or a phase failed: the lock goes with the process.
KernelDies(k) ==
    /\ Command /\ Alive(k) /\ kern' = Gone(k) /\ flock' = flock \ {k}
    /\ UNCHANGED <<Disk, update, stamp, restart, Console, buildPoke>>

\* sbin/reboot: a restart, if the probe finds the lock taken ...
Reboots ==
    /\ Command /\ flock # {} /\ restart' = TRUE /\ asked' = TRUE
    /\ UNCHANGED <<dirs, link, marker, code, update, kern, flock, stamp, torn, Console, buildPoke>>

\* ... and whoever asks holds it for an instant if it is free.
Probes ==
    /\ \/ Command /\ flock = {} /\ flock' = {"probe"}
       \/ flock = {"probe"} /\ flock' = {} /\ UNCHANGED stepsUsed
    /\ UNCHANGED <<Disk, update, kern, stamp, restart, Console, buildPoke>>

-----------------------------------------------------------------------------
(* The console: hub._recompute_build on the worker's thread or the timer's. *)

\* current_release(): a link to nothing reads as the marker.
Current == IF link # {} /\ link \subseteq ToSet(dirs) THEN CHOOSE v \in link : TRUE ELSE marker
Reads == [at |-> "read", kernel |-> stamp, current |-> Current]

WorkerReads ==
    /\ console.alive /\ buildPoke /\ seen["worker"].at = "idle" /\ buildPoke' = FALSE
    /\ seen' = [seen EXCEPT !["worker"] = Reads] /\ overlap' = (seen["timer"].at = "read")
    /\ UNCHANGED <<Disk, update, Kernel, restart, console, heal, cooling, recheck, banner, stepsUsed>>

\* The timer is set for longer than the cooldown.
TimerReads ==
    /\ recheck /\ ~cooling /\ seen["timer"].at = "idle" /\ recheck' = FALSE
    /\ seen' = [seen EXCEPT !["timer"] = Reads] /\ overlap' = (seen["worker"].at = "read")
    /\ UNCHANGED <<Disk, update, Kernel, restart, console, heal, cooling, buildPoke, banner, stepsUsed>>

CooldownEnds ==
    /\ cooling /\ cooling' = FALSE
    /\ UNCHANGED <<Disk, update, Kernel, restart, console, heal, recheck, seen, buildPoke, banner, overlap, stepsUsed>>

Classify(kernel, own, current) ==
    IF kernel = {} THEN "unknown"
    ELSE IF kernel = {current} THEN IF own = current THEN "in_sync" ELSE "console_stale"
    ELSE IF own = current THEN "kernel_stale" ELSE "both_stale"

\* Mutant of Remedy: equal builds are left alone, whatever is installed.
RemedyUnequal(kernel, own, current) ==
    IF kernel \in {{}, {own}} THEN "none"
    ELSE IF kernel = {current} THEN "warn_console"
    ELSE IF heal.last # kernel THEN "reboot"
    ELSE IF cooling THEN "none" ELSE "escalate"

\* decide_heal
Remedy(kernel, own, current) ==
    IF kernel = {} THEN "none"
    ELSE IF kernel = {current} THEN IF own # current THEN "warn_console" ELSE "none"
    ELSE IF heal.last # kernel THEN "reboot"
    ELSE IF cooling THEN "none" ELSE "escalate"

\* What was read is acted on; a stale console replaces its image, once for
\* each release, and its hub starts afresh -- or ends, if the code it is to
\* load is not there: the exec itself succeeds.
Acts(w) ==
    LET s == seen[w]
        remedy == Remedy(s.kernel, console.build, s.current)
        state == Classify(s.kernel, console.build, s.current)
        flagged == CASE remedy = "reboot" -> [last |-> s.kernel, escalated |-> FALSE]
                     [] remedy = "escalate" -> [heal EXCEPT !.escalated = TRUE]
                     [] OTHER -> heal
        healed == IF state = "in_sync" THEN Fresh ELSE flagged
    IN
    /\ s.at = "read" /\ UNCHANGED <<stepsUsed, overlap>>
    /\ restart' = (restart \/ (remedy = "reboot" /\ flock # {}))
    /\ IF remedy = "warn_console" /\ console.tried # {s.current}
       THEN /\ console' = [build |-> code, tried |-> {s.current}, alive |-> Loadable]
            /\ heal' = Fresh /\ cooling' = FALSE /\ recheck' = FALSE
            /\ seen' = [v \in Hubs |-> Blank] /\ buildPoke' = TRUE
            /\ UNCHANGED banner
       ELSE /\ console' = console /\ heal' = healed
            /\ banner' = [state |-> state, escalated |-> healed.escalated]
            /\ cooling' = (cooling \/ remedy = "reboot")
            /\ recheck' = (recheck \/ remedy = "reboot")
            /\ seen' = [seen EXCEPT ![w] = Blank] /\ UNCHANGED buildPoke
    /\ UNCHANGED <<Disk, update, Kernel>>

\* The owner starts the console again.
ConsoleStarts ==
    /\ ~console.alive /\ Loadable /\ console' = [build |-> code, tried |-> {}, alive |-> TRUE]
    /\ UNCHANGED <<Disk, update, Kernel, restart, heal, cooling, recheck, seen, buildPoke, banner,
                   overlap, stepsUsed>>

-----------------------------------------------------------------------------
ReleasesNext ==
    \/ \E v \in Versions, flags \in UpdateFlags : Updates(v, flags) \/ RollsBack(flags)
    \/ Extracts \/ Provisions \/ Repoints \/ Marks \/ Collects \/ Notifies \/ UpdateFails
    \/ \E k \in Kernels :
          \/ Spawns(k) \/ Locks(k) \/ LockFails(k) \/ Stamps(k) \/ PhasesPass(k)
          \/ Releases(k) \/ Execs(k) \/ KernelDies(k)
    \/ Reboots \/ Probes \/ WorkerReads \/ TimerReads \/ CooldownEnds \/ ConsoleStarts
    \/ \E w \in Hubs : Acts(w)

ReleasesSpec == ReleasesInit /\ [][ReleasesNext]_relVars

-----------------------------------------------------------------------------
(* Properties. *)

Idle == /\ update.at = "idle" /\ ~buildPoke /\ ~recheck
        /\ \A w \in Hubs : seen[w].at = "idle"

\* pai.py:385, the "silent split-brain": when nothing is left to do, a
\* kernel whose stamp is not the installed release is shown as stale, and a
\* restart that did not take is escalated, however updates, rollbacks,
\* restarts and the hub interleaved -- unless its two threads, which share
\* no lock, read before the other had acted, or an update died between the
\* link, which the hub reads, and the marker, which it watches.
NoSilentSkew ==
    Idle /\ ~overlap /\ ~torn /\ stamp # {} /\ stamp # link =>
        banner.state \in {"kernel_stale", "both_stale"} /\ banner.escalated

(* Statements of the source that the code does not keep. *)

\* build.py:3-6, 74: the stamp is the "ground truth" of what the kernel was
\* loaded from, and "cannot drift" from it.
StampIsTruth == \A k \in Kernels : kern[k].at \in {"phases", "up"} => stamp = {kern[k].build}

\* pai.py:763, --no-restart: "the kernel keeps running the old build until
\* `sbin/reboot`": no restart is asked for unless by the owner, or by an
\* update without the flag.
StagedStays == (\A flags \in UpdateFlags : "no_restart" \in flags) /\ restart => asked
=============================================================================
