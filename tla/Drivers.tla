------------------------------ MODULE Drivers -------------------------------
(***************************************************************************)
(* Drivers: coroutines of the kernel, each under a task that supervises    *)
(* it, which _reconcile_drivers starts, replaces and cancels from the      *)
(* manifests and the `active` flags at boot and on kernel:reload_config;   *)
(* and the health file from which the console classifies each driver.      *)
(***************************************************************************)
EXTENDS Naturals

CONSTANTS Slugs,
          DefaultOff,   \* manifests with default_active: false
          DriverSteps   \* bound: edits, endings of drivers, boots and stops

ASSUME DriverAssumption == DefaultOff \subseteq Slugs /\ DriverSteps \in Nat

VARIABLES
    manifest,    \* manifest[d]: {} or what events.yaml names as the entry point
    flag,        \* flag[d]: `active` in the spec, none without a /proc entry
    status,
    health,      \* health[d]: [last, outcome, ring], last is the later of last_start and last_exit
    task,        \* task[d]: [at, runs]: made, live, dying, done; gone: done before the last reconcile
    registry,    \* _driver_tasks: slugs
    reconcile,   \* [at, todo, specs, waits]
    reload,      \* kernel:reload_config waits
    owed,        \* an editor has changed a file and not emitted yet
    host,        \* the kernel: off, up, stopping
    drvUsed

drvVars == <<manifest, flag, status, health, task, registry, reconcile, reload, owed, host, drvUsed>>

Entry == {"old", "new"}
Missing == [at |-> "none", runs |-> {}]
NotReconciling == [at |-> "idle", todo |-> {}, specs |-> [d \in Slugs |-> {}], waits |-> {}]
Failures == {"crashed", "returned", "failed_to_start"}
RingCap == 3   \* LOOP_THRESHOLD

DriversTypeOK ==
    /\ manifest \in [Slugs -> SUBSET Entry]
    /\ flag \in [Slugs -> {"none", "on", "off"}]
    /\ status \in [Slugs -> {"none", "running", "stopped", "failed", "cancelled"}]
    /\ health \in [Slugs -> [last : {"none", "start", "exit"}, ring : 0..RingCap,
                             outcome : Failures \cup {"none", "cancelled"}]]
    /\ task \in [Slugs -> [at : {"none", "made", "live", "dying", "done", "gone"}, runs : SUBSET Entry]]
    /\ registry \subseteq Slugs
    /\ reconcile.at \in {"idle", "specs", "gone"} /\ reconcile.waits \subseteq Slugs
    /\ host \in {"off", "up", "stopping"}

DriversInit ==
    /\ manifest = [d \in Slugs |-> {"old"}] /\ flag = [d \in Slugs |-> "none"]
    /\ status = [d \in Slugs |-> "none"]
    /\ health = [d \in Slugs |-> [last |-> "none", outcome |-> "none", ring |-> 0]]
    /\ task = [d \in Slugs |-> Missing] /\ registry = {} /\ reconcile = NotReconciling
    /\ reload = FALSE /\ owed = FALSE /\ host = "off" /\ drvUsed = 0

-----------------------------------------------------------------------------
Kernelside == <<health, task, registry, reconcile, host>>
Owners == <<manifest, owed>>
Event == drvUsed < DriverSteps /\ drvUsed' = drvUsed + 1

(* paictl and paiman: a file, and then the event. *)

Toggles(d) ==
    /\ Event /\ flag[d] # "none"
    /\ flag' = [flag EXCEPT ![d] = IF @ = "on" THEN "off" ELSE "on"]
    /\ owed' = TRUE /\ UNCHANGED <<manifest, status, Kernelside, reload>>

Installs(d, entry) ==
    /\ Event /\ entry # manifest[d] /\ manifest' = [manifest EXCEPT ![d] = entry]
    /\ owed' = TRUE /\ UNCHANGED <<flag, status, Kernelside, reload>>

AsksReload ==
    /\ owed /\ owed' = FALSE /\ reload' = TRUE
    /\ UNCHANGED <<manifest, flag, status, Kernelside, drvUsed>>

-----------------------------------------------------------------------------
(* Breadcrumbs. *)

\* Mutant of Started: at the resolution of a second, a restart's start and the
\* exit before it compare as equal.
StartedSameSecond(h) ==
    [h EXCEPT !.last = IF h.outcome = "cancelled" /\ h.last = "exit" THEN "exit" ELSE "start",
              !.ring = IF h.outcome \in Failures /\ @ < RingCap THEN @ + 1 ELSE @]

Started(h) == [h EXCEPT !.last = "start",
                        !.ring = IF h.outcome \in Failures /\ @ < RingCap THEN @ + 1 ELSE @]
Exited(h, outcome) == [h EXCEPT !.last = "exit", !.outcome = outcome]

(* _supervise_driver *)

Begins(d) ==
    /\ task[d].at = "made" /\ task' = [task EXCEPT ![d].at = "live"]
    /\ flag' = [flag EXCEPT ![d] = IF @ = "none" THEN "on" ELSE @]
    /\ status' = [status EXCEPT ![d] = "running"]
    /\ health' = [health EXCEPT ![d] = Started(@)]
    /\ UNCHANGED <<Owners, registry, reconcile, reload, host, drvUsed>>

\* A clean return leaves the status as it is.
Fails(d, outcome) ==
    /\ Event /\ task[d].at = "live" /\ task' = [task EXCEPT ![d].at = "done"]
    /\ health' = [health EXCEPT ![d] = Exited(@, outcome)]
    /\ status' = [status EXCEPT ![d] = IF outcome = "crashed" THEN "failed" ELSE @]
    /\ UNCHANGED <<Owners, flag, registry, reconcile, reload, host>>

\* The coroutine has done its cleanup; nothing is recorded over a replacement.
Unwinds(d) ==
    /\ task[d].at = "dying" /\ task' = [task EXCEPT ![d].at = "done"]
    /\ health' = [health EXCEPT ![d] = Exited(@, "cancelled")]
    /\ status' = [status EXCEPT ![d] = "cancelled"]
    /\ UNCHANGED <<Owners, flag, registry, reconcile, reload, host, drvUsed>>

\* task.cancel(): one that has not begun never runs any of its code.
Cancelled(t) == [t EXCEPT !.at = CASE @ = "live" -> "dying" [] @ = "made" -> "done" [] OTHER -> @]

-----------------------------------------------------------------------------
(* _reconcile_drivers *)

Done(d) == task[d].at \in {"none", "done", "gone"}
Aged == task' = [d \in Slugs |-> IF task[d].at = "done" THEN [task[d] EXCEPT !.at = "gone"] ELSE task[d]]
Active(d) == flag[d] = "on" \/ (flag[d] = "none" /\ d \notin DefaultOff)
Known == {d \in Slugs : reconcile.specs[d] # {}}

\* Mutant of Rediscovered: ended tasks keep their entries.
RediscoveredOnly ==
    /\ reconcile' = [at |-> "specs", todo |-> {d \in Slugs : manifest[d] # {}}, specs |-> manifest, waits |-> {}]
    /\ registry' = registry /\ Aged

\* Discovery, then the entries of ended tasks are collected.
Rediscovered ==
    /\ reconcile' = [at |-> "specs", todo |-> {d \in Slugs : manifest[d] # {}}, specs |-> manifest, waits |-> {}]
    /\ registry' = {d \in registry : ~Done(d)} /\ Aged

ReloadBegins ==
    /\ host = "up" /\ reload /\ reconcile.at = "idle" /\ reload' = FALSE /\ Rediscovered
    /\ UNCHANGED <<Owners, flag, status, health, host, drvUsed>>

Visit(d) == host # "off" /\ reconcile.at = "specs" /\ reconcile.waits = {} /\ d \in reconcile.todo
Visited(d) == reconcile' = [reconcile EXCEPT !.todo = @ \ {d}]

Starts(d) ==
    /\ Visit(d) /\ Active(d) /\ d \notin registry /\ Visited(d)
    /\ task' = [task EXCEPT ![d] = [at |-> "made", runs |-> reconcile.specs[d]]]
    /\ registry' = registry \cup {d}
    /\ UNCHANGED <<Owners, flag, status, health, reload, host, drvUsed>>

\* The module does not import.
StartFails(d) ==
    /\ Event /\ Visit(d) /\ Active(d) /\ d \notin registry /\ Visited(d)
    /\ flag' = [flag EXCEPT ![d] = IF @ = "none" THEN "on" ELSE @]
    /\ health' = [health EXCEPT ![d] = Exited(@, "failed_to_start")]
    /\ status' = [status EXCEPT ![d] = "failed"]
    /\ UNCHANGED <<Owners, task, registry, reload, host>>

\* Its entry point changed: cancel, wait, then start it in the next visit.
Replaces(d) ==
    /\ Visit(d) /\ Active(d) /\ d \in registry /\ task[d].runs # reconcile.specs[d]
    /\ registry' = registry \ {d} /\ task' = [task EXCEPT ![d] = Cancelled(@)]
    /\ reconcile' = [reconcile EXCEPT !.waits = {d}]
    /\ UNCHANGED <<Owners, flag, status, health, reload, host, drvUsed>>

Leaves(d) ==
    /\ Visit(d) /\ Active(d) /\ d \in registry /\ task[d].runs = reconcile.specs[d] /\ Visited(d)
    /\ UNCHANGED <<Owners, flag, status, health, task, registry, reload, host, drvUsed>>

\* A default-off driver that was never started gets its /proc entry.
Registers(d) ==
    /\ Visit(d) /\ ~Active(d) /\ d \notin registry /\ Visited(d)
    /\ IF flag[d] = "none"
       THEN flag' = [flag EXCEPT ![d] = "off"] /\ status' = [status EXCEPT ![d] = "stopped"]
       ELSE UNCHANGED <<flag, status>>
    /\ UNCHANGED <<Owners, health, task, registry, reload, host, drvUsed>>

Withdraws(d) ==
    /\ registry' = registry \ {d} /\ task' = [task EXCEPT ![d] = Cancelled(@)]
    /\ reconcile' = [reconcile EXCEPT !.waits = {d}, !.todo = @ \ {d}]
    /\ UNCHANGED <<Owners, flag, status, health, reload, host, drvUsed>>

Stops(d) == Visit(d) /\ ~Active(d) /\ d \in registry /\ Withdraws(d)

\* The manifest is gone.
Uninstalls(d) ==
    /\ host # "off" /\ reconcile.at = "gone" /\ reconcile.waits = {} /\ d \in registry \ Known
    /\ Withdraws(d)

Awaited(d) ==
    /\ d \in reconcile.waits /\ Done(d) /\ reconcile' = [reconcile EXCEPT !.waits = {}]
    /\ UNCHANGED <<Owners, flag, status, health, task, registry, reload, host, drvUsed>>

NextPart ==
    /\ reconcile.waits = {} /\ reconcile.todo = {}
    /\ \/ reconcile.at = "specs" /\ reconcile' = [reconcile EXCEPT !.at = "gone"]
       \/ reconcile.at = "gone" /\ registry \subseteq Known /\ reconcile' = NotReconciling
    /\ UNCHANGED <<Owners, flag, status, health, task, registry, reload, host, drvUsed>>

-----------------------------------------------------------------------------
(* The kernel. *)

\* clean resets the statuses and wipes the spool; run() reconciles.
HostBoots ==
    /\ Event /\ host = "off" /\ host' = "up" /\ reload' = FALSE /\ Rediscovered
    /\ status' = [d \in Slugs |-> IF status[d] = "running" THEN "stopped" ELSE status[d]]
    /\ UNCHANGED <<Owners, flag, health>>

\* run()'s finally: a reconcile that was shielded goes on.
HostStops ==
    /\ Event /\ host = "up" /\ host' = "stopping"
    /\ task' = [d \in Slugs |-> IF d \in registry THEN Cancelled(task[d]) ELSE task[d]]
    /\ UNCHANGED <<Owners, flag, status, health, registry, reconcile, reload>>

\* The sweep resolves what still says running; asyncio cancels the rest.
HostExits ==
    /\ host = "stopping" /\ \A d \in registry : task[d].at # "dying"
    /\ host' = "off" /\ registry' = {} /\ reconcile' = NotReconciling
    /\ LET left == {d \in Slugs : task[d].at \in {"live", "dying"}} IN
       /\ health' = [d \in Slugs |-> IF d \in left THEN Exited(health[d], "cancelled") ELSE health[d]]
       /\ status' = [d \in Slugs |-> IF d \in left THEN "cancelled"
                                     ELSE IF status[d] = "running" THEN "stopped" ELSE status[d]]
    /\ task' = [d \in Slugs |-> Missing]
    /\ UNCHANGED <<Owners, flag, reload, drvUsed>>

HostDies ==
    /\ Event /\ host # "off" /\ host' = "off" /\ registry' = {} /\ reconcile' = NotReconciling
    /\ task' = [d \in Slugs |-> Missing] /\ UNCHANGED <<Owners, flag, status, health, reload>>

DriversNext ==
    \/ \E d \in Slugs :
          \/ Toggles(d) \/ Begins(d) \/ Unwinds(d) \/ Starts(d) \/ StartFails(d) \/ Replaces(d)
          \/ Leaves(d) \/ Registers(d) \/ Stops(d) \/ Uninstalls(d) \/ Awaited(d)
          \/ \E entry \in {{}} \cup {{e} : e \in Entry} : Installs(d, entry)
          \/ \E outcome \in {"crashed", "returned"} : Fails(d, outcome)
    \/ AsksReload \/ ReloadBegins \/ NextPart \/ HostBoots \/ HostStops \/ HostExits \/ HostDies

DriversSpec == DriversInit /\ [][DriversNext]_drvVars

-----------------------------------------------------------------------------
(* Properties. *)

\* web driver_health.classify
Panel(d) ==
    IF flag[d] = "off" THEN "off"
    ELSE IF status[d] # "running" \/ health[d].last = "exit" THEN "down"
    ELSE IF health[d].ring = RingCap THEN "looping" ELSE "ok"

\* driver_health.py:3: "the worst driver failure class is silent": when the
\* kernel has nothing to reconcile, the console shows an enabled driver as
\* running exactly if its task runs, through crashes and silent returns of the
\* driver, replacements, stops of the kernel and kills.
PanelTruth ==
    host = "up" /\ reconcile.at = "idle" =>
        \A d \in Slugs : manifest[d] # {} /\ Panel(d) # "off" /\ task[d].at \notin {"made", "dying"}
            => (Panel(d) \in {"ok", "looping"} <=> task[d].at = "live")

\* main.py:1181: "bring running driver tasks into sync with /proc `active:`
\* flags": after the last reload, exactly the active drivers that are installed
\* run, in their installed version, but for those that ended on their own.
Converged ==
    host = "up" /\ reconcile.at = "idle" /\ ~reload /\ ~owed =>
        \A d \in Slugs :
            /\ task[d].at \in {"made", "live"} => Active(d) /\ task[d].runs = manifest[d]
            /\ Active(d) /\ manifest[d] # {} /\ task[d].at \notin {"made", "live"} =>
                   task[d].at = "done" \/ (health[d].last = "exit" /\ health[d].outcome = "failed_to_start")
=============================================================================
