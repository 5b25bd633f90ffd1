--------------------------- MODULE MachineProofs ---------------------------
(***************************************************************************)
(* Proofs about what is around the kernel on a machine, each part by       *)
(* itself, for any drivers, fleets, topics, clients and versions, and any  *)
(* bounds: the drivers, their health file and their reconciliation; the    *)
(* fleet of config.yaml; the web backend's hub; the releases, their        *)
(* kernels and their banner; the packages, of which the kernel runs what   *)
(* is activated; and the types of all of them together.                    *)
(***************************************************************************)
EXTENDS Machine, FiniteSetTheorems, TLAPS

-----------------------------------------------------------------------------
(* Drivers. *)

Reconciliations ==
    [at : {"idle", "specs", "gone"}, todo : SUBSET Slugs, specs : [Slugs -> SUBSET Entry],
     waits : SUBSET Slugs]

HealthRecords ==
    [last : {"none", "start", "exit"}, ring : 0..RingCap, outcome : Failures \cup {"none", "cancelled"}]
TaskRecords == [at : {"none", "made", "live", "dying", "done", "gone"}, runs : SUBSET Entry]

DriverTypes ==
    /\ manifest \in [Slugs -> SUBSET Entry]
    /\ flag \in [Slugs -> {"none", "on", "off"}]
    /\ status \in [Slugs -> {"none", "running", "stopped", "failed", "cancelled"}]
    /\ health \in [Slugs -> HealthRecords] /\ task \in [Slugs -> TaskRecords]
    /\ registry \subseteq Slugs /\ reconcile \in Reconciliations
    /\ host \in {"off", "up", "stopping"}

\* A kernel that is off has no tasks and reconciles nothing; a reconciliation
\* waits for one task at most, and an idle one for none.
HostInv ==
    /\ host = "off" => task = [d \in Slugs |-> Missing] /\ registry = {} /\ reconcile = NotReconciling
    /\ \A d, e \in reconcile.waits : d = e
    /\ reconcile.at = "idle" => reconcile.waits = {}

\* What has been started and not yet ended is registered, or waited for.
TaskInv ==
    \A d \in Slugs :
        /\ task[d].at \in {"made", "live"} => d \in registry
        /\ task[d].at = "dying" => d \in registry \cup reconcile.waits
        /\ d \in registry /\ host = "up" => task[d].at \in {"made", "live", "done"}

\* The status and the breadcrumbs say of each driver whether it runs.
HealthInv ==
    \A d \in Slugs :
        /\ task[d].at = "live" => status[d] = "running" /\ health[d].last # "exit"
        /\ host # "off" /\ status[d] = "running" /\ health[d].last # "exit" =>
               task[d].at \in {"live", "dying"}

\* The drivers that a reconciliation is through with; all, between two of them.
Through == IF reconcile.at = "idle" THEN Slugs ELSE Known \ reconcile.todo

\* A driver that is as the manifests and the flags want it, or ended by itself.
InSync(d) ==
    /\ task[d].at \in {"made", "live"} => Active(d) /\ task[d].runs = manifest[d]
    /\ Active(d) /\ manifest[d] # {} /\ task[d].at \notin {"made", "live"} =>
           task[d].at = "done" \/ (health[d].last = "exit" /\ health[d].outcome = "failed_to_start")

\* While nobody has changed a file since, what a reconciliation has read is
\* what the manifests say, and what it is through with is in sync.
SyncInv ==
    host = "up" /\ ~reload /\ ~owed =>
        /\ reconcile.at # "idle" => reconcile.specs = manifest
        /\ \A d \in Through : InSync(d)

DriverInv == DriverTypes /\ HostInv /\ TaskInv /\ HealthInv /\ SyncInv

(* The types. *)

\* Breadcrumbs stay breadcrumbs, tasks stay tasks.
LEMMA HealthTypes ==
    ASSUME NEW h \in HealthRecords, NEW outcome \in Failures \cup {"cancelled"}
    PROVE  Started(h) \in HealthRecords /\ Exited(h, outcome) \in HealthRecords
<1>1. (IF h.outcome \in Failures /\ h.ring < RingCap THEN h.ring + 1 ELSE h.ring) \in 0..RingCap
  BY DEF HealthRecords, RingCap
<1>2. Started(h) \in HealthRecords
  BY <1>1 DEF HealthRecords, Started
<1> QED
  BY <1>2 DEF HealthRecords, Exited, Failures

LEMMA TaskTypes ==
    ASSUME NEW t \in TaskRecords
    PROVE  Cancelled(t) \in TaskRecords
  BY DEF TaskRecords, Cancelled

LEMMA AgedTypes ==
    ASSUME DriverTypes, Aged
    PROVE  task' \in [Slugs -> TaskRecords]
<1>1. \A d \in Slugs : task[d] \in TaskRecords /\ [task[d] EXCEPT !.at = "gone"] \in TaskRecords
  BY DEF DriverTypes, TaskRecords
<1> QED
  BY <1>1 DEF Aged

LEMMA DriverTypesNext ==
    ASSUME DriverTypes, DriversNext
    PROVE  DriverTypes'
<1>1. ASSUME NEW d \in Slugs, Toggles(d) PROVE DriverTypes'
  BY <1>1 DEF DriverTypes, Reconciliations, Toggles, Event, Kernelside
<1>2. ASSUME NEW d \in Slugs, Begins(d) PROVE DriverTypes'
  <2>1. Started(health[d]) \in HealthRecords
    BY HealthTypes DEF DriverTypes, Failures
  <2>2. [task[d] EXCEPT !.at = "live"] \in TaskRecords
    BY DEF DriverTypes, TaskRecords
  <2>3. health' \in [Slugs -> HealthRecords] /\ task' \in [Slugs -> TaskRecords]
    BY <1>2, <2>1, <2>2 DEF DriverTypes, Begins
  <2> QED
    BY <1>2, <2>3 DEF DriverTypes, Begins, Owners
<1>3. ASSUME NEW d \in Slugs, Unwinds(d) PROVE DriverTypes'
  <2>1. Exited(health[d], "cancelled") \in HealthRecords
    BY HealthTypes DEF DriverTypes, Failures
  <2> QED
    BY <1>3, <2>1 DEF DriverTypes, Reconciliations, HealthRecords, TaskRecords, Unwinds, Owners
<1>4. ASSUME NEW d \in Slugs, Starts(d) PROVE DriverTypes'
  BY <1>4 DEF DriverTypes, Reconciliations, HealthRecords, TaskRecords, Entry, Failures,
      RingCap, Starts, Visit, Visited, Owners
<1>5. ASSUME NEW d \in Slugs, StartFails(d) PROVE DriverTypes'
  <2>1. Exited(health[d], "failed_to_start") \in HealthRecords
    BY HealthTypes DEF DriverTypes, Failures
  <2>2. reconcile' \in Reconciliations
    BY <1>5 DEF DriverTypes, Reconciliations, StartFails, Visited
  <2> QED
    BY <1>5, <2>1, <2>2 DEF DriverTypes, StartFails, Owners
<1>6. ASSUME NEW d \in Slugs, Replaces(d) PROVE DriverTypes'
  <2>1. Cancelled(task[d]) \in TaskRecords
    BY TaskTypes DEF DriverTypes
  <2> QED
    BY <1>6, <2>1 DEF DriverTypes, Reconciliations, HealthRecords, TaskRecords, Replaces, Owners
<1>7. ASSUME NEW d \in Slugs, Leaves(d) PROVE DriverTypes'
  BY <1>7 DEF DriverTypes, Reconciliations, Leaves, Visit, Visited, Owners
<1>8. ASSUME NEW d \in Slugs, Registers(d) PROVE DriverTypes'
  BY <1>8 DEF DriverTypes, Reconciliations, Registers, Visit, Visited, Owners
<1>9. ASSUME NEW d \in Slugs, Stops(d) PROVE DriverTypes'
  <2>1. Cancelled(task[d]) \in TaskRecords
    BY TaskTypes DEF DriverTypes
  <2> QED
    BY <1>9, <2>1 DEF DriverTypes, Reconciliations, HealthRecords, TaskRecords, Stops,
        Withdraws, Owners
<1>10. ASSUME NEW d \in Slugs, Uninstalls(d) PROVE DriverTypes'
  <2>1. Cancelled(task[d]) \in TaskRecords
    BY TaskTypes DEF DriverTypes
  <2> QED
    BY <1>10, <2>1 DEF DriverTypes, Reconciliations, HealthRecords, TaskRecords, Uninstalls,
        Withdraws, Owners
<1>11. ASSUME NEW d \in Slugs, Awaited(d) PROVE DriverTypes'
  BY <1>11 DEF DriverTypes, Reconciliations, Awaited, Done, Owners
<1>12. ASSUME NEW d \in Slugs, NEW entry \in {{}} \cup {{e} : e \in Entry}, Installs(d, entry) PROVE DriverTypes'
  BY <1>12 DEF DriverTypes, Reconciliations, Installs, Event, Kernelside
<1>13. ASSUME NEW d \in Slugs, NEW outcome \in {"crashed", "returned"}, Fails(d, outcome) PROVE DriverTypes'
  <2>1. Exited(health[d], outcome) \in HealthRecords
    BY HealthTypes DEF DriverTypes, Failures
  <2>2. [task[d] EXCEPT !.at = "done"] \in TaskRecords
    BY DEF DriverTypes, TaskRecords
  <2>3. health' \in [Slugs -> HealthRecords] /\ task' \in [Slugs -> TaskRecords]
    BY <1>13, <2>1, <2>2 DEF DriverTypes, Fails
  <2> QED
    BY <1>13, <2>3 DEF DriverTypes, Fails, Owners, Event
<1>14. CASE AsksReload
  BY <1>14 DEF DriverTypes, Reconciliations, AsksReload, Kernelside
<1>15. CASE ReloadBegins
  <2>1. reconcile' \in Reconciliations /\ registry' \subseteq Slugs
    BY <1>15 DEF DriverTypes, Reconciliations, ReloadBegins, Rediscovered
  <2>2. task' \in [Slugs -> TaskRecords]
    BY <1>15, AgedTypes DEF ReloadBegins, Rediscovered
  <2> QED
    BY <1>15, <2>1, <2>2 DEF DriverTypes, Reconciliations, ReloadBegins, Owners
<1>16. CASE NextPart
  <2>1. reconcile' \in Reconciliations
    BY <1>16 DEF DriverTypes, Reconciliations, NextPart, NotReconciling
  <2> QED
    BY <1>16, <2>1 DEF DriverTypes, NextPart, Owners
<1>17. CASE HostBoots
  <2>1. reconcile' \in Reconciliations /\ registry' \subseteq Slugs
    BY <1>17 DEF DriverTypes, Reconciliations, HostBoots, Rediscovered
  <2>2. task' \in [Slugs -> TaskRecords]
    BY <1>17, AgedTypes DEF HostBoots, Rediscovered
  <2> QED
    BY <1>17, <2>1, <2>2 DEF DriverTypes, HostBoots, Owners
<1>18. CASE HostStops
  <2>1. \A d \in Slugs : task[d] \in TaskRecords /\ Cancelled(task[d]) \in TaskRecords
    BY TaskTypes DEF DriverTypes
  <2>2. task' \in [Slugs -> TaskRecords]
    BY <1>18, <2>1 DEF HostStops
  <2> QED
    BY <1>18, <2>2 DEF DriverTypes, HostStops, Owners
<1>19. CASE HostExits
  <2>1. reconcile' \in Reconciliations /\ task' \in [Slugs -> TaskRecords]
    BY <1>19 DEF Reconciliations, TaskRecords, HostExits, Missing, NotReconciling, Entry
  <2>2. health' \in [Slugs -> HealthRecords]
    <3>1. \A d \in Slugs : health[d] \in HealthRecords /\ Exited(health[d], "cancelled") \in HealthRecords
      BY HealthTypes DEF DriverTypes, Failures
    <3> QED
      BY <1>19, <3>1 DEF HostExits
  <2> QED
    BY <1>19, <2>1, <2>2 DEF DriverTypes, Reconciliations, HostExits, Owners
<1>20. CASE HostDies
  BY <1>20 DEF DriverTypes, Reconciliations, HealthRecords, TaskRecords, Entry, Failures,
      RingCap, HostDies, Event, Owners, Missing, NotReconciling
<1> QED
  BY <1>1, <1>2, <1>3, <1>4, <1>5, <1>6, <1>7, <1>8, <1>9, <1>10, <1>11, <1>12, <1>13, <1>14,
      <1>15, <1>16, <1>17, <1>18, <1>19, <1>20 DEF DriversNext

(* The host. *)

LEMMA HostInvNext ==
    ASSUME DriverTypes, HostInv, DriversNext
    PROVE  HostInv'
<1>1. ASSUME NEW d \in Slugs, Toggles(d) PROVE HostInv'
  BY <1>1 DEF HostInv, Missing, NotReconciling, DriverTypes, Reconciliations, Toggles, Event,
      Kernelside
<1>2. ASSUME NEW d \in Slugs, Begins(d) PROVE HostInv'
  BY <1>2 DEF HostInv, Missing, NotReconciling, DriverTypes, Reconciliations, Begins, Started,
      Owners
<1>3. ASSUME NEW d \in Slugs, Unwinds(d) PROVE HostInv'
  BY <1>3 DEF HostInv, Missing, NotReconciling, DriverTypes, Reconciliations, Unwinds, Exited,
      Owners
<1>4. ASSUME NEW d \in Slugs, Starts(d) PROVE HostInv'
  BY <1>4 DEF HostInv, Missing, NotReconciling, DriverTypes, Reconciliations, Starts, Visit,
      Visited, Owners
<1>5. ASSUME NEW d \in Slugs, StartFails(d) PROVE HostInv'
  BY <1>5 DEF HostInv, Missing, NotReconciling, DriverTypes, Reconciliations, StartFails, Event,
      Visit, Visited, Exited, Owners
<1>6. ASSUME NEW d \in Slugs, Replaces(d) PROVE HostInv'
  BY <1>6 DEF HostInv, Missing, NotReconciling, DriverTypes, Reconciliations, Replaces, Visit,
      Cancelled, Owners
<1>7. ASSUME NEW d \in Slugs, Leaves(d) PROVE HostInv'
  BY <1>7 DEF HostInv, Missing, NotReconciling, DriverTypes, Reconciliations, Leaves, Visit,
      Visited, Owners
<1>8. ASSUME NEW d \in Slugs, Registers(d) PROVE HostInv'
  BY <1>8 DEF HostInv, Missing, NotReconciling, DriverTypes, Reconciliations, Registers, Visit,
      Visited, Owners
<1>9. ASSUME NEW d \in Slugs, Stops(d) PROVE HostInv'
  BY <1>9 DEF HostInv, Missing, NotReconciling, DriverTypes, Reconciliations, Stops, Visit,
      Withdraws, Cancelled, Owners
<1>10. ASSUME NEW d \in Slugs, Uninstalls(d) PROVE HostInv'
  BY <1>10 DEF HostInv, Missing, NotReconciling, DriverTypes, Reconciliations, Uninstalls,
      Withdraws, Cancelled, Owners, Known
<1>11. ASSUME NEW d \in Slugs, Awaited(d) PROVE HostInv'
  BY <1>11 DEF HostInv, Missing, NotReconciling, DriverTypes, Reconciliations, Awaited, Done, Owners
<1>12. ASSUME NEW d \in Slugs, NEW entry \in {{}} \cup {{e} : e \in Entry}, Installs(d, entry) PROVE HostInv'
  BY <1>12 DEF HostInv, Missing, NotReconciling, DriverTypes, Reconciliations, Installs, Event,
      Kernelside
<1>13. ASSUME NEW d \in Slugs, NEW outcome \in {"crashed", "returned"}, Fails(d, outcome) PROVE HostInv'
  BY <1>13 DEF HostInv, Missing, NotReconciling, DriverTypes, Reconciliations, Fails, Event,
      Exited, Owners
<1>14. CASE AsksReload
  BY <1>14 DEF HostInv, Missing, NotReconciling, DriverTypes, Reconciliations, AsksReload,
      Kernelside
<1>15. CASE ReloadBegins
  BY <1>15 DEF HostInv, Missing, NotReconciling, DriverTypes, Reconciliations, ReloadBegins,
      Rediscovered, Aged, Owners
<1>16. CASE NextPart
  BY <1>16 DEF HostInv, Missing, NotReconciling, DriverTypes, Reconciliations, NextPart, Owners
<1>17. CASE HostBoots
  BY <1>17 DEF HostInv, Missing, NotReconciling, DriverTypes, Reconciliations, HostBoots, Event,
      Rediscovered, Aged, Owners
<1>18. CASE HostStops
  BY <1>18 DEF HostInv, Missing, NotReconciling, DriverTypes, Reconciliations, HostStops, Event,
      Cancelled, Owners
<1>19. CASE HostExits
  BY <1>19 DEF HostInv, Missing, NotReconciling, DriverTypes, Reconciliations, HostExits,
      Exited, Owners
<1>20. CASE HostDies
  BY <1>20 DEF HostInv, Missing, NotReconciling, DriverTypes, Reconciliations, HostDies, Event,
      Owners
<1> QED
  BY <1>1, <1>2, <1>3, <1>4, <1>5, <1>6, <1>7, <1>8, <1>9, <1>10, <1>11, <1>12, <1>13, <1>14,
      <1>15, <1>16, <1>17, <1>18, <1>19, <1>20 DEF DriversNext

LEMMA TaskInvNext ==
    ASSUME DriverTypes, HostInv, TaskInv, DriversNext
    PROVE  TaskInv'
<1>1. ASSUME NEW d \in Slugs, Toggles(d) PROVE TaskInv'
  BY <1>1 DEF TaskInv, HostInv, Missing, Done, DriverTypes, Reconciliations, Toggles, Event,
      Kernelside
<1>2. ASSUME NEW d \in Slugs, Begins(d) PROVE TaskInv'
  BY <1>2 DEF TaskInv, HostInv, Missing, Done, DriverTypes, Reconciliations, Begins, Started, Owners
<1>3. ASSUME NEW d \in Slugs, Unwinds(d) PROVE TaskInv'
  BY <1>3 DEF TaskInv, HostInv, Missing, Done, DriverTypes, Reconciliations, Unwinds, Exited, Owners
<1>4. ASSUME NEW d \in Slugs, Starts(d) PROVE TaskInv'
  BY <1>4 DEF TaskInv, HostInv, Missing, Done, DriverTypes, Reconciliations, Starts, Visit,
      Visited, Owners
<1>5. ASSUME NEW d \in Slugs, StartFails(d) PROVE TaskInv'
  BY <1>5 DEF TaskInv, HostInv, Missing, Done, DriverTypes, Reconciliations, StartFails, Event,
      Visit, Visited, Exited, Owners
<1>6. ASSUME NEW d \in Slugs, Replaces(d) PROVE TaskInv'
  BY <1>6 DEF TaskInv, HostInv, Missing, Done, DriverTypes, Reconciliations, Replaces, Visit,
      Cancelled, Owners
<1>7. ASSUME NEW d \in Slugs, Leaves(d) PROVE TaskInv'
  BY <1>7 DEF TaskInv, HostInv, Missing, Done, DriverTypes, Reconciliations, Leaves, Visit,
      Visited, Owners
<1>8. ASSUME NEW d \in Slugs, Registers(d) PROVE TaskInv'
  BY <1>8 DEF TaskInv, HostInv, Missing, Done, DriverTypes, Reconciliations, Registers, Visit,
      Visited, Owners
<1>9. ASSUME NEW d \in Slugs, Stops(d) PROVE TaskInv'
  BY <1>9 DEF TaskInv, HostInv, Missing, Done, DriverTypes, Reconciliations, Stops, Visit,
      Withdraws, Cancelled, Owners
<1>10. ASSUME NEW d \in Slugs, Uninstalls(d) PROVE TaskInv'
  BY <1>10 DEF TaskInv, HostInv, Missing, Done, DriverTypes, Reconciliations, Uninstalls,
      Withdraws, Cancelled, Owners, Known
<1>11. ASSUME NEW d \in Slugs, Awaited(d) PROVE TaskInv'
  BY <1>11 DEF TaskInv, HostInv, Missing, Done, DriverTypes, Reconciliations, Awaited, Owners
<1>12. ASSUME NEW d \in Slugs, NEW entry \in {{}} \cup {{e} : e \in Entry}, Installs(d, entry) PROVE TaskInv'
  BY <1>12 DEF TaskInv, HostInv, Missing, Done, DriverTypes, Reconciliations, Installs, Event,
      Kernelside
<1>13. ASSUME NEW d \in Slugs, NEW outcome \in {"crashed", "returned"}, Fails(d, outcome) PROVE TaskInv'
  BY <1>13 DEF TaskInv, HostInv, Missing, Done, DriverTypes, Reconciliations, Fails, Event,
      Exited, Owners
<1>14. CASE AsksReload
  BY <1>14 DEF TaskInv, HostInv, Missing, Done, DriverTypes, Reconciliations, AsksReload, Kernelside
<1>15. CASE ReloadBegins
  BY <1>15 DEF TaskInv, HostInv, Missing, Done, DriverTypes, Reconciliations, ReloadBegins,
      Rediscovered, Aged, Owners
<1>16. CASE NextPart
  BY <1>16 DEF TaskInv, HostInv, Missing, Done, DriverTypes, Reconciliations, NextPart, Owners
<1>17. CASE HostBoots
  BY <1>17 DEF TaskInv, HostInv, Missing, Done, DriverTypes, Reconciliations, HostBoots, Event,
      Rediscovered, Aged, Owners
<1>18. CASE HostStops
  BY <1>18 DEF TaskInv, HostInv, Missing, Done, DriverTypes, Reconciliations, HostStops, Event,
      Cancelled, Owners
<1>19. CASE HostExits
  BY <1>19 DEF TaskInv, HostInv, Missing, Done, DriverTypes, Reconciliations, HostExits, Exited,
      Owners, NotReconciling
<1>20. CASE HostDies
  BY <1>20 DEF TaskInv, HostInv, Missing, Done, DriverTypes, Reconciliations, HostDies, Event,
      Owners, NotReconciling
<1> QED
  BY <1>1, <1>2, <1>3, <1>4, <1>5, <1>6, <1>7, <1>8, <1>9, <1>10, <1>11, <1>12, <1>13, <1>14,
      <1>15, <1>16, <1>17, <1>18, <1>19, <1>20 DEF DriversNext

LEMMA HealthInvNext ==
    ASSUME DriverTypes, HostInv, TaskInv, HealthInv, DriversNext
    PROVE  HealthInv'
<1>1. ASSUME NEW d \in Slugs, Toggles(d) PROVE HealthInv'
  BY <1>1 DEF HealthInv, TaskInv, HostInv, DriverTypes, Reconciliations, Toggles, Event, Kernelside
<1>2. ASSUME NEW d \in Slugs, Begins(d) PROVE HealthInv'
  BY <1>2 DEF HealthInv, TaskInv, HostInv, DriverTypes, Reconciliations, Begins, Started, Owners
<1>3. ASSUME NEW d \in Slugs, Unwinds(d) PROVE HealthInv'
  BY <1>3 DEF HealthInv, TaskInv, HostInv, DriverTypes, Reconciliations, Unwinds, Exited, Owners
<1>4. ASSUME NEW d \in Slugs, Starts(d) PROVE HealthInv'
  BY <1>4 DEF HealthInv, TaskInv, HostInv, DriverTypes, Reconciliations, Starts, Visit, Visited,
      Owners
<1>5. ASSUME NEW d \in Slugs, StartFails(d) PROVE HealthInv'
  BY <1>5 DEF HealthInv, TaskInv, HostInv, DriverTypes, Reconciliations, StartFails, Event,
      Visit, Visited, Exited, Owners
<1>6. ASSUME NEW d \in Slugs, Replaces(d) PROVE HealthInv'
  BY <1>6 DEF HealthInv, TaskInv, HostInv, DriverTypes, Reconciliations, Replaces, Visit,
      Cancelled, Owners
<1>7. ASSUME NEW d \in Slugs, Leaves(d) PROVE HealthInv'
  BY <1>7 DEF HealthInv, TaskInv, HostInv, DriverTypes, Reconciliations, Leaves, Visit, Visited,
      Owners
<1>8. ASSUME NEW d \in Slugs, Registers(d) PROVE HealthInv'
  BY <1>8 DEF HealthInv, TaskInv, HostInv, DriverTypes, Reconciliations, Registers, Visit,
      Visited, Owners
<1>9. ASSUME NEW d \in Slugs, Stops(d) PROVE HealthInv'
  BY <1>9 DEF HealthInv, TaskInv, HostInv, DriverTypes, Reconciliations, Stops, Visit,
      Withdraws, Cancelled, Owners
<1>10. ASSUME NEW d \in Slugs, Uninstalls(d) PROVE HealthInv'
  BY <1>10 DEF HealthInv, TaskInv, HostInv, DriverTypes, Reconciliations, Uninstalls, Withdraws,
      Cancelled, Owners, Known
<1>11. ASSUME NEW d \in Slugs, Awaited(d) PROVE HealthInv'
  BY <1>11 DEF HealthInv, TaskInv, HostInv, DriverTypes, Reconciliations, Awaited, Done, Owners
<1>12. ASSUME NEW d \in Slugs, NEW entry \in {{}} \cup {{e} : e \in Entry}, Installs(d, entry) PROVE HealthInv'
  BY <1>12 DEF HealthInv, TaskInv, HostInv, DriverTypes, Reconciliations, Installs, Event,
      Kernelside
<1>13. ASSUME NEW d \in Slugs, NEW outcome \in {"crashed", "returned"}, Fails(d, outcome) PROVE HealthInv'
  BY <1>13 DEF HealthInv, TaskInv, HostInv, DriverTypes, Reconciliations, Fails, Event, Exited,
      Owners
<1>14. CASE AsksReload
  BY <1>14 DEF HealthInv, TaskInv, HostInv, DriverTypes, Reconciliations, AsksReload, Kernelside
<1>15. CASE ReloadBegins
  BY <1>15 DEF HealthInv, TaskInv, HostInv, DriverTypes, Reconciliations, ReloadBegins,
      Rediscovered, Aged, Owners
<1>16. CASE NextPart
  BY <1>16 DEF HealthInv, TaskInv, HostInv, DriverTypes, Reconciliations, NextPart, Owners
<1>17. CASE HostBoots
  BY <1>17 DEF HealthInv, TaskInv, HostInv, DriverTypes, Reconciliations, HostBoots, Event,
      Rediscovered, Aged, Owners
<1>18. CASE HostStops
  BY <1>18 DEF HealthInv, TaskInv, HostInv, DriverTypes, Reconciliations, HostStops, Event,
      Cancelled, Owners
<1>19. CASE HostExits
  BY <1>19 DEF HealthInv, TaskInv, HostInv, DriverTypes, Reconciliations, HostExits, Exited,
      Owners, Missing, NotReconciling
<1>20. CASE HostDies
  BY <1>20 DEF HealthInv, TaskInv, HostInv, DriverTypes, Reconciliations, HostDies, Event,
      Owners, Missing, NotReconciling
<1> QED
  BY <1>1, <1>2, <1>3, <1>4, <1>5, <1>6, <1>7, <1>8, <1>9, <1>10, <1>11, <1>12, <1>13, <1>14,
      <1>15, <1>16, <1>17, <1>18, <1>19, <1>20 DEF DriversNext

LEMMA SyncInvNext ==
    ASSUME DriverInv, DriversNext
    PROVE  SyncInv'
<1>1. ASSUME NEW d \in Slugs, Toggles(d) PROVE SyncInv'
  BY <1>1 DEF DriverInv, SyncInv, Through, InSync, Known, Active, TaskInv, HostInv, DriverTypes,
      Reconciliations, NotReconciling, Toggles, Event, Kernelside
<1>2. ASSUME NEW d \in Slugs, Begins(d) PROVE SyncInv'
  BY <1>2 DEF DriverInv, SyncInv, Through, InSync, Known, Active, TaskInv, HostInv, DriverTypes,
      Reconciliations, NotReconciling, Begins, Started, Owners
<1>3. ASSUME NEW d \in Slugs, Unwinds(d) PROVE SyncInv'
  BY <1>3 DEF DriverInv, SyncInv, Through, InSync, Known, Active, TaskInv, HostInv, DriverTypes,
      Reconciliations, NotReconciling, Unwinds, Exited, Owners
<1>4. ASSUME NEW d \in Slugs, Starts(d) PROVE SyncInv'
  BY <1>4 DEF DriverInv, SyncInv, Through, InSync, Known, Active, TaskInv, HostInv, DriverTypes,
      Reconciliations, NotReconciling, Starts, Visit, Visited, Owners
<1>5. ASSUME NEW d \in Slugs, StartFails(d) PROVE SyncInv'
  BY <1>5 DEF DriverInv, SyncInv, Through, InSync, Known, Active, TaskInv, HostInv, DriverTypes,
      Reconciliations, NotReconciling, StartFails, Event, Visit, Visited, Exited, Owners
<1>6. ASSUME NEW d \in Slugs, Replaces(d) PROVE SyncInv'
  BY <1>6 DEF DriverInv, SyncInv, Through, InSync, Known, Active, TaskInv, HostInv, DriverTypes,
      Reconciliations, NotReconciling, Replaces, Visit, Cancelled, Owners
<1>7. ASSUME NEW d \in Slugs, Leaves(d) PROVE SyncInv'
  BY <1>7 DEF DriverInv, SyncInv, Through, InSync, Known, Active, TaskInv, HostInv, DriverTypes,
      Reconciliations, NotReconciling, Leaves, Visit, Visited, Owners
<1>8. ASSUME NEW d \in Slugs, Registers(d) PROVE SyncInv'
  BY <1>8 DEF DriverInv, SyncInv, Through, InSync, Known, Active, TaskInv, HostInv, DriverTypes,
      Reconciliations, NotReconciling, Registers, Visit, Visited, Owners
<1>9. ASSUME NEW d \in Slugs, Stops(d) PROVE SyncInv'
  BY <1>9 DEF DriverInv, SyncInv, Through, InSync, Known, Active, TaskInv, HostInv, DriverTypes,
      Reconciliations, NotReconciling, Stops, Visit, Withdraws, Cancelled, Owners
<1>10. ASSUME NEW d \in Slugs, Uninstalls(d) PROVE SyncInv'
  BY <1>10 DEF DriverInv, SyncInv, Through, InSync, Known, Active, TaskInv, HostInv,
      DriverTypes, Reconciliations, NotReconciling, Uninstalls, Withdraws, Cancelled, Owners
<1>11. ASSUME NEW d \in Slugs, Awaited(d) PROVE SyncInv'
  BY <1>11 DEF DriverInv, SyncInv, Through, InSync, Known, Active, TaskInv, HostInv,
      DriverTypes, Reconciliations, NotReconciling, Awaited, Done, Owners
<1>12. ASSUME NEW d \in Slugs, NEW entry \in {{}} \cup {{e} : e \in Entry}, Installs(d, entry) PROVE SyncInv'
  BY <1>12 DEF DriverInv, SyncInv, Through, InSync, Known, Active, TaskInv, HostInv,
      DriverTypes, Reconciliations, NotReconciling, Installs, Event, Kernelside
<1>13. ASSUME NEW d \in Slugs, NEW outcome \in {"crashed", "returned"}, Fails(d, outcome) PROVE SyncInv'
  BY <1>13 DEF DriverInv, SyncInv, Through, InSync, Known, Active, TaskInv, HostInv,
      DriverTypes, Reconciliations, NotReconciling, Fails, Event, Exited, Owners
<1>14. CASE AsksReload
  BY <1>14 DEF DriverInv, SyncInv, Through, InSync, Known, Active, TaskInv, HostInv,
      DriverTypes, Reconciliations, NotReconciling, AsksReload, Kernelside
<1>15. CASE ReloadBegins
  BY <1>15 DEF DriverInv, SyncInv, Through, InSync, Known, Active, TaskInv, HostInv,
      DriverTypes, Reconciliations, NotReconciling, ReloadBegins, Rediscovered, Aged, Owners
<1>16. CASE NextPart
  BY <1>16 DEF DriverInv, SyncInv, Through, InSync, Known, Active, TaskInv, HostInv,
      DriverTypes, Reconciliations, NotReconciling, NextPart, Owners
<1>17. CASE HostBoots
  BY <1>17 DEF DriverInv, SyncInv, Through, InSync, Known, Active, TaskInv, HostInv,
      DriverTypes, Reconciliations, NotReconciling, HostBoots, Event, Rediscovered, Aged, Owners
<1>18. CASE HostStops
  BY <1>18 DEF DriverInv, SyncInv, Through, InSync, Known, Active, TaskInv, HostInv,
      DriverTypes, Reconciliations, NotReconciling, HostStops, Event, Cancelled, Owners
<1>19. CASE HostExits
  BY <1>19 DEF DriverInv, SyncInv, Through, InSync, Known, Active, TaskInv, HostInv,
      DriverTypes, Reconciliations, NotReconciling, HostExits, Exited, Owners, Missing
<1>20. CASE HostDies
  BY <1>20 DEF DriverInv, SyncInv, Through, InSync, Known, Active, TaskInv, HostInv,
      DriverTypes, Reconciliations, NotReconciling, HostDies, Event, Owners, Missing
<1> QED
  BY <1>1, <1>2, <1>3, <1>4, <1>5, <1>6, <1>7, <1>8, <1>9, <1>10, <1>11, <1>12, <1>13, <1>14,
      <1>15, <1>16, <1>17, <1>18, <1>19, <1>20 DEF DriversNext

LEMMA DriverInit == DriversInit => DriverInv
<1>1. NotReconciling \in Reconciliations /\ Missing \in TaskRecords
  BY DEF NotReconciling, Missing, Reconciliations, TaskRecords
<1>2. [last |-> "none", outcome |-> "none", ring |-> 0] \in HealthRecords
  BY DEF HealthRecords, RingCap
<1>3. DriversInit => DriverTypes
  BY <1>1, <1>2 DEF DriversInit, DriverTypes, Entry
<1> QED
  BY <1>3 DEF DriversInit, DriverInv, HostInv, TaskInv, HealthInv, SyncInv, Missing, NotReconciling

LEMMA DriverNext == DriverInv /\ [DriversNext]_drvVars => DriverInv'
<1>1. ASSUME DriverInv, DriversNext PROVE DriverInv'
  BY <1>1, DriverTypesNext, HostInvNext, TaskInvNext, HealthInvNext, SyncInvNext DEF DriverInv
<1>2. ASSUME DriverInv, UNCHANGED drvVars PROVE DriverInv'
  BY <1>2 DEF DriverInv, DriverTypes, HostInv, TaskInv, HealthInv, SyncInv, Through, InSync,
              Active, Known, drvVars
<1> QED
  BY <1>1, <1>2

\* The invariant of the drivers: of _reconcile_drivers, _supervise_driver and
\* the breadcrumbs, at every step of a boot, a reload, a stop and a kill.
THEOREM DriverInvCorrect == DriversSpec => []DriverInv
  BY DriverInit, DriverNext, PTL DEF DriversSpec

LEMMA DriversTyped == DriverInv => DriversTypeOK
  BY DEF DriverInv, DriverTypes, DriversTypeOK, HealthRecords, TaskRecords, Reconciliations

\* Manifests, flags, statuses, breadcrumbs and tasks keep their types.
THEOREM DriversTypeCorrect == DriversSpec => []DriversTypeOK
  BY DriversTyped, DriverInvCorrect, PTL

\* The console shows an enabled driver as running exactly if its task runs:
\* driver_health's classification of the status and the breadcrumbs.
THEOREM PanelTruthCorrect == DriversSpec => []PanelTruth
<1>1. ASSUME NEW d \in Slugs, Panel(d) # "off"
      PROVE  Panel(d) \in {"ok", "looping"} <=> status[d] = "running" /\ health[d].last # "exit"
  BY <1>1 DEF Panel
<1>2. DriverInv => PanelTruth
  BY <1>1 DEF DriverInv, HealthInv, PanelTruth
<1> QED
  BY <1>2, DriverInvCorrect, PTL

\* After the last reload exactly the active drivers that are installed run, in
\* their installed version, but for those that ended on their own.
THEOREM ConvergedCorrect == DriversSpec => []Converged
<1>1. DriverInv => Converged
  BY DEF DriverInv, SyncInv, Through, InSync, Converged
<1> QED
  BY <1>1, DriverInvCorrect, PTL

-----------------------------------------------------------------------------
(* The fleet. *)

\* What the kernel has not heard of yet: a reload waits, an editor has renamed
\* the document and not emitted, or has died in between.
Unheard == fleetReload \/ silent \/ \E k \in edits : k.at \in {"renamed", "removed"}

\* But for that, the document which a reconciliation has loaded is the one on
\* disk; once it is applied /proc mirrors it, once it is projected the freeze
\* files do.  A document that does not load is not applied.
MirrorInv ==
    ~Unheard =>
        /\ fleetKernel = "apply" => desired = {config}
        /\ fleetKernel = "project" => \A n \in Pais : Mirrors(n)
        /\ fleetKernel = "up" /\ Valid(config) =>
               frozen = (config.grant # "yes") /\ \A n \in Pais : Mirrors(n)

\* Only an addition is made before it is loaded.
EditInv == \A k \in edits : k.at = "made" => k.field \in Pais

FleetInv == FleetTypeOK /\ EditInv /\ MirrorInv

\* A document's entries.
LEMMA DocType ==
    ASSUME NEW doc
    PROVE  doc \in Docs <=> /\ doc = [pais |-> doc.pais, grant |-> doc.grant]
                            /\ DOMAIN doc.pais \subseteq Pais /\ doc.grant \in Modes
                            /\ doc.pais \in [DOMAIN doc.pais -> Entries]
<1>1. ASSUME doc \in Docs
      PROVE  /\ doc = [pais |-> doc.pais, grant |-> doc.grant]
             /\ DOMAIN doc.pais \subseteq Pais /\ doc.grant \in Modes
             /\ doc.pais \in [DOMAIN doc.pais -> Entries]
  <2>1. PICK S \in SUBSET Pais : doc.pais \in [S -> Entries]
    BY <1>1 DEF Docs
  <2> QED
    BY <1>1, <2>1 DEF Docs
<1>2. ASSUME doc = [pais |-> doc.pais, grant |-> doc.grant],
             DOMAIN doc.pais \subseteq Pais, doc.grant \in Modes,
             doc.pais \in [DOMAIN doc.pais -> Entries]
      PROVE  doc \in Docs
  <2>1. doc.pais \in UNION {[S -> Entries] : S \in SUBSET Pais}
    BY <1>2
  <2> QED
    BY <1>2, <2>1 DEF Docs
<1> QED
  BY <1>1, <1>2

\* What an editor makes of the document is a document.
LEMMA WithType ==
    ASSUME config \in Docs, NEW n \in Pais, NEW x \in Entries
    PROVE  With(n, x) \in Docs
<1>1. /\ config = [pais |-> config.pais, grant |-> config.grant]
      /\ DOMAIN config.pais \subseteq Pais /\ config.grant \in Modes
      /\ config.pais \in [DOMAIN config.pais -> Entries]
  BY DocType
<1>2. PICK f : f = [m \in DOMAIN config.pais \cup {n} |-> IF m = n THEN x ELSE config.pais[m]]
  OBVIOUS
<1>3. DOMAIN f \subseteq Pais /\ f \in [DOMAIN f -> Entries]
  BY <1>1, <1>2
<1>4. With(n, x) = [pais |-> f, grant |-> config.grant]
  BY <1>1, <1>2 DEF With
<1> QED
  BY <1>1, <1>3, <1>4, DocType

LEMMA WithoutType ==
    ASSUME config \in Docs, NEW n
    PROVE  Without(n) \in Docs
<1>1. /\ config = [pais |-> config.pais, grant |-> config.grant]
      /\ DOMAIN config.pais \subseteq Pais /\ config.grant \in Modes
      /\ config.pais \in [DOMAIN config.pais -> Entries]
  BY DocType
<1>2. PICK f : f = [m \in DOMAIN config.pais \ {n} |-> config.pais[m]]
  OBVIOUS
<1>3. DOMAIN f \subseteq Pais /\ f \in [DOMAIN f -> Entries]
  BY <1>1, <1>2
<1>4. Without(n) = [pais |-> f, grant |-> config.grant]
  BY <1>1, <1>2 DEF Without
<1> QED
  BY <1>1, <1>3, <1>4, DocType

LEMMA GrantType ==
    ASSUME config \in Docs, NEW mode \in Modes
    PROVE  [config EXCEPT !.grant = mode] \in Docs
  BY DEF Docs

\* An edit that begins, and one that goes on.
LEMMA GoesType ==
    ASSUME FleetTypeOK, NEW k \in edits,
           NEW stage \in {"loaded", "written", "renamed", "waiting", "removed"}, Goes(k, stage)
    PROVE  edits' \subseteq EditOf
<1>1. [k EXCEPT !.at = stage] \in EditOf
  BY DEF FleetTypeOK, EditOf
<1> QED
  BY <1>1 DEF FleetTypeOK, Goes

LEMMA BeginsTypes ==
    ASSUME FleetTypeOK, NEW e \in Editors,
           \/ \E n \in Pais :
                 \/ AddMakes(e, n) \/ DeleteLoads(e, n)
                 \/ \E s \in Pais : CloneMakes(e, s, n)
                 \/ \E value \in BOOLEAN, op \in {"set", "wipe"} : ToggleLoads(e, n, value, op)
                 \/ \E dial \in Dials : TuneLoads(e, n, dial)
           \/ \E mode \in Modes : GrantLoads(e, mode)
    PROVE  FleetTypeOK'
<1>1. config \in Docs /\ Pais \subseteq Fields /\ "capabilities" \in Fields
  BY DEF FleetTypeOK, Fields
<1>2. \A m \in Declared : m \in Pais /\ config.pais[m] \in Entries
  BY <1>1, DocType DEF Declared
<1>3. ASSUME UNCHANGED <<config, tmp, Fleet>>, instances' \subseteq Pais,
             NEW f \in Editors, NEW op \in {"add", "set", "tune", "delete", "wipe"},
             NEW field \in Fields, NEW stage \in {"made", "loaded", "renamed"},
             NEW entry \in SUBSET Entries, NEW to \in SUBSET Docs,
             Begin(f, op, field, stage, entry, to)
      PROVE  FleetTypeOK'
  <2>1. edits' \subseteq EditOf /\ begun' \in 0..Edits
    <3>1. [by |-> f, op |-> op, field |-> field, at |-> stage, entry |-> entry, to |-> to] \in EditOf
      BY <1>3 DEF EditOf
    <3>2. begun' \in 0..Edits
      BY <1>3, FleetAssumption DEF FleetTypeOK, Begin
    <3> QED
      BY <1>3, <3>1, <3>2 DEF FleetTypeOK, Begin
  <2> QED
    BY <1>3, <2>1 DEF FleetTypeOK, Fleet
<1>4. instances \subseteq Pais
  BY DEF FleetTypeOK
<1>5. ASSUME NEW n \in Pais, AddMakes(e, n) PROVE FleetTypeOK'
  <2>1. {NewPai} \in SUBSET Entries
    BY DEF NewPai, Entries, Dials
  <2>2. /\ UNCHANGED <<config, tmp, Fleet>> /\ instances' \subseteq Pais
        /\ Begin(e, "add", n, "made", {NewPai}, {})
    BY <1>4, <1>5 DEF AddMakes
  <2> QED
    BY <1>1, <1>3, <2>1, <2>2
<1>6. ASSUME NEW n \in Pais, NEW s \in Pais, CloneMakes(e, s, n) PROVE FleetTypeOK'
  <2>0. [config.pais[s] EXCEPT !.clone = TRUE, !.dial = @ \ PersonalKeys] \in Entries
    <3>1. PICK x \in Entries : x = config.pais[s]
      BY <1>2, <1>6 DEF CloneMakes
    <3>2. x.dial \ PersonalKeys \in Dials
      BY DEF Entries, Dials
    <3>3. [x EXCEPT !.clone = TRUE, !.dial = @ \ PersonalKeys] \in Entries
      BY <3>2 DEF Entries
    <3> QED
      BY <3>1, <3>3
  <2>1. PICK entry \in SUBSET Entries :
           entry = {[config.pais[s] EXCEPT !.clone = TRUE, !.dial = @ \ PersonalKeys]}
    BY <2>0
  <2>2. /\ UNCHANGED <<config, tmp, Fleet>> /\ instances' \subseteq Pais
        /\ Begin(e, "add", n, "made", entry, {})
    BY <1>4, <1>6, <2>1 DEF CloneMakes
  <2>3. n \in Fields /\ {} \in SUBSET Docs
    BY <1>1
  <2> QED
    BY <1>3, <2>2, <2>3
<1>7. ASSUME NEW n \in Pais, DeleteLoads(e, n) PROVE FleetTypeOK'
  <2>1. {Without(n)} \in SUBSET Docs
    BY <1>1, WithoutType
  <2>2. /\ UNCHANGED <<config, tmp, Fleet>> /\ instances' \subseteq Pais
        /\ Begin(e, "delete", n, "loaded", {}, {Without(n)})
    BY <1>4, <1>7 DEF DeleteLoads
  <2> QED
    BY <1>1, <1>3, <2>1, <2>2
<1>8. ASSUME NEW n \in Pais, NEW value \in BOOLEAN, NEW op \in {"set", "wipe"},
             ToggleLoads(e, n, value, op)
      PROVE  FleetTypeOK'
  <2>1. [config.pais[n] EXCEPT !.active = value] \in Entries
    BY <1>2, <1>8 DEF ToggleLoads, Entries
  <2>2. {With(n, [config.pais[n] EXCEPT !.active = value])} \in SUBSET Docs
    BY <1>1, <2>1, WithType
  <2>3. /\ UNCHANGED <<config, tmp, Fleet>> /\ instances' \subseteq Pais
        /\ \/ Begin(e, op, n, "renamed", {}, {})
           \/ Begin(e, op, n, "loaded", {}, {With(n, [config.pais[n] EXCEPT !.active = value])})
    BY <1>4, <1>8 DEF ToggleLoads
  <2> QED
    BY <1>1, <1>3, <2>2, <2>3
<1>9. ASSUME NEW n \in Pais, NEW dial \in Dials, TuneLoads(e, n, dial) PROVE FleetTypeOK'
  <2>1. [config.pais[n] EXCEPT !.dial = dial] \in Entries
    BY <1>2, <1>9 DEF TuneLoads, Entries
  <2>2. {With(n, [config.pais[n] EXCEPT !.dial = dial])} \in SUBSET Docs
    BY <1>1, <2>1, WithType
  <2>3. /\ UNCHANGED <<config, tmp, Fleet>> /\ instances' \subseteq Pais
        /\ Begin(e, "tune", n, "loaded", {}, {With(n, [config.pais[n] EXCEPT !.dial = dial])})
    BY <1>4, <1>9 DEF TuneLoads
  <2> QED
    BY <1>1, <1>3, <2>2, <2>3
<1>10. ASSUME NEW mode \in Modes, GrantLoads(e, mode) PROVE FleetTypeOK'
  <2>1. {[config EXCEPT !.grant = mode]} \in SUBSET Docs
    BY <1>1, GrantType
  <2>2. /\ UNCHANGED <<config, tmp, Fleet>> /\ instances' \subseteq Pais
        /\ Begin(e, "tune", "capabilities", "loaded", {}, {[config EXCEPT !.grant = mode]})
    BY <1>4, <1>10 DEF GrantLoads
  <2> QED
    BY <1>1, <1>3, <2>1, <2>2
<1> QED
  BY <1>5, <1>6, <1>7, <1>8, <1>9, <1>10

LEMMA EditTypes ==
    ASSUME FleetTypeOK, EditInv, NEW k \in edits,
           \/ AddLoads(k) \/ Writes(k) \/ Renames(k) \/ RenameRaises(k) \/ Emits(k)
           \/ WipeLoads(k) \/ WipeTimesOut(k) \/ Dies(k)
           \/ \E purge \in BOOLEAN : Removes(k, purge)
    PROVE  FleetTypeOK'
<1>1. k \in EditOf /\ config \in Docs
  BY DEF FleetTypeOK
<1>2. CASE AddLoads(k)
  <2>1. PICK to : to = {With(k.field, x) : x \in k.entry}
    OBVIOUS
  <2>2. to \in SUBSET Docs
    <3>1. k.field \in Pais
      BY <1>2 DEF AddLoads, EditInv
    <3> QED
      BY <1>1, <2>1, <3>1, WithType DEF EditOf
  <2>3. [k EXCEPT !.at = "loaded", !.to = to] \in EditOf
    BY <1>1, <2>2 DEF EditOf
  <2>4. edits' = (edits \ {k}) \cup {[k EXCEPT !.at = "loaded", !.to = to]}
    BY <1>2, <2>1 DEF AddLoads
  <2> QED
    BY <1>2, <2>3, <2>4 DEF AddLoads, FleetTypeOK, Fleet
<1>3. CASE Writes(k)
  <2>1. edits' \subseteq EditOf
    BY <1>3, GoesType DEF Writes
  <2> QED
    BY <1>1, <1>3, <2>1 DEF Writes, FleetTypeOK, Fleet, EditOf
<1>4. CASE Renames(k)
  <2>1. edits' \subseteq EditOf
    BY <1>4, GoesType DEF Renames
  <2> QED
    BY <1>4, <2>1 DEF Renames, FleetTypeOK, Fleet
<1>5. CASE RenameRaises(k)
  BY <1>5 DEF RenameRaises, FleetTypeOK, Fleet
<1>6. CASE Emits(k)
  <2>1. edits' \subseteq EditOf
    BY <1>6, GoesType DEF Emits, FleetTypeOK
  <2> QED
    BY <1>6, <2>1 DEF Emits, FleetTypeOK
<1>7. CASE WipeLoads(k)
  <2>1. [k EXCEPT !.op = "delete", !.at = "loaded", !.to = {Without(k.field)}] \in EditOf
    BY <1>1, WithoutType DEF EditOf
  <2> QED
    BY <1>7, <2>1 DEF WipeLoads, FleetTypeOK, Fleet
<1>8. CASE WipeTimesOut(k)
  BY <1>8 DEF WipeTimesOut, FleetTypeOK, Fleet
<1>9. CASE Dies(k)
  BY <1>9 DEF Dies, FleetTypeOK
<1>10. ASSUME NEW purge \in BOOLEAN, Removes(k, purge) PROVE FleetTypeOK'
  <2>1. edits' \subseteq EditOf
    BY <1>10, GoesType DEF Removes
  <2>2. proc' \in [Pais -> SUBSET Procs] /\ instances' \subseteq Pais
    BY <1>10 DEF Removes, FleetTypeOK
  <2> QED
    BY <1>10, <2>1, <2>2 DEF Removes, FleetTypeOK
<1> QED
  BY <1>2, <1>3, <1>4, <1>5, <1>6, <1>7, <1>8, <1>9, <1>10

LEMMA EditInvNext ==
    ASSUME FleetTypeOK, EditInv, EditorsAct
    PROVE  EditInv'
<1>1. ASSUME NEW e \in Editors, NEW op, NEW field, NEW stage, NEW entry, NEW to,
             Begin(e, op, field, stage, entry, to), stage = "made" => field \in Pais
      PROVE  EditInv'
  BY <1>1 DEF Begin, EditInv
<1>2. ASSUME NEW k \in edits, NEW stage, Goes(k, stage), stage # "made"
      PROVE  EditInv'
  <2>1. [k EXCEPT !.at = stage].at = stage
    BY DEF FleetTypeOK, EditOf
  <2> QED
    BY <1>2, <2>1 DEF Goes, EditInv
<1>3. ASSUME NEW e \in Editors, NEW n \in Pais,
             \/ AddMakes(e, n) \/ DeleteLoads(e, n)
             \/ \E s \in Pais : CloneMakes(e, s, n)
             \/ \E value \in BOOLEAN, op \in {"set", "wipe"} : ToggleLoads(e, n, value, op)
             \/ \E dial \in Dials : TuneLoads(e, n, dial)
      PROVE  EditInv'
  <2>1. \/ \E entry : Begin(e, "add", n, "made", entry, {})
        \/ \E op, stage, to : stage # "made" /\ Begin(e, op, n, stage, {}, to)
    BY <1>3 DEF AddMakes, DeleteLoads, CloneMakes, ToggleLoads, TuneLoads
  <2> QED
    BY <1>1, <2>1
<1>4. ASSUME NEW e \in Editors, NEW mode \in Modes, GrantLoads(e, mode) PROVE EditInv'
  BY <1>1, <1>4 DEF GrantLoads
<1>5. ASSUME NEW k \in edits, AddLoads(k) \/ WipeLoads(k) PROVE EditInv'
  <2>1. PICK x : edits' = (edits \ {k}) \cup {x} /\ x.at = "loaded"
    <3>1. \A to : [k EXCEPT !.at = "loaded", !.to = to].at = "loaded"
      BY DEF FleetTypeOK, EditOf
    <3>2. \A to : [k EXCEPT !.op = "delete", !.at = "loaded", !.to = to].at = "loaded"
      BY DEF FleetTypeOK, EditOf
    <3> QED
      BY <1>5, <3>1, <3>2 DEF AddLoads, WipeLoads
  <2> QED
    BY <2>1 DEF EditInv
<1>6. ASSUME NEW k \in edits,
             \/ Writes(k) \/ Renames(k) \/ Emits(k)
             \/ \E purge \in BOOLEAN : Removes(k, purge)
      PROVE  EditInv'
  <2>1. edits' = edits \ {k} \/ \E stage : stage # "made" /\ Goes(k, stage)
    BY <1>6 DEF Writes, Renames, Emits, Removes
  <2> QED
    BY <1>2, <2>1 DEF EditInv
<1>7. ASSUME NEW k \in edits, RenameRaises(k) \/ WipeTimesOut(k) \/ Dies(k) PROVE EditInv'
  BY <1>7 DEF RenameRaises, WipeTimesOut, Dies, EditInv
<1> QED
  BY <1>3, <1>4, <1>5, <1>6, <1>7 DEF EditorsAct

\* What a reconciliation makes of a process entry is one.
LEMMA ReconciledType ==
    ASSUME FleetTypeOK, NEW n \in Pais, NEW doc \in Docs
    PROVE  Reconciled(n, doc) \in SUBSET Procs
<1>1. proc[n] \in SUBSET Procs
  BY DEF FleetTypeOK
<1>2. \A p \in proc[n] : Dismissed(p) \in Procs
  BY <1>1 DEF Procs, Stopped, Dismissed
<1>3. ASSUME n \in DOMAIN doc.pais
      PROVE  /\ Spawned(doc.pais[n]) \in Procs
             /\ \A p \in proc[n] : Updated(p, doc.pais[n]) \in Procs
  <2>1. PICK x \in Entries : x = doc.pais[n]
    BY <1>3, DocType
  <2>2. x.active \in BOOLEAN /\ x.dial \subseteq Keys /\ x.parent \in BOOLEAN
    BY DEF Entries, Dials
  <2>3. Spawned(x) \in Procs
    BY <2>2 DEF Spawned, Procs, Dials
  <2>4. \A p \in proc[n] : Updated(p, x) \in Procs
    BY <1>1, <2>2 DEF Updated, Stopped, Procs, Dials
  <2> QED
    BY <2>1, <2>3, <2>4
<1>4. CASE n \notin DOMAIN doc.pais
  <2>1. Reconciled(n, doc) = {Dismissed(p) : p \in proc[n]}
    BY <1>4 DEF Reconciled
  <2> QED
    BY <1>2, <2>1
<1>5. CASE n \in DOMAIN doc.pais /\ proc[n] # {}
  BY <1>3, <1>5 DEF Reconciled
<1>6. CASE n \in DOMAIN doc.pais /\ proc[n] = {}
  BY <1>3, <1>6 DEF Reconciled
<1> QED
  BY <1>4, <1>5, <1>6

LEMMA KernelTypes ==
    ASSUME FleetTypeOK,
           \/ ReloadTaken \/ FleetStarts \/ BootReconciles \/ FleetStops \/ FleetCrashes
           \/ Applies \/ Projects
    PROVE  FleetTypeOK'
<1>1. CASE ReloadTaken
  BY <1>1 DEF ReloadTaken, Reconciles, FleetTypeOK, Files
<1>2. CASE FleetStarts
  <2>1. fleetLives' \in 1..FleetBoots
    BY <1>2, FleetAssumption DEF FleetStarts, FleetTypeOK
  <2> QED
    BY <1>2, <2>1 DEF FleetStarts, FleetTypeOK, Files
<1>3. CASE BootReconciles
  BY <1>3 DEF BootReconciles, Reconciles, FleetTypeOK, Files
<1>4. CASE FleetStops
  <2>1. \A n \in Pais : {Stopped(p, "stopped") : p \in proc[n]} \in SUBSET Procs
    BY DEF FleetTypeOK, Procs, Stopped
  <2> QED
    BY <1>4, <2>1 DEF FleetStops, FleetTypeOK, Files
<1>5. CASE FleetCrashes
  BY <1>5 DEF FleetCrashes, FleetTypeOK, Files
<1>6. CASE Applies
  <2>1. PICK doc \in desired :
           /\ proc' = [n \in Pais |-> Reconciled(n, doc)]
           /\ fresh' = {n \in DOMAIN doc.pais : proc[n] = {} /\ doc.pais[n].active}
    BY <1>6 DEF Applies
  <2>2. proc' \in [Pais -> SUBSET Procs] /\ fresh' \subseteq Pais
    BY <2>1, ReconciledType, DocType DEF FleetTypeOK
  <2> QED
    BY <1>6, <2>2 DEF Applies, FleetTypeOK, Files
<1>7. CASE Projects
  BY <1>7 DEF Projects, FleetTypeOK, Files
<1> QED
  BY <1>1, <1>2, <1>3, <1>4, <1>5, <1>6, <1>7

\* After a reconciliation with the document on disk, /proc mirrors it.
LEMMA ReconciledMirrors ==
    ASSUME FleetTypeOK, NEW n \in Pais, proc'[n] = Reconciled(n, config), UNCHANGED config,
           fresh' = {m \in DOMAIN config.pais : proc[m] = {} /\ config.pais[m].active}
    PROVE  Mirrors(n)'
<1>0. \A p \in proc[n] : p.parent \in BOOLEAN /\ Stopped(p, "stopped").status # "running"
                        /\ Stopped(p, "cancelled").status # "running"
  BY DEF FleetTypeOK, Procs, Stopped
<1>1. CASE n \notin DOMAIN config.pais
  <2>1. ASSUME NEW p \in proc[n], Dismissed(p).status = "running" PROVE Dismissed(p).parent
    <3>1. CASE p.parent
      BY <3>1 DEF Dismissed
    <3>2. CASE ~p.parent
      <4>1. Dismissed(p) = Stopped(p, "cancelled")
        BY <3>2 DEF Dismissed
      <4> QED
        BY <1>0, <2>1, <4>1
    <3> QED
      BY <3>1, <3>2
  <2>2. proc'[n] = {Dismissed(p) : p \in proc[n]}
    BY <1>1 DEF Reconciled
  <2>4. n \notin Declared'
    BY <1>1 DEF Declared
  <2>3. \A q \in proc'[n] : q.status = "running" => q.parent
    BY <2>1, <2>2
  <2> QED
    BY <2>3, <2>4 DEF Mirrors
<1>2. CASE n \in DOMAIN config.pais
  <2>1. PICK x \in Entries : x = config.pais[n]
    BY <1>2, DocType DEF FleetTypeOK
  <2>2. x.active \in BOOLEAN
    BY DEF Entries
  <2>3. CASE proc[n] = {}
    <3>1. proc'[n] = IF x.active THEN {Spawned(x)} ELSE {}
      BY <1>2, <2>1, <2>3 DEF Reconciled
    <3>2. CASE x.active
      <4>1. proc'[n] = {Spawned(x)} /\ n \in fresh'
        BY <1>2, <2>1, <2>3, <3>1, <3>2
      <4> QED
        BY <1>2, <2>1, <3>2, <4>1 DEF Mirrors, Declared, RunsIn, Wired, Spawned
    <3>3. CASE ~x.active
      <4>1. proc'[n] = {}
        BY <3>1, <3>3
      <4> QED
        BY <1>2, <2>1, <3>3, <4>1 DEF Mirrors, Declared, RunsIn
    <3> QED
      BY <2>2, <3>2, <3>3
  <2>4. CASE proc[n] # {}
    <3>1. proc'[n] = {Updated(p, x) : p \in proc[n]} /\ n \notin fresh'
      BY <1>2, <2>1, <2>4 DEF Reconciled
    <3>2. \A q \in proc'[n] : /\ q.dial = x.dial /\ q.parent = x.parent
                              /\ q.status = "running" <=> x.active
      BY <1>0, <2>2, <3>1 DEF Updated
    <3>3. \E q \in proc'[n] : TRUE
      BY <2>4, <3>1
    <3>4. CASE x.active
      <4>1. RunsIn(n)'
        BY <3>2, <3>3, <3>4 DEF RunsIn
      <4> QED
        BY <1>2, <2>1, <3>1, <3>2, <3>4, <4>1 DEF Mirrors, Declared, Wired
    <3>5. CASE ~x.active
      <4>1. \A q \in proc'[n] : q.status # "running"
        BY <1>0, <3>1, <3>5 DEF Updated
      <4>2. ~RunsIn(n)'
        BY <4>1 DEF RunsIn
      <4>3. config'.pais[n].active = FALSE
        BY <2>1, <2>2, <3>5
      <4>4. n \in Declared' /\ Wired(n)' = x.dial /\ config'.pais[n].parent = x.parent
        BY <1>2, <2>1, <3>1 DEF Declared, Wired
      <4> QED
        BY <3>2, <4>2, <4>3, <4>4 DEF Mirrors
    <3> QED
      BY <2>2, <3>4, <3>5
  <2> QED
    BY <2>3, <2>4
<1> QED
  BY <1>1, <1>2

\* A step of an editor that leaves the document, and what the kernel has not
\* heard of, as they are.
LEMMA QuietEdit ==
    ASSUME MirrorInv, UNCHANGED <<config, proc, fresh, frozen, fleetReload, desired, fleetKernel,
                       silent>>,
           \A k \in edits : k.at \in {"renamed", "removed"} => k \in edits'
    PROVE  MirrorInv'
<1>1. Unheard => Unheard'
  BY DEF Unheard
<1> QED
  BY <1>1 DEF MirrorInv, Mirrors, Wired, Declared, RunsIn, Valid

LEMMA EditorsMirror ==
    ASSUME FleetTypeOK, MirrorInv, EditorsAct
    PROVE  MirrorInv'
<1>1. ASSUME NEW e \in Editors, NEW n \in Pais,
             \/ AddMakes(e, n) \/ DeleteLoads(e, n)
             \/ \E s \in Pais : CloneMakes(e, s, n)
             \/ \E value \in BOOLEAN, op \in {"set", "wipe"} : ToggleLoads(e, n, value, op)
             \/ \E dial \in Dials : TuneLoads(e, n, dial)
      PROVE  MirrorInv'
  <2>1. edits \subseteq edits' /\ UNCHANGED <<config, Fleet>>
    BY <1>1 DEF AddMakes, DeleteLoads, CloneMakes, ToggleLoads, TuneLoads, Begin
  <2> QED
    BY <2>1, QuietEdit DEF Fleet
<1>2. ASSUME NEW e \in Editors, NEW mode \in Modes, GrantLoads(e, mode) PROVE MirrorInv'
  BY <1>2, QuietEdit DEF GrantLoads, Begin, Fleet
<1>3. ASSUME NEW k \in edits,
             AddLoads(k) \/ Writes(k) \/ RenameRaises(k) \/ WipeLoads(k) \/ WipeTimesOut(k)
      PROVE  MirrorInv'
  <2>1. /\ k.at \notin {"renamed", "removed"} /\ edits \ {k} \subseteq edits'
        /\ UNCHANGED <<config, Fleet>>
    BY <1>3 DEF AddLoads, Writes, RenameRaises, WipeLoads, WipeTimesOut, Goes
  <2> QED
    BY <2>1, QuietEdit DEF Fleet
<1>4. ASSUME NEW k \in edits, Renames(k) \/ \E purge \in BOOLEAN : Removes(k, purge)
      PROVE  MirrorInv'
  <2>1. PICK stage \in {"renamed", "removed"} : Goes(k, stage)
    BY <1>4 DEF Renames, Removes
  <2>2. [k EXCEPT !.at = stage].at = stage
    BY DEF FleetTypeOK, EditOf
  <2>3. \E j \in edits' : j.at \in {"renamed", "removed"}
    BY <2>1, <2>2 DEF Goes
  <2> QED
    BY <2>3 DEF MirrorInv, Unheard
<1>5. ASSUME NEW k \in edits, Emits(k) PROVE MirrorInv'
  BY <1>5 DEF Emits, MirrorInv, Unheard
<1>6. ASSUME NEW k \in edits, Dies(k) PROVE MirrorInv'
  <2>1. CASE k.at \in {"renamed", "removed"}
    BY <1>6, <2>1 DEF Dies, MirrorInv, Unheard
  <2>2. CASE k.at \notin {"renamed", "removed"}
    <3>1. silent' = silent
      BY <1>6, <2>2 DEF Dies, FleetTypeOK
    <3> QED
      BY <1>6, <2>2, <3>1, QuietEdit DEF Dies
  <2> QED
    BY <2>1, <2>2
<1> QED
  BY <1>1, <1>2, <1>3, <1>4, <1>5, <1>6 DEF EditorsAct

LEMMA KernelMirror ==
    ASSUME FleetTypeOK, MirrorInv,
           \/ ReloadTaken \/ FleetStarts \/ BootReconciles \/ FleetStops \/ FleetCrashes
           \/ Applies \/ Projects
    PROVE  MirrorInv'
<1>1. CASE ReloadTaken
  BY <1>1 DEF ReloadTaken, Reconciles, MirrorInv, Files, Valid
<1>2. CASE FleetStarts
  BY <1>2 DEF FleetStarts, MirrorInv
<1>3. CASE BootReconciles
  BY <1>3 DEF BootReconciles, Reconciles, MirrorInv, Files
<1>4. CASE FleetStops
  BY <1>4 DEF FleetStops, MirrorInv
<1>5. CASE FleetCrashes
  BY <1>5 DEF FleetCrashes, MirrorInv
<1>6. CASE Applies
  <2>1. UNCHANGED <<config, edits, fleetReload, silent>> /\ fleetKernel' = "project"
    BY <1>6 DEF Applies, Files
  <2>2. Unheard' = Unheard
    BY <2>1 DEF Unheard
  <2>3. ASSUME ~Unheard, NEW n \in Pais PROVE Mirrors(n)'
    <3>1. /\ proc' = [m \in Pais |-> Reconciled(m, config)]
          /\ fresh' = {m \in DOMAIN config.pais : proc[m] = {} /\ config.pais[m].active}
      BY <1>6, <2>3 DEF Applies, MirrorInv
    <3> QED
      BY <2>1, <3>1, ReconciledMirrors
  <2> QED
    BY <2>1, <2>2, <2>3 DEF MirrorInv
<1>7. CASE Projects
  <2>1. Unheard' = Unheard /\ \A n \in Pais : Mirrors(n)' = Mirrors(n)
    BY <1>7 DEF Projects, Unheard, Mirrors, Wired, Declared, RunsIn, Files
  <2> QED
    BY <1>7, <2>1 DEF Projects, MirrorInv, Files
<1> QED
  BY <1>1, <1>2, <1>3, <1>4, <1>5, <1>6, <1>7

LEMMA FleetInvInit == FleetInit => FleetInv
<1> SUFFICES ASSUME FleetInit PROVE FleetInv
  OBVIOUS
<1>1. config \in Docs
  <2>1. \A n : [NewPai EXCEPT !.parent = (n \in Nested)] \in Entries
    <3>1. NewPai \in Entries
      BY DEF NewPai, Entries, Dials
    <3>2. \A n : (n \in Nested) \in BOOLEAN
      OBVIOUS
    <3>3. \A b \in BOOLEAN : [NewPai EXCEPT !.parent = b] \in Entries
      BY <3>1 DEF Entries
    <3> QED
      BY <3>2, <3>3, Zenon
  <2>2. /\ config = [pais |-> config.pais, grant |-> config.grant]
        /\ DOMAIN config.pais \subseteq Pais /\ config.grant \in Modes
        /\ config.pais \in [DOMAIN config.pais -> Entries]
    BY <2>1, FleetAssumption DEF FleetInit, Modes
  <2> QED
    BY <2>2, DocType
<1>2. proc \in [Pais -> SUBSET Procs]
  BY DEF FleetInit, Procs, Dials
<1>3. begun \in 0..Edits /\ fleetLives \in 1..FleetBoots
  BY FleetAssumption DEF FleetInit
<1>4. FleetTypeOK
  BY <1>1, <1>2, <1>3, FleetAssumption DEF FleetInit, FleetTypeOK
<1>5. EditInv
  BY DEF FleetInit, EditInv
<1>6. MirrorInv
  <2>1. ASSUME NEW n \in Pais PROVE Mirrors(n)
    <3>1. CASE n \in Original
      <4>1. n \in Declared /\ config.pais[n] = [NewPai EXCEPT !.parent = (n \in Nested)]
        BY <3>1 DEF FleetInit, Declared
      <4>2. proc[n] = {[status |-> "running", dial |-> {}, parent |-> n \in Nested]}
        BY <3>1 DEF FleetInit
      <4>3. config.pais[n].active /\ config.pais[n].dial = {}
            /\ config.pais[n].parent = (n \in Nested)
        BY <4>1 DEF NewPai
      <4>4. PICK p : p = [status |-> "running", dial |-> {}, parent |-> n \in Nested]
        OBVIOUS
      <4>5. p.status = "running" /\ p.dial = {} /\ p.parent = (n \in Nested)
        BY <4>4
      <4>6. proc[n] = {p} /\ RunsIn(n) /\ Wired(n) = {}
        BY <4>2, <4>3, <4>4, <4>5 DEF FleetInit, RunsIn, Wired
      <4> QED
        BY <4>1, <4>3, <4>5, <4>6 DEF Mirrors
    <3>2. CASE n \notin Original
      BY <3>2 DEF FleetInit, Mirrors, Declared, RunsIn
    <3> QED
      BY <3>1, <3>2
  <2> QED
    BY <2>1 DEF FleetInit, MirrorInv
<1> QED
  BY <1>4, <1>5, <1>6 DEF FleetInv

LEMMA FleetInvNext == FleetInv /\ [FleetNext]_fleetVars => FleetInv'
<1>1. ASSUME FleetInv, EditorsAct PROVE FleetInv'
  <2>1. FleetTypeOK'
    BY <1>1, BeginsTypes, EditTypes DEF FleetInv, EditorsAct
  <2> QED
    BY <1>1, <2>1, EditInvNext, EditorsMirror DEF FleetInv
<1>2. ASSUME FleetInv,
             \/ ReloadTaken \/ FleetStarts \/ BootReconciles \/ FleetStops \/ FleetCrashes
             \/ Applies \/ Projects
      PROVE  FleetInv'
  <2>1. edits' = edits
    BY <1>2 DEF ReloadTaken, FleetStarts, BootReconciles, FleetStops, FleetCrashes, Applies,
                Projects, Files
  <2> QED
    BY <1>2, <2>1, KernelTypes, KernelMirror DEF FleetInv, EditInv
<1>3. ASSUME FleetInv, UNCHANGED fleetVars PROVE FleetInv'
  BY <1>3 DEF FleetInv, FleetTypeOK, EditInv, MirrorInv, Unheard, Mirrors, Wired, Declared, RunsIn,
              Valid, fleetVars
<1> QED
  BY <1>1, <1>2, <1>3 DEF FleetNext

\* The invariant of the fleet: of the editors of config.yaml and of the
\* kernel's reconciliations with it.
THEOREM FleetInvCorrect == FleetSpec => []FleetInv
  BY FleetInvInit, FleetInvNext, PTL DEF FleetSpec

\* The document, its edits, the instances and the processes keep their types.
THEOREM FleetTypeCorrect == FleetSpec => []FleetTypeOK
<1>1. FleetInv => FleetTypeOK
  BY DEF FleetInv
<1> QED
  BY <1>1, FleetInvCorrect, PTL

\* Once every edit is over and the kernel has nothing left to do, /proc and the
\* freeze files say what a document that loads says, unless an editor died
\* before its event, but for the keys of a member just spawned that spawn_pai
\* does not write and for members with a parent that are declared no more:
\* Added, Removed, Changed and project_capabilities.
THEOREM QuietMirrorsCorrect == FleetSpec => []QuietMirrors
<1>1. FleetInv => QuietMirrors
  BY DEF FleetInv, MirrorInv, Unheard, QuietMirrors
<1> QED
  BY <1>1, FleetInvCorrect, PTL

-----------------------------------------------------------------------------
(* The hub. *)

News == [topic : Topics, value : Values] \cup [line : Nat \ {0}]

HubTypes ==
    /\ disk \in [Topics -> Values] /\ got \in [Topics -> Values] /\ kept \in [Topics -> Values]
    /\ worker \in [Topics -> {"wait", "read", "kept"}]
    /\ client \in [Clients -> {"off", "added", "live"}]
    /\ queue \in [Clients -> Seq(News)] /\ \A s \in Clients : Len(queue[s]) <= HubQueue
    /\ view \in [Clients -> [Topics -> Values]] /\ lossy \subseteq Clients
    /\ hubUsed \in 0..HubChanges /\ lines \in 0..hubUsed /\ offset \in 0..lines
    /\ shown \in [Clients -> SUBSET (1..lines)]

\* What a worker has read is what the files say unless it will read again, and
\* the hub keeps it unless it is about to.
ReadInv ==
    \A t \in Topics :
        /\ t \notin poked \cup missed => got[t] = disk[t]
        /\ worker[t] # "read" => kept[t] = got[t]

\* The queue of a stream that is not there is empty.
OffInv == \A s \in Clients : client[s] = "off" => queue[s] = << >> /\ s \notin lossy

IsTopic(m, t) == "topic" \in DOMAIN m /\ m.topic = t
IsLine(m, n) == "line" \in DOMAIN m /\ m.line = n

\* The last that a queue says of a topic.
LastOf(q, i, t) ==
    IsTopic(q[i], t) /\ \A j \in DOMAIN q : j > i => ~IsTopic(q[j], t)

\* A stream that lost nothing will end with what the hub keeps: it is the last
\* that its queue says of the topic, or what the client shows already.
StreamInv ==
    \A s \in Clients \ lossy, t \in Topics \ Gated : client[s] # "off" /\ worker[t] # "kept" =>
        /\ \A i \in DOMAIN queue[s] : LastOf(queue[s], i, t) => queue[s][i].value = kept[t]
        /\ client[s] = "live" /\ (\A i \in DOMAIN queue[s] : ~IsTopic(queue[s][i], t)) =>
               view[s][t] = kept[t]

\* A client has, or is about to have, each line that the tail has read.
LogInv ==
    \A s \in Clients :
        /\ \A i \in DOMAIN queue[s], n \in Nat : IsLine(queue[s][i], n) => n <= offset
        /\ client[s] = "live" /\ s \notin lossy =>
              \A n \in 1..offset : n \in shown[s] \/ \E i \in DOMAIN queue[s] : IsLine(queue[s][i], n)

HubInv == HubTypes /\ ReadInv /\ OffInv /\ StreamInv /\ LogInv

\* A message is of a topic or a line of the log.
LEMMA NewsFacts ==
    ASSUME NEW m \in News
    PROVE  \/ /\ m \in [topic : Topics, value : Values] /\ "topic" \in DOMAIN m
              /\ m.topic \in Topics /\ m.value \in Values /\ \A n : ~IsLine(m, n)
           \/ /\ m \in [line : Nat \ {0}] /\ "topic" \notin DOMAIN m
              /\ IsLine(m, m.line) /\ m.line \in Nat \ {0} /\ \A t : ~IsTopic(m, t)
  BY DEF News, IsTopic, IsLine

LEMMA MessageFacts ==
    /\ \A t \in Topics, v \in Values :
          LET m == [topic |-> t, value |-> v]
          IN  m \in News /\ m.value = v /\ (\A n : ~IsLine(m, n)) /\ \A u : IsTopic(m, u) <=> u = t
    /\ \A n \in Nat \ {0} :
          LET m == [line |-> n]
          IN  m \in News /\ (\A u : ~IsTopic(m, u)) /\ \A k : IsLine(m, k) <=> k = n
  BY DEF News, IsTopic, IsLine

\* What a message does to the streams: one that has lost nothing has it last.
LEMMA SentFacts ==
    ASSUME HubTypes, NEW m \in News, Sent(m)
    PROVE  /\ queue' \in [Clients -> Seq(News)] /\ \A s \in Clients : Len(queue'[s]) <= HubQueue
           /\ lossy' \subseteq Clients /\ lossy \subseteq lossy'
           /\ \A s \in Clients : client[s] = "off" => queue'[s] = queue[s] /\ (s \in lossy' => s \in lossy)
           /\ \A s \in Clients : queue'[s] = queue[s] \/ queue'[s] = Append(queue[s], m)
           /\ \A s \in Clients \ lossy' : client[s] # "off" => queue'[s] = Append(queue[s], m)
           /\ UNCHANGED <<client, view, shown>>
<1>1. \A s \in Clients : queue[s] \in Seq(News) /\ Len(queue[s]) \in Nat /\ Len(queue[s]) <= HubQueue
  BY DEF HubTypes
<1>2. HubQueue \in Nat
  BY HubAssumption
<1>3. \A s \in Clients : /\ Append(queue[s], m) \in Seq(News)
                         /\ Len(Append(queue[s], m)) = Len(queue[s]) + 1
  BY <1>1
<1>4. \A s \in Clients : queue'[s] = IF client[s] # "off" /\ Len(queue[s]) < HubQueue
                                     THEN Append(queue[s], m) ELSE queue[s]
  BY DEF Sent
<1>5. queue' \in [Clients -> Seq(News)]
  <2>1. queue' = [s \in Clients |-> queue'[s]]
    BY DEF Sent
  <2>2. \A s \in Clients : queue'[s] \in Seq(News)
    BY <1>1, <1>3, <1>4
  <2> QED
    BY <2>1, <2>2
<1>6. ASSUME NEW s \in Clients PROVE Len(queue'[s]) <= HubQueue
  <2>1. PICK n \in Nat : n = Len(queue[s]) /\ n <= HubQueue /\ Len(Append(queue[s], m)) = n + 1
    BY <1>1, <1>3
  <2>2. Len(queue'[s]) = n \/ (n < HubQueue /\ Len(queue'[s]) = n + 1)
    BY <1>4, <2>1
  <2> QED
    BY <1>2, <2>1, <2>2
<1>7. \A s \in Clients : s \in lossy' <=> s \in lossy \/ (client[s] # "off" /\ Len(queue[s]) = HubQueue)
  BY DEF Sent, HubTypes
<1>8. lossy' \subseteq Clients /\ lossy \subseteq lossy' /\ UNCHANGED <<client, view, shown>>
  BY DEF Sent, HubTypes
<1>9. \A s \in Clients \ lossy' : client[s] # "off" => Len(queue[s]) < HubQueue
  BY <1>1, <1>2, <1>7
<1> QED
  BY <1>4, <1>5, <1>6, <1>7, <1>8, <1>9

\* The steps that leave the streams alone.
LEMMA FilesStep ==
    ASSUME HubInv, NEW t \in Topics,
           \/ \E value \in Values, delivered \in BOOLEAN : DiskChanges(t, value, delivered)
           \/ SafetyTick
    PROVE  HubInv'
<1>1. UNCHANGED <<worker, got, kept, client, queue, view, lossy, shown, lines, offset>>
  BY DEF DiskChanges, SafetyTick, Streams, Log
<1>2. hubUsed' \in 0..HubChanges /\ lines \in 0..hubUsed' /\ disk' \in [Topics -> Values]
  <2>1. hubUsed' \in 0..HubChanges /\ hubUsed' >= hubUsed
    BY HubAssumption DEF DiskChanges, SafetyTick, Spend, HubInv, HubTypes
  <2>2. disk' \in [Topics -> Values]
    BY DEF DiskChanges, SafetyTick, HubInv, HubTypes
  <2> QED
    BY <2>1, <2>2 DEF HubInv, HubTypes
<1>3. HubTypes'
  BY <1>1, <1>2 DEF HubInv, HubTypes
<1>4. ReadInv'
  <2>1. \A u \in Topics : u \notin poked' \cup missed' => u \notin poked \cup missed /\ disk'[u] = disk[u]
    BY DEF DiskChanges, SafetyTick, HubInv, HubTypes
  <2> QED
    BY <1>1, <2>1 DEF HubInv, ReadInv
<1> QED
  BY <1>1, <1>3, <1>4 DEF HubInv, OffInv, StreamInv, LogInv

LEMMA RecomputesStep ==
    ASSUME HubInv, NEW t \in Topics, Recomputes(t)
    PROVE  HubInv'
<1>1. /\ UNCHANGED <<disk, missed, kept, client, queue, view, lossy, shown, lines, offset, hubUsed>>
      /\ worker' = [worker EXCEPT ![t] = "read"] /\ got' = [got EXCEPT ![t] = disk[t]]
      /\ poked' = poked \ {t} /\ worker[t] = "wait"
  BY DEF Recomputes, Streams, Log
<1>2. HubTypes'
  BY <1>1 DEF HubInv, HubTypes
<1>3. ReadInv'
  BY <1>1 DEF HubInv, HubTypes, ReadInv
<1>4. StreamInv'
  <2>1. \A u \in Topics : worker'[u] # "kept" => worker[u] # "kept"
    BY <1>1 DEF HubInv, HubTypes
  <2> QED
    BY <1>1, <2>1 DEF HubInv, StreamInv
<1> QED
  BY <1>1, <1>2, <1>3, <1>4 DEF HubInv, OffInv, LogInv

LEMMA KeepsStep ==
    ASSUME HubInv, NEW t \in Topics, Keeps(t)
    PROVE  HubInv'
<1>1. /\ UNCHANGED <<disk, poked, missed, got, client, queue, view, lossy, shown, lines, offset, hubUsed>>
      /\ worker[t] = "read" /\ kept' = [kept EXCEPT ![t] = got[t]]
      /\ worker' = [worker EXCEPT ![t] = IF Differs(t, kept[t], got[t]) THEN "kept" ELSE "wait"]
  BY DEF Keeps, Streams, Log
<1>2. HubTypes'
  BY <1>1 DEF HubInv, HubTypes
<1>3. ReadInv'
  BY <1>1 DEF HubInv, HubTypes, ReadInv
<1>4. StreamInv'
  <2>1. \A u \in Topics \ Gated : worker'[u] # "kept" => worker[u] # "kept" /\ kept'[u] = kept[u]
    <3>1. \A u \in Topics \ {t} : worker'[u] = worker[u] /\ kept'[u] = kept[u]
      BY <1>1 DEF HubInv, HubTypes
    <3>2. t \notin Gated /\ worker'[t] # "kept" => kept'[t] = kept[t]
      BY <1>1 DEF HubInv, HubTypes, Differs
    <3> QED
      BY <1>1, <3>1, <3>2
  <2> QED
    BY <1>1, <2>1 DEF HubInv, StreamInv
<1> QED
  BY <1>1, <1>2, <1>3, <1>4 DEF HubInv, OffInv, LogInv

LEMMA LogGrowsStep ==
    ASSUME HubInv, LogGrows
    PROVE  HubInv'
<1>1. /\ UNCHANGED <<disk, poked, missed, worker, got, kept, client, queue, view, lossy, shown, offset>>
      /\ lines' = lines + 1 /\ hubUsed < HubChanges /\ hubUsed' = hubUsed + 1
  BY DEF LogGrows, Spend, Streams
<1>2. hubUsed' \in 0..HubChanges /\ lines' \in 0..hubUsed' /\ offset \in 0..lines'
  BY <1>1, HubAssumption DEF HubInv, HubTypes
<1>3. shown \in [Clients -> SUBSET (1..lines')]
  <2>1. 1..lines \subseteq 1..lines'
    BY <1>1 DEF HubInv, HubTypes
  <2> QED
    BY <2>1 DEF HubInv, HubTypes
<1>4. HubTypes'
  BY <1>1, <1>2, <1>3 DEF HubInv, HubTypes
<1> QED
  BY <1>1, <1>4 DEF HubInv, ReadInv, OffInv, StreamInv, LogInv

\* A message at the end of a queue hides nothing that the queue has.
LEMMA AppendFacts ==
    ASSUME NEW q \in Seq(News), NEW m \in News
    PROVE  /\ DOMAIN Append(q, m) = 1..(Len(q) + 1) /\ Append(q, m)[Len(q) + 1] = m
           /\ DOMAIN q = 1..Len(q) /\ Len(q) \in Nat
           /\ \A i \in 1..Len(q) : Append(q, m)[i] = q[i]
  OBVIOUS

\* A message that says of its topic what the hub keeps, and comes whenever the
\* hub keeps something else than it has sent, keeps the streams in line.
LEMMA SentStream ==
    ASSUME HubTypes, StreamInv, NEW m \in News, Sent(m), UNCHANGED kept,
           \A u \in Topics \ Gated : worker'[u] # "kept" =>
               IF IsTopic(m, u) THEN m.value = kept[u] ELSE worker[u] # "kept"
    PROVE  StreamInv'
<1> SUFFICES ASSUME NEW s \in Clients \ lossy', NEW u \in Topics \ Gated,
                    client[s] # "off", worker'[u] # "kept"
             PROVE  /\ \A i \in DOMAIN queue'[s] :
                          LastOf(queue'[s], i, u) => queue'[s][i].value = kept[u]
                    /\ client[s] = "live" /\ (\A i \in DOMAIN queue'[s] : ~IsTopic(queue'[s][i], u))
                          => view[s][u] = kept[u]
  BY SentFacts DEF StreamInv
<1>1. PICK q \in Seq(News) : q = queue[s]
  BY DEF HubTypes
<1>2. queue'[s] = Append(q, m) /\ s \in Clients \ lossy
  BY <1>1, SentFacts
<1>3. /\ DOMAIN Append(q, m) = 1..(Len(q) + 1) /\ Append(q, m)[Len(q) + 1] = m
      /\ DOMAIN q = 1..Len(q) /\ Len(q) \in Nat
      /\ \A i \in 1..Len(q) : Append(q, m)[i] = q[i]
  BY AppendFacts
<1>4. CASE IsTopic(m, u)
  <2>1. ASSUME NEW i \in DOMAIN Append(q, m), LastOf(Append(q, m), i, u)
        PROVE  i = Len(q) + 1
    BY <1>3, <1>4, <2>1 DEF LastOf
  <2>2. m.value = kept[u]
    BY <1>4
  <2> QED
    BY <1>2, <1>3, <1>4, <2>1, <2>2
<1>5. CASE ~IsTopic(m, u)
  <2>1. /\ \A i \in DOMAIN q : LastOf(q, i, u) => q[i].value = kept[u]
        /\ client[s] = "live" /\ (\A i \in DOMAIN q : ~IsTopic(q[i], u)) => view[s][u] = kept[u]
    BY <1>1, <1>2, <1>5 DEF StreamInv
  <2>2. ASSUME NEW i \in DOMAIN Append(q, m), LastOf(Append(q, m), i, u)
        PROVE  i \in DOMAIN q /\ LastOf(q, i, u) /\ Append(q, m)[i] = q[i]
    <3>1. i \in DOMAIN q
      BY <1>3, <1>5, <2>2 DEF LastOf
    <3> QED
      BY <1>3, <2>2, <3>1 DEF LastOf
  <2>3. (\A i \in DOMAIN Append(q, m) : ~IsTopic(Append(q, m)[i], u)) =>
            \A i \in DOMAIN q : ~IsTopic(q[i], u)
    BY <1>3
  <2> QED
    BY <1>2, <2>1, <2>2, <2>3
<1> QED
  BY <1>4, <1>5

\* A message that is no line, or the line that the tail has read.
LEMMA SentLog ==
    ASSUME HubTypes, LogInv, NEW m \in News, Sent(m), offset' \in Nat, offset <= offset',
           \A n \in Nat : IsLine(m, n) => n <= offset',
           \A n \in 1..offset' : n \in 1..offset \/ IsLine(m, n)
    PROVE  LogInv'
<1> SUFFICES ASSUME NEW s \in Clients
             PROVE  /\ \A i \in DOMAIN queue'[s], n \in Nat : IsLine(queue'[s][i], n) => n <= offset'
                    /\ client[s] = "live" /\ s \notin lossy' =>
                          \A n \in 1..offset' : \/ n \in shown[s]
                                                \/ \E i \in DOMAIN queue'[s] : IsLine(queue'[s][i], n)
  BY SentFacts DEF LogInv
<1>1. PICK q \in Seq(News) : q = queue[s]
  BY DEF HubTypes
<1>2. /\ DOMAIN Append(q, m) = 1..(Len(q) + 1) /\ Append(q, m)[Len(q) + 1] = m
      /\ DOMAIN q = 1..Len(q) /\ Len(q) \in Nat
      /\ \A i \in 1..Len(q) : Append(q, m)[i] = q[i]
  BY AppendFacts
<1>3. \A i \in DOMAIN q, n \in Nat : IsLine(q[i], n) => n <= offset'
  BY <1>1 DEF LogInv, HubTypes
<1>4. \A i \in DOMAIN queue'[s], n \in Nat : IsLine(queue'[s][i], n) => n <= offset'
  <2>1. CASE queue'[s] = q
    BY <1>3, <2>1
  <2>2. CASE queue'[s] = Append(q, m)
    BY <1>2, <1>3, <2>2
  <2> QED
    BY <1>1, <2>1, <2>2, SentFacts
<1>5. ASSUME client[s] = "live", s \notin lossy', NEW n \in 1..offset'
      PROVE  n \in shown[s] \/ \E i \in DOMAIN queue'[s] : IsLine(queue'[s][i], n)
  <2>1. queue'[s] = Append(q, m) /\ s \notin lossy
    BY <1>1, <1>5, SentFacts
  <2>2. CASE n \in 1..offset
    <3>1. n \in shown[s] \/ \E i \in DOMAIN q : IsLine(q[i], n)
      BY <1>1, <1>5, <2>1, <2>2 DEF LogInv
    <3> QED
      BY <1>2, <2>1, <3>1
  <2>3. CASE IsLine(m, n)
    BY <1>2, <2>1, <2>3
  <2> QED
    BY <2>2, <2>3
<1> QED
  BY <1>4, <1>5

LEMMA BroadcastsStep ==
    ASSUME HubInv, NEW t \in Topics, Broadcasts(t)
    PROVE  HubInv'
<1>1. PICK m : m = [topic |-> t, value |-> got[t]]
  OBVIOUS
<1>2. /\ Sent(m) /\ worker[t] = "kept" /\ worker' = [worker EXCEPT ![t] = "wait"]
      /\ UNCHANGED <<disk, poked, missed, got, kept, lines, offset, hubUsed>>
  BY <1>1 DEF Broadcasts, Log
<1>3. /\ m \in News /\ m.value = kept[t] /\ (\A n : ~IsLine(m, n)) /\ \A u : IsTopic(m, u) <=> u = t
  <2>1. got[t] \in Values /\ got[t] = kept[t]
    BY <1>2 DEF HubInv, HubTypes, ReadInv
  <2> QED
    BY <1>1, <2>1, MessageFacts
<1>4. HubTypes'
  BY <1>2, <1>3, SentFacts DEF HubInv, HubTypes
<1>5. ReadInv'
  BY <1>2 DEF HubInv, HubTypes, ReadInv
<1>6. OffInv'
  BY <1>2, <1>3, SentFacts DEF HubInv, OffInv
<1>7. StreamInv'
  BY <1>2, <1>3, SentStream DEF HubInv, HubTypes
<1>8. LogInv'
  BY <1>2, <1>3, SentLog DEF HubInv, HubTypes
<1> QED
  BY <1>4, <1>5, <1>6, <1>7, <1>8 DEF HubInv

LEMMA LogReadStep ==
    ASSUME HubInv, LogRead
    PROVE  HubInv'
<1>1. PICK m : m = [line |-> offset + 1]
  OBVIOUS
<1>2. /\ Sent(m) /\ offset < lines /\ offset' = offset + 1
      /\ UNCHANGED <<disk, poked, missed, worker, got, kept, lines, hubUsed>>
  BY <1>1 DEF LogRead
<1>3. offset \in Nat /\ offset' \in 0..lines
  BY <1>2 DEF HubInv, HubTypes
<1>4. m \in News /\ (\A u : ~IsTopic(m, u)) /\ \A n : IsLine(m, n) <=> n = offset + 1
  BY <1>1, <1>3, MessageFacts
<1>5. HubTypes'
  BY <1>2, <1>3, <1>4, SentFacts DEF HubInv, HubTypes
<1>6. ReadInv'
  BY <1>2 DEF HubInv, ReadInv
<1>7. OffInv'
  BY <1>2, <1>4, SentFacts DEF HubInv, OffInv
<1>8. StreamInv'
  BY <1>2, <1>4, SentStream DEF HubInv
<1>9. LogInv'
  BY <1>2, <1>3, <1>4, SentLog DEF HubInv
<1> QED
  BY <1>5, <1>6, <1>7, <1>8, <1>9 DEF HubInv

\* The steps of a stream.
LEMMA ConnectsStep ==
    ASSUME HubInv, NEW s \in Clients, Connects(s) \/ ClientLeaves(s)
    PROVE  HubInv'
<1>1. /\ UNCHANGED <<disk, poked, missed, worker, got, kept, view, shown, lines, offset>>
      /\ \A r \in Clients \ {s} : /\ client'[r] = client[r] /\ queue'[r] = queue[r]
                                  /\ (r \in lossy' <=> r \in lossy)
  BY DEF Connects, ClientLeaves, Others, Log, HubInv, HubTypes
<1>2. client'[s] # "live" /\ queue'[s] = << >> /\ s \notin lossy'
  BY DEF Connects, ClientLeaves, HubInv, HubTypes, OffInv
<1>3. /\ client' \in [Clients -> {"off", "added", "live"}] /\ lossy' \subseteq Clients
      /\ queue' \in [Clients -> Seq(News)]
  <2>1. << >> \in Seq(News)
    OBVIOUS
  <2>2. CASE Connects(s)
    BY <2>2 DEF Connects, HubInv, HubTypes
  <2>3. CASE ClientLeaves(s)
    BY <2>1, <2>3 DEF ClientLeaves, HubInv, HubTypes
  <2> QED
    BY <2>2, <2>3
<1>4. hubUsed' \in 0..HubChanges /\ lines \in 0..hubUsed'
  BY HubAssumption DEF Connects, ClientLeaves, Spend, HubInv, HubTypes
<1>5. \A r \in Clients : Len(queue'[r]) <= HubQueue
  BY <1>1, <1>2, HubAssumption DEF HubInv, HubTypes
<1>6. HubTypes'
  BY <1>1, <1>3, <1>4, <1>5 DEF HubInv, HubTypes
<1>7. DOMAIN queue'[s] = {}
  BY <1>2
<1>8. OffInv' /\ StreamInv' /\ LogInv'
  BY <1>1, <1>2, <1>7 DEF HubInv, OffInv, StreamInv, LogInv
<1> QED
  BY <1>1, <1>6, <1>8 DEF HubInv, ReadInv

LEMMA HelloStep ==
    ASSUME HubInv, NEW s \in Clients, Hello(s)
    PROVE  HubInv'
<1>1. /\ UNCHANGED <<disk, poked, missed, worker, got, kept, queue, lossy, lines, offset, hubUsed>>
      /\ client[s] = "added" /\ client' = [client EXCEPT ![s] = "live"]
      /\ view' = [view EXCEPT ![s] = kept] /\ shown' = [shown EXCEPT ![s] = 1..lines]
  BY DEF Hello, Others, Log
<1>2. HubTypes'
  BY <1>1 DEF HubInv, HubTypes
<1>3. /\ \A r \in Clients \ {s} : /\ client'[r] = client[r] /\ view'[r] = view[r]
                                  /\ shown'[r] = shown[r]
      /\ client'[s] = "live" /\ view'[s] = kept /\ shown'[s] = 1..lines
  BY <1>1 DEF HubInv, HubTypes
<1>4. OffInv' /\ StreamInv'
  BY <1>1, <1>3 DEF HubInv, OffInv, StreamInv
<1>5. LogInv'
  <2>1. 1..offset \subseteq 1..lines
    BY DEF HubInv, HubTypes
  <2> QED
    BY <1>1, <1>3, <2>1 DEF HubInv, LogInv
<1> QED
  BY <1>1, <1>2, <1>4, <1>5 DEF HubInv, ReadInv

LEMMA TakesStep ==
    ASSUME HubInv, NEW s \in Clients, Takes(s)
    PROVE  HubInv'
<1>1. PICK q \in Seq(News) : q = queue[s] /\ q # << >> /\ Len(q) <= HubQueue
  BY DEF Takes, HubInv, HubTypes
<1>2. /\ Tail(q) \in Seq(News) /\ Len(Tail(q)) <= HubQueue /\ Head(q) \in News /\ q[1] = Head(q)
      /\ Len(q) \in Nat \ {0} /\ DOMAIN q = 1..Len(q) /\ DOMAIN Tail(q) = 1..(Len(q) - 1)
      /\ \A i \in 1..(Len(q) - 1) : Tail(q)[i] = q[i + 1]
  BY <1>1, HubAssumption
<1>3. PICK m \in News : m = Head(q)
  BY <1>2
<1>4. /\ UNCHANGED <<disk, poked, missed, worker, got, kept, client, lossy, lines, offset, hubUsed>>
      /\ queue' = [queue EXCEPT ![s] = Tail(q)] /\ client[s] = "live"
      /\ IF "topic" \in DOMAIN m
         THEN view' = [view EXCEPT ![s][m.topic] = m.value] /\ UNCHANGED shown
         ELSE shown' = [shown EXCEPT ![s] = @ \cup {m.line}] /\ UNCHANGED view
  BY <1>1, <1>3 DEF Takes, Others, Log, HubInv, HubTypes
<1>5. /\ queue' \in [Clients -> Seq(News)] /\ queue'[s] = Tail(q)
      /\ \A r \in Clients \ {s} : /\ queue'[r] = queue[r] /\ view'[r] = view[r]
                                  /\ shown'[r] = shown[r]
      /\ \A r \in Clients : Len(queue'[r]) <= HubQueue
  BY <1>2, <1>4 DEF HubInv, HubTypes
<1>6. ASSUME NEW u \in Topics
      PROVE  view'[s][u] = IF IsTopic(m, u) THEN m.value ELSE view[s][u]
  BY <1>3, <1>4, NewsFacts DEF HubInv, HubTypes, IsTopic
<1>7. ASSUME NEW n \in Nat
      PROVE  n \in shown'[s] <=> n \in shown[s] \/ IsLine(m, n)
  BY <1>3, <1>4, NewsFacts DEF HubInv, HubTypes, IsLine
<1>8. HubTypes'
  <2>1. view' \in [Clients -> [Topics -> Values]]
    <3>1. CASE "topic" \in DOMAIN m
      <4>1. m.topic \in Topics /\ m.value \in Values
        BY <3>1, NewsFacts
      <4>2. view' = [view EXCEPT ![s] = [view[s] EXCEPT ![m.topic] = m.value]]
        BY <1>4, <3>1
      <4>3. [view[s] EXCEPT ![m.topic] = m.value] \in [Topics -> Values]
        BY <4>1 DEF HubInv, HubTypes
      <4> QED
        BY <4>2, <4>3 DEF HubInv, HubTypes
    <3>2. CASE "topic" \notin DOMAIN m
      BY <1>4, <3>2 DEF HubInv, HubTypes
    <3> QED
      BY <3>1, <3>2
  <2>2. shown' \in [Clients -> SUBSET (1..lines)]
    <3>1. "topic" \notin DOMAIN m => m.line \in 1..lines
      <4>1. \A n \in Nat : IsLine(m, n) => n <= offset
        <5>1. 1 \in DOMAIN queue[s] /\ queue[s][1] = m
          BY <1>1, <1>2, <1>3
        <5> QED
          BY <5>1 DEF HubInv, LogInv
      <4>2. offset \in Nat /\ lines \in Nat /\ offset <= lines
        BY DEF HubInv, HubTypes
      <4>3. "topic" \notin DOMAIN m => IsLine(m, m.line) /\ m.line \in Nat \ {0}
        BY NewsFacts
      <4> QED
        BY <4>1, <4>2, <4>3
    <3>2. CASE "topic" \in DOMAIN m
      BY <1>4, <3>2 DEF HubInv, HubTypes
    <3>3. CASE "topic" \notin DOMAIN m
      <4>1. shown' = [shown EXCEPT ![s] = shown[s] \cup {m.line}]
        BY <1>4, <3>3
      <4>2. shown[s] \cup {m.line} \in SUBSET (1..lines)
        BY <3>1, <3>3 DEF HubInv, HubTypes
      <4> QED
        BY <4>1, <4>2 DEF HubInv, HubTypes
    <3> QED
      BY <3>2, <3>3
  <2> QED
    BY <1>4, <1>5, <2>1, <2>2 DEF HubInv, HubTypes
<1>9. OffInv'
  BY <1>4, <1>5 DEF HubInv, OffInv
<1>10. StreamInv'
  <2>1. ASSUME NEW u \in Topics \ Gated, s \notin lossy, worker[u] # "kept"
        PROVE  /\ \A i \in DOMAIN Tail(q) : LastOf(Tail(q), i, u) => Tail(q)[i].value = kept[u]
               /\ (\A i \in DOMAIN Tail(q) : ~IsTopic(Tail(q)[i], u)) => view'[s][u] = kept[u]
    <3>1. /\ \A i \in DOMAIN q : LastOf(q, i, u) => q[i].value = kept[u]
          /\ (\A i \in DOMAIN q : ~IsTopic(q[i], u)) => view[s][u] = kept[u]
      BY <1>1, <1>4, <2>1 DEF HubInv, StreamInv
    <3>2. ASSUME NEW i \in DOMAIN Tail(q), LastOf(Tail(q), i, u)
          PROVE  Tail(q)[i].value = kept[u]
      <4>1. i + 1 \in DOMAIN q /\ Tail(q)[i] = q[i + 1]
        BY <1>2
      <4>2. ASSUME NEW j \in DOMAIN q, j > i + 1 PROVE ~IsTopic(q[j], u)
        <5>1. j - 1 \in DOMAIN Tail(q) /\ j - 1 > i /\ Tail(q)[j - 1] = q[j]
          BY <1>2, <4>2
        <5> QED
          BY <3>2, <5>1 DEF LastOf
      <4>3. LastOf(q, i + 1, u)
        BY <3>2, <4>1, <4>2 DEF LastOf
      <4> QED
        BY <3>1, <4>1, <4>3
    <3>3. ASSUME \A i \in DOMAIN Tail(q) : ~IsTopic(Tail(q)[i], u)
          PROVE  view'[s][u] = kept[u]
      <4>1. ASSUME NEW j \in DOMAIN q, j > 1 PROVE ~IsTopic(q[j], u)
        <5>1. j - 1 \in DOMAIN Tail(q) /\ Tail(q)[j - 1] = q[j]
          BY <1>2, <4>1
        <5> QED
          BY <3>3, <5>1
      <4>2. CASE IsTopic(m, u)
        <5>1. LastOf(q, 1, u) /\ 1 \in DOMAIN q
          BY <1>2, <1>3, <4>1, <4>2 DEF LastOf
        <5> QED
          BY <1>2, <1>3, <1>6, <3>1, <4>2, <5>1
      <4>3. CASE ~IsTopic(m, u)
        <5>1. \A j \in DOMAIN q : ~IsTopic(q[j], u)
          BY <1>2, <1>3, <4>1, <4>3
        <5> QED
          BY <1>6, <3>1, <4>3, <5>1
      <4> QED
        BY <4>2, <4>3
    <3> QED
      BY <3>2, <3>3
  <2> QED
    BY <1>4, <1>5, <2>1 DEF HubInv, StreamInv
<1>11. LogInv'
  <2>1. /\ \A i \in DOMAIN q, n \in Nat : IsLine(q[i], n) => n <= offset
        /\ s \notin lossy => \A n \in 1..offset : n \in shown[s] \/ \E i \in DOMAIN q : IsLine(q[i], n)
    BY <1>1, <1>4 DEF HubInv, LogInv
  <2>2. \A i \in DOMAIN Tail(q), n \in Nat : IsLine(Tail(q)[i], n) => n <= offset
    BY <1>2, <2>1
  <2>3. ASSUME s \notin lossy, NEW n \in 1..offset
        PROVE  n \in shown'[s] \/ \E i \in DOMAIN Tail(q) : IsLine(Tail(q)[i], n)
    <3>1. CASE \E i \in DOMAIN q : i > 1 /\ IsLine(q[i], n)
      <4>1. PICK i \in DOMAIN q : i > 1 /\ IsLine(q[i], n)
        BY <3>1
      <4>2. i - 1 \in DOMAIN Tail(q) /\ Tail(q)[i - 1] = q[i]
        BY <1>2, <4>1
      <4> QED
        BY <4>1, <4>2
    <3>2. CASE n \in shown[s] \/ IsLine(q[1], n)
      BY <1>2, <1>3, <1>7, <3>2 DEF HubInv, HubTypes
    <3> QED
      BY <1>2, <2>1, <2>3, <3>1, <3>2
  <2> QED
    BY <1>4, <1>5, <2>2, <2>3 DEF HubInv, LogInv
<1> QED
  BY <1>4, <1>8, <1>9, <1>10, <1>11 DEF HubInv, ReadInv

LEMMA HubInvInit == HubInit => HubInv
<1> SUFFICES ASSUME HubInit PROVE HubInv
  OBVIOUS
<1>1. First \in Values /\ << >> \in Seq(News) /\ Len(<< >>) = 0 /\ DOMAIN << >> = {}
  BY DEF First, Values
<1>2. HubTypes
  BY <1>1, HubAssumption DEF HubInit, HubTypes
<1>3. ReadInv /\ OffInv
  BY DEF HubInit, ReadInv, OffInv
<1>4. StreamInv /\ LogInv
  <2>1. \A s \in Clients : client[s] = "off" /\ queue[s] = << >>
    BY DEF HubInit
  <2> QED
    BY <1>1, <2>1 DEF StreamInv, LogInv
<1> QED
  BY <1>2, <1>3, <1>4 DEF HubInv

LEMMA HubInvNext == HubInv /\ [HubNext]_hubVars => HubInv'
<1>1. ASSUME HubInv, NEW t \in Topics,
             \/ \E value \in Values, delivered \in BOOLEAN : DiskChanges(t, value, delivered)
             \/ Recomputes(t) \/ Keeps(t) \/ Broadcasts(t)
      PROVE  HubInv'
  BY <1>1, FilesStep, RecomputesStep, KeepsStep, BroadcastsStep
<1>2. ASSUME HubInv, SafetyTick PROVE HubInv'
  <2>1. PICK t \in Topics : t \in Polled \cap missed
    BY <1>2, HubAssumption DEF SafetyTick
  <2> QED
    BY <1>2, <2>1, FilesStep
<1>3. ASSUME HubInv, LogGrows \/ LogRead PROVE HubInv'
  BY <1>3, LogGrowsStep, LogReadStep
<1>4. ASSUME HubInv, NEW s \in Clients, Connects(s) \/ Hello(s) \/ Takes(s) \/ ClientLeaves(s)
      PROVE  HubInv'
  BY <1>4, ConnectsStep, HelloStep, TakesStep
<1>5. ASSUME HubInv, UNCHANGED hubVars PROVE HubInv'
  BY <1>5 DEF HubInv, HubTypes, ReadInv, OffInv, StreamInv, LogInv, hubVars
<1> QED
  BY <1>1, <1>2, <1>3, <1>4, <1>5 DEF HubNext

\* The invariant of the hub: of the workers of the topics, the queues of the
\* streams and the tail of the log.
THEOREM HubInvCorrect == HubSpec => []HubInv
  BY HubInvInit, HubInvNext, PTL DEF HubSpec

\* Events are about topics.
HubEvents == poked \subseteq Topics /\ missed \subseteq Topics

LEMMA HubEventsInit == HubInit => HubEvents
  BY DEF HubInit, HubEvents

LEMMA HubEventsNext == HubEvents /\ [HubNext]_hubVars => HubEvents'
<1> SUFFICES ASSUME HubEvents, [HubNext]_hubVars PROVE HubEvents'
  OBVIOUS
<1>1. CASE UNCHANGED hubVars
  BY <1>1 DEF hubVars, HubEvents
<1>2. ASSUME NEW t \in Topics, NEW value \in Values, NEW delivered \in BOOLEAN,
             DiskChanges(t, value, delivered)
      PROVE  HubEvents'
  BY <1>2 DEF DiskChanges, HubEvents
<1>3. ASSUME NEW t \in Topics, Recomputes(t) \/ Keeps(t) \/ Broadcasts(t) PROVE HubEvents'
  BY <1>3 DEF Recomputes, Keeps, Broadcasts, HubEvents
<1>4. CASE SafetyTick
  BY <1>4, HubAssumption DEF SafetyTick, HubEvents
<1>5. CASE LogGrows \/ LogRead
  BY <1>5 DEF LogGrows, LogRead, HubEvents
<1>6. ASSUME NEW s \in Clients, Connects(s) \/ Hello(s) \/ Takes(s) \/ ClientLeaves(s)
      PROVE  HubEvents'
  BY <1>6 DEF Connects, Hello, Takes, ClientLeaves, Others, HubEvents
<1> QED
  BY <1>1, <1>2, <1>3, <1>4, <1>5, <1>6 DEF HubNext

LEMMA HubTyped == HubInv /\ HubEvents => HubTypeOK
<1> SUFFICES ASSUME HubInv, HubEvents PROVE HubTypeOK
  OBVIOUS
<1>1. /\ HubTypes /\ HubChanges \in Nat /\ hubUsed \in Nat
      /\ lines \in Nat /\ hubUsed <= HubChanges /\ lines <= hubUsed
  BY HubAssumption DEF HubInv, HubTypes
<1>2. lines \in 0..HubChanges /\ offset \in 0..HubChanges
  BY <1>1 DEF HubTypes
<1>3. shown \in [Clients -> SUBSET (1..HubChanges)]
  <2>1. (1..lines) \subseteq (1..HubChanges)
    BY <1>1
  <2> QED
    BY <1>1, <2>1 DEF HubTypes
<1> QED
  BY <1>1, <1>2, <1>3 DEF HubEvents, HubTypes, HubTypeOK

\* The topics, the workers, the queues, which HubQueue bounds, and what the
\* browsers show keep their types.
THEOREM HubTypeCorrect == HubSpec => []HubTypeOK
  BY HubEventsInit, HubEventsNext, HubTyped, HubInvCorrect, PTL DEF HubSpec

\* A client that lost nothing and has nothing more to take shows what the files
\* say of every topic at rest, and its log has no hole: _Debounced._loop,
\* send(), snapshot() and _stream.
THEOREM ShowsDiskCorrect == HubSpec => []ShowsDisk
<1>1. ASSUME HubInv PROVE ShowsDisk
  <2>1. DOMAIN << >> = {}
    OBVIOUS
  <2>2. ASSUME NEW t \in Topics \ Gated, NEW s \in Clients, Settled(t, s)
        PROVE  view[s][t] = disk[t]
    <3>1. kept[t] = got[t] /\ got[t] = disk[t]
      BY <1>1, <2>2 DEF HubInv, ReadInv, Settled
    <3>2. view[s][t] = kept[t]
      BY <1>1, <2>1, <2>2 DEF HubInv, StreamInv, Settled
    <3> QED
      BY <3>1, <3>2
  <2>3. ASSUME NEW s \in Clients, client[s] = "live", queue[s] = << >>, s \notin lossy,
               offset = lines
        PROVE  shown[s] = 1..lines
    <3>1. shown[s] \subseteq 1..lines
      BY <1>1 DEF HubInv, HubTypes
    <3>2. \A n \in 1..offset : n \in shown[s]
      BY <1>1, <2>1, <2>3 DEF HubInv, LogInv
    <3> QED
      BY <2>3, <3>1, <3>2
  <2> QED
    BY <2>2, <2>3 DEF ShowsDisk
<1> QED
  BY <1>1, HubInvCorrect, PTL

-----------------------------------------------------------------------------
(* The releases. *)

Between == update.at \in {"symlink", "mark"}

RelShapes ==
    /\ update = [at |-> update.at, to |-> update.to, flags |-> update.flags]
    /\ seen = [w \in Hubs |-> seen[w]]
    /\ heal = [last |-> heal.last, escalated |-> heal.escalated]

\* An update that is not between them, and was not cut there, leaves link and
\* marker at one version.
LinkInv ==
    /\ ~torn /\ ~Between => link = {marker}
    /\ update.at = "mark" => link = {update.to}

\* The hub's timer is set as long as a restart is recent, and both of its
\* threads have read only if one did so before the other acted.
TimerInv ==
    /\ cooling => recheck
    /\ seen["worker"].at = "read" /\ seen["timer"].at = "read" => overlap

\* Nothing has changed that the worker has not been poked for since it read.
Calm == ~buildPoke /\ ~overlap /\ ~torn /\ ~Between

\* A thread that is about to act has read what is there.
SeenInv ==
    Calm => \A w \in Hubs : seen[w].at = "read" => seen[w].kernel = stamp /\ seen[w].current = marker

\* If no thread is about to act, and the timer not set, the last one that did
\* has shown what is there.
ShownInv ==
    /\ Calm /\ ~recheck /\ (\A w \in Hubs : seen[w].at = "idle")
    /\ stamp \notin {{}, {marker}}
    => banner.state \in {"kernel_stale", "both_stale"} /\ banner.escalated

HubThreads == \A w \in Hubs : seen[w].at \in {"idle", "read"}

RelInv == RelShapes /\ HubThreads /\ LinkInv /\ TimerInv /\ SeenInv /\ ShownInv

LEMMA RelInvInit == ReleasesInit => RelInv
  BY DEF ReleasesInit, RelInv, RelShapes, HubThreads, LinkInv, TimerInv, SeenInv, ShownInv,
         Calm, Between, Quiet, Blank, Fresh, Hubs

\* The commands of the owner: what they change, and that they poke the worker
\* when it is over, or are cut.
LEMMA UpdateStep ==
    ASSUME RelInv,
           \/ \E v \in Versions, flags \in UpdateFlags : Updates(v, flags) \/ RollsBack(flags)
           \/ Extracts \/ Provisions \/ Repoints \/ Marks \/ Collects \/ Notifies \/ UpdateFails
    PROVE  RelInv'
<1>1. UNCHANGED <<stamp, heal, cooling, recheck, seen, banner, overlap>>
  BY DEF Updates, RollsBack, Extracts, Provisions, Repoints, Marks, Collects, Notifies,
         UpdateFails, Kernel, Console
<1>2. update' = [at |-> update'.at, to |-> update'.to, flags |-> update'.flags]
  BY DEF RelInv, RelShapes, Updates, RollsBack, Extracts, Provisions, Repoints, Marks, Collects,
         Notifies, UpdateFails, Quiet
<1>3. LinkInv'
  <2>1. CASE Repoints
    BY <2>1 DEF RelInv, RelShapes, LinkInv, Between, Repoints, Kernel
  <2>2. CASE Marks
    BY <2>2 DEF RelInv, RelShapes, LinkInv, Between, Marks
  <2>3. CASE UpdateFails
    BY <2>3 DEF RelInv, LinkInv, Between, UpdateFails, Quiet
  <2>4. CASE \/ \E v \in Versions, flags \in UpdateFlags : Updates(v, flags) \/ RollsBack(flags)
             \/ Extracts \/ Provisions \/ Collects \/ Notifies
    <3>1. UNCHANGED <<link, marker, torn>> /\ ~Between
      BY <2>4 DEF Between, Updates, RollsBack, Extracts, Provisions, Collects, Notifies, Disk, Kernel
    <3>2. update'.at \notin {"symlink", "mark"}
      <4>1. CASE Extracts \/ Provisions \/ Collects
        BY <4>1 DEF RelInv, RelShapes, Extracts, Provisions, Collects
      <4>2. CASE Notifies
        BY <4>2 DEF Notifies, Quiet
      <4>3. ASSUME NEW v \in Versions, NEW flags \in UpdateFlags, Updates(v, flags)
            PROVE  update'.at = "extract"
        BY <4>3 DEF Updates
      <4>4. ASSUME NEW flags \in UpdateFlags, RollsBack(flags)
            PROVE  update'.at = "provision"
        BY <4>4 DEF RollsBack
      <4> QED
        BY <2>4, <4>1, <4>2, <4>3, <4>4
    <3> QED
      BY <3>1, <3>2 DEF RelInv, LinkInv, Between
  <2> QED
    BY <2>1, <2>2, <2>3, <2>4
<1>4. Calm' => Calm /\ marker' = marker
  BY DEF RelInv, RelShapes, Calm, Between, Updates, RollsBack, Extracts, Provisions, Repoints,
         Marks, Collects, Notifies, UpdateFails, Quiet, Disk, Kernel, Console
<1> QED
  BY <1>1, <1>2, <1>3, <1>4 DEF RelInv, RelShapes, HubThreads, TimerInv, SeenInv, ShownInv

\* The kernels: only their stamp is of interest to the hub.
LEMMA KernelsStep ==
    ASSUME RelInv,
           \/ \E k \in Kernels : \/ Spawns(k) \/ Locks(k) \/ LockFails(k) \/ Stamps(k)
                                 \/ PhasesPass(k) \/ Releases(k) \/ Execs(k) \/ KernelDies(k)
           \/ Reboots \/ Probes
    PROVE  RelInv'
<1>1. UNCHANGED <<update, link, marker, torn, heal, cooling, recheck, seen, banner, overlap>>
  BY DEF Spawns, Locks, LockFails, Stamps, PhasesPass, Releases, Execs, KernelDies, Reboots, Probes,
         Disk, Console
<1>2. ~buildPoke' => stamp' = stamp /\ ~buildPoke
  BY DEF Spawns, Locks, LockFails, Stamps, PhasesPass, Releases, Execs, KernelDies, Reboots, Probes
<1>3. Calm' => Calm
  BY <1>1, <1>2 DEF Calm, Between
<1> QED
  BY <1>1, <1>2, <1>3 DEF RelInv, RelShapes, HubThreads, LinkInv, TimerInv, SeenInv, ShownInv,
                          Calm, Between

\* What a thread reads of a link that is the marker's.
LEMMA CurrentFacts == link = {marker} => Current = marker
  BY DEF Current

LEMMA ReadsStep ==
    ASSUME RelInv, WorkerReads \/ TimerReads \/ CooldownEnds \/ ConsoleStarts
    PROVE  RelInv'
<1>1. UNCHANGED <<update, link, marker, torn, stamp, heal, banner>>
  BY DEF WorkerReads, TimerReads, CooldownEnds, ConsoleStarts, Disk, Kernel
<1>2. CASE WorkerReads
  <2>1. /\ seen' = [seen EXCEPT !["worker"] = Reads] /\ overlap' = (seen["timer"].at = "read")
        /\ UNCHANGED <<cooling, recheck>>
    BY <1>2 DEF WorkerReads
  <2>2. /\ seen' = [w \in Hubs |-> seen'[w]] /\ seen'["worker"] = Reads
        /\ seen'["timer"] = seen["timer"]
    BY <2>1 DEF RelInv, RelShapes, Hubs
  <2>3. SeenInv'
    BY <1>1, <2>1, <2>2, CurrentFacts DEF RelInv, LinkInv, SeenInv, Calm, Between, Reads, Hubs
  <2> QED
    BY <1>1, <2>1, <2>2, <2>3
       DEF RelInv, RelShapes, HubThreads, LinkInv, TimerInv, ShownInv, Between, Reads, Hubs
<1>3. CASE TimerReads
  <2>1. /\ seen' = [seen EXCEPT !["timer"] = Reads] /\ overlap' = (seen["worker"].at = "read")
        /\ ~cooling /\ UNCHANGED <<cooling, buildPoke>>
    BY <1>3 DEF TimerReads
  <2>2. /\ seen' = [w \in Hubs |-> seen'[w]] /\ seen'["timer"] = Reads
        /\ seen'["worker"] = seen["worker"]
    BY <2>1 DEF RelInv, RelShapes, Hubs
  <2>3. SeenInv'
    BY <1>1, <2>1, <2>2, CurrentFacts DEF RelInv, LinkInv, SeenInv, Calm, Between, Reads, Hubs
  <2> QED
    BY <1>1, <2>1, <2>2, <2>3
       DEF RelInv, RelShapes, HubThreads, LinkInv, TimerInv, ShownInv, Between, Reads, Hubs
<1>4. CASE CooldownEnds \/ ConsoleStarts
  BY <1>1, <1>4 DEF CooldownEnds, ConsoleStarts, RelInv, RelShapes, HubThreads, LinkInv, TimerInv, SeenInv,
                    ShownInv, Calm, Between
<1> QED
  BY <1>2, <1>3, <1>4

\* A thread that has read of a stale kernel asks for a restart, or raises the
\* banner.
LEMMA StaleFacts ==
    ASSUME NEW kernel, NEW own, NEW current, kernel \notin {{}, {current}}
    PROVE  /\ Classify(kernel, own, current) \in {"kernel_stale", "both_stale"}
           /\ heal.last # kernel => Remedy(kernel, own, current) = "reboot"
           /\ heal.last = kernel /\ ~cooling => Remedy(kernel, own, current) = "escalate"
  BY DEF Classify, Remedy

LEMMA ActsStep ==
    ASSUME RelInv, NEW w \in Hubs, Acts(w)
    PROVE  RelInv'
<1> DEFINE s == seen[w]
           remedy == Remedy(s.kernel, console.build, s.current)
           state == Classify(s.kernel, console.build, s.current)
           flagged == CASE remedy = "reboot" -> [last |-> s.kernel, escalated |-> FALSE]
                        [] remedy = "escalate" -> [heal EXCEPT !.escalated = TRUE]
                        [] OTHER -> heal
           healed == IF state = "in_sync" THEN Fresh ELSE flagged
<1>1. UNCHANGED <<update, link, marker, torn, stamp, overlap>> /\ s.at = "read"
  BY DEF Acts, Disk, Kernel
<1>2. \/ /\ heal' = Fresh /\ cooling' = FALSE /\ seen' = [v \in Hubs |-> Blank] /\ buildPoke' = TRUE
      \/ /\ heal' = healed /\ banner' = [state |-> state, escalated |-> healed.escalated]
         /\ cooling' = (cooling \/ remedy = "reboot") /\ recheck' = (recheck \/ remedy = "reboot")
         /\ seen' = [seen EXCEPT ![w] = Blank] /\ UNCHANGED buildPoke
  BY DEF Acts
<1>3. CASE buildPoke' = TRUE /\ heal' = Fresh /\ cooling' = FALSE /\ seen' = [v \in Hubs |-> Blank]
  BY <1>1, <1>3 DEF RelInv, RelShapes, HubThreads, LinkInv, TimerInv, SeenInv, ShownInv, Calm,
                    Between, Fresh, Blank, Hubs
<1>4. CASE /\ heal' = healed /\ banner' = [state |-> state, escalated |-> healed.escalated]
           /\ cooling' = (cooling \/ remedy = "reboot") /\ recheck' = (recheck \/ remedy = "reboot")
           /\ seen' = [seen EXCEPT ![w] = Blank] /\ UNCHANGED buildPoke
  <2>1. healed = [last |-> healed.last, escalated |-> healed.escalated]
    BY DEF RelInv, RelShapes, Fresh
  <2>2. /\ seen' = [v \in Hubs |-> seen'[v]] /\ seen'[w].at = "idle"
        /\ \A v \in Hubs : v # w => seen'[v] = seen[v]
    BY <1>4 DEF RelInv, RelShapes, Blank
  <2>3. RelShapes' /\ HubThreads' /\ LinkInv' /\ TimerInv'
    BY <1>1, <1>4, <2>1, <2>2 DEF RelInv, RelShapes, HubThreads, LinkInv, TimerInv, Between, Hubs
  <2>4. Calm' <=> Calm
    BY <1>1, <1>4 DEF Calm, Between
  <2>5. SeenInv'
    BY <1>1, <2>2, <2>4 DEF RelInv, SeenInv
  <2>6. ASSUME Calm, ~recheck', stamp \notin {{}, {marker}}
        PROVE  banner'.state \in {"kernel_stale", "both_stale"} /\ banner'.escalated
    <3>1. s.kernel = stamp /\ s.current = marker
      BY <1>1, <2>6 DEF RelInv, SeenInv
    <3>2. remedy # "reboot" /\ ~cooling
      BY <1>4, <2>6 DEF RelInv, TimerInv
    <3>3. remedy = "escalate" /\ state \in {"kernel_stale", "both_stale"}
      BY <2>6, <3>1, <3>2, StaleFacts
    <3>4. healed.escalated
      BY <3>3 DEF RelInv, RelShapes
    <3> QED
      BY <1>4, <3>3, <3>4
  <2>7. ShownInv'
    BY <1>1, <2>4, <2>6 DEF ShownInv
  <2> QED
    BY <2>3, <2>5, <2>7 DEF RelInv
<1> QED
  BY <1>2, <1>3, <1>4

LEMMA RelInvNext == RelInv /\ [ReleasesNext]_relVars => RelInv'
<1>1. ASSUME RelInv, ReleasesNext PROVE RelInv'
  BY <1>1, UpdateStep, KernelsStep, ReadsStep, ActsStep DEF ReleasesNext
<1>2. ASSUME RelInv, UNCHANGED relVars PROVE RelInv'
  BY <1>2 DEF RelInv, RelShapes, HubThreads, LinkInv, TimerInv, SeenInv, ShownInv, Calm, Between,
              relVars
<1> QED
  BY <1>1, <1>2

\* The invariant of the releases: of an update's link and marker, and of what
\* the hub's two threads have read.
THEOREM RelInvCorrect == ReleasesSpec => []RelInv
  BY RelInvInit, RelInvNext, PTL DEF ReleasesSpec

\* A kernel that goes on with another build than the installed one is shown as
\* stale, and the restart that did not help is escalated: _recompute_build
\* against pai.py's update and rollback.
THEOREM NoSilentSkewCorrect == ReleasesSpec => []NoSilentSkew
<1>1. RelInv => NoSilentSkew
  BY DEF RelInv, LinkInv, ShownInv, NoSilentSkew, Idle, Calm, Between
<1> QED
  BY <1>1, RelInvCorrect, PTL

-----------------------------------------------------------------------------
(* The types of the releases. *)

\* The places of a set of numbers are counted without a gap: the k-th of them
\* exists.
LEMMA RankOnto ==
    ASSUME NEW m \in Nat, NEW I \in SUBSET (1..m), NEW k \in 1..Cardinality(I)
    PROVE  \E i \in I : Cardinality({j \in I : j <= i}) = k
<1> DEFINE Below(i) == {j \in I : j <= i}
           rank == [i \in I |-> Cardinality(Below(i))]
           Ranks == 1..Cardinality(I)
<1>1. IsFiniteSet(I)
  <2>1. 1 \in Int /\ m \in Int
    OBVIOUS
  <2>2. IsFiniteSet(1..m)
    BY <2>1, FS_Interval, Zenon
  <2> QED
    BY <2>2, FS_Subset, Zenon
<1>2. Cardinality(I) \in Nat
  BY <1>1, FS_CardinalityType
<1>3. ASSUME NEW i \in I
      PROVE  IsFiniteSet(Below(i)) /\ Cardinality(Below(i)) \in Ranks
  <2>1. Below(i) \in SUBSET I /\ i \in Below(i)
    OBVIOUS
  <2> HIDE DEF Below
  <2>2. IsFiniteSet(Below(i)) /\ Cardinality(Below(i)) <= Cardinality(I)
    BY <1>1, <2>1, FS_Subset
  <2>3. Cardinality(Below(i)) \in Nat /\ Cardinality(Below(i)) # 0
    BY <2>1, <2>2, FS_CardinalityType, FS_EmptySet
  <2> QED
    BY <1>2, <2>2, <2>3
<1>4. ASSUME NEW i \in I, NEW j \in I, i < j
      PROVE  Cardinality(Below(i)) # Cardinality(Below(j))
  <2>1. \A x \in I : x <= i => x <= j
    BY <1>4
  <2>2. j <= j /\ ~(j <= i)
    BY <1>4
  <2>3. Below(i) \in SUBSET Below(j) /\ j \in Below(j) /\ j \notin Below(i)
    BY <2>1, <2>2
  <2> HIDE DEF Below
  <2> QED
    BY <1>3, <2>3, FS_Subset
<1>5. rank \in Injection(I, Ranks)
  <2>1. rank \in [I -> Ranks]
    BY <1>3
  <2>2. ASSUME NEW i \in I, NEW j \in I, rank[i] = rank[j] PROVE i = j
    <3>1. ~(i < j) /\ ~(j < i)
      BY <1>4, <2>2
    <3> QED
      BY <3>1
  <2>3. IsInjective(rank)
    BY <2>1, <2>2 DEF IsInjective
  <2> HIDE DEF rank
  <2> QED
    BY <2>1, <2>3 DEF Injection
<1>6. IsFiniteSet(Ranks) /\ Cardinality(Ranks) = Cardinality(I)
  BY <1>2, FS_Interval
<1>7. rank \in Surjection(I, Ranks)
  <2> HIDE DEF rank, Ranks
  <2> QED
    BY <1>1, <1>5, <1>6, FS_Injection
<1>8. PICK i \in I : rank[i] = k
  <2> HIDE DEF rank
  <2> QED
    BY <1>7 DEF Surjection
<1> QED
  BY <1>8

\* The directories that are kept are some of those that were there, and differ.
LEMMA DirsOfType ==
    ASSUME dirs \in Seq(Versions), IsInjective(dirs), NEW S
    PROVE  /\ DirsOf(S) \in Seq(Versions) /\ IsInjective(DirsOf(S))
           /\ ToSet(DirsOf(S)) \subseteq ToSet(dirs) \cap S
<1> DEFINE places == {i \in DOMAIN dirs : dirs[i] \in S}
           Rank(i) == Cardinality({j \in places : j <= i})
           Place(n) == CHOOSE i \in places : Rank(i) = n
           c == Cardinality(places)
<1>1. DOMAIN dirs = 1..Len(dirs) /\ Len(dirs) \in Nat /\ places \in SUBSET (1..Len(dirs))
  OBVIOUS
<1>2. c \in Nat
  <2>1. IsFiniteSet(1..Len(dirs))
    BY <1>1, FS_Interval
  <2> HIDE DEF places
  <2> QED
    BY <1>1, <2>1, FS_Subset, FS_CardinalityType
<1>3. \A n \in 1..c : Place(n) \in places /\ Rank(Place(n)) = n
  <2> SUFFICES ASSUME NEW n \in 1..c PROVE Place(n) \in places /\ Rank(Place(n)) = n
    OBVIOUS
  <2> HIDE DEF places
  <2>1. \E i \in places : Rank(i) = n
    BY <1>1, RankOnto
  <2> HIDE DEF Rank
  <2> QED
    BY <2>1
<1>4. \A n \in 1..c : dirs[Place(n)] \in Versions \cap S /\ dirs[Place(n)] \in ToSet(dirs)
  <2>1. ASSUME NEW i \in places PROVE dirs[i] \in Versions \cap S /\ dirs[i] \in ToSet(dirs)
    BY <1>1 DEF ToSet
  <2> HIDE DEF places, Place, c
  <2> QED
    BY <1>3, <2>1
<1>5. DirsOf(S) = [n \in 1..c |-> dirs[Place(n)]]
  BY DEF DirsOf
<1>6. \A a, b \in 1..c : dirs[Place(a)] = dirs[Place(b)] => a = b
  <2> SUFFICES ASSUME NEW a \in 1..c, NEW b \in 1..c, dirs[Place(a)] = dirs[Place(b)] PROVE a = b
    OBVIOUS
  <2>1. Place(a) \in DOMAIN dirs /\ Place(b) \in DOMAIN dirs
    BY <1>3
  <2> HIDE DEF Place, c
  <2>2. Place(a) = Place(b)
    BY <2>1 DEF IsInjective
  <2> HIDE DEF Rank
  <2> QED
    BY <1>3, <2>2
<1> HIDE DEF Place, c
<1> DEFINE left == DirsOf(S)
<1>7. DOMAIN left = 1..c /\ \A n \in 1..c : left[n] = dirs[Place(n)]
  BY <1>5
<1>8. left \in Seq(Versions)
  BY <1>2, <1>4, <1>5
<1> HIDE DEF left
<1>9. IsInjective(left)
  BY <1>6, <1>7 DEF IsInjective
<1>10. ToSet(left) \subseteq ToSet(dirs) \cap S
  BY <1>4, <1>7 DEF ToSet
<1> QED
  BY <1>8, <1>9, <1>10 DEF left

UpdatePlaces == {"idle", "extract", "provision", "unlink", "symlink", "mark", "gc", "notify"}
KernelRecords == [at : {"off", "starting", "locked", "phases", "up", "exec"}, build : Versions]
ReadRecords == [at : {"idle", "read"}, kernel : SUBSET Versions, current : Versions]

\* What an update works on: a version that it is about to extract has no
\* directory yet.
UpdateTypes ==
    /\ dirs \in Seq(Versions) /\ IsInjective(dirs)
    /\ link \in SUBSET Versions /\ marker \in Versions /\ code \in Versions
    /\ update.at \in UpdatePlaces /\ update.to \in Versions
    /\ update.at = "extract" => update.to \notin ToSet(dirs)

BuildTypes ==
    /\ kern \in [Kernels -> KernelRecords]
    /\ flock \subseteq Kernels \cup {"probe"} /\ stamp \subseteq Versions

ConsoleRecords == [build : Versions, tried : SUBSET Versions, alive : BOOLEAN]

ShownTypes ==
    /\ console \in ConsoleRecords
    /\ heal \in [last : SUBSET Versions, escalated : BOOLEAN]
    /\ seen \in [Hubs -> ReadRecords]
    /\ banner.state \in {"unknown", "in_sync", "kernel_stale", "console_stale", "both_stale"}

RelTypes == UpdateTypes /\ BuildTypes /\ ShownTypes

\* Each command's writes; an extraction puts the new version first.
LEMMA UpdateTypesStep ==
    ASSUME RelShapes, UpdateTypes,
           \/ \E v \in Versions, flags \in UpdateFlags : Updates(v, flags) \/ RollsBack(flags)
           \/ Extracts \/ Provisions \/ Repoints \/ Marks \/ Collects \/ Notifies \/ UpdateFails
    PROVE  UpdateTypes'
<1>1. ASSUME NEW v \in Versions, NEW flags \in UpdateFlags, Updates(v, flags) PROVE UpdateTypes'
  <2>1. dirs' \in Seq(Versions) /\ IsInjective(dirs') /\ v \notin ToSet(dirs')
    BY <1>1, DirsOfType DEF UpdateTypes, Updates
  <2> QED
    BY <1>1, <2>1 DEF UpdateTypes, UpdatePlaces, Updates
<1>2. ASSUME NEW flags \in UpdateFlags, RollsBack(flags) PROVE UpdateTypes'
  <2>1. DirsOf(Versions \ {marker}) \in Seq(Versions) /\ DirsOf(Versions \ {marker}) # << >>
    BY <1>2, DirsOfType DEF UpdateTypes, RollsBack
  <2>2. Head(DirsOf(Versions \ {marker})) \in Versions
    BY <2>1
  <2>3. update'.at = "provision" /\ update'.to = Head(DirsOf(Versions \ {marker}))
    BY <1>2 DEF RollsBack
  <2> QED
    BY <1>2, <2>2, <2>3 DEF UpdateTypes, UpdatePlaces, RollsBack, Disk
<1>3. CASE Extracts
  <2>1. update.to \in Versions /\ update.to \notin ToSet(dirs) /\ dirs \in Seq(Versions)
    BY <1>3 DEF UpdateTypes, Extracts
  <2>2. dirs' \in Seq(Versions)
    BY <1>3, <2>1 DEF Extracts
  <2>3. /\ DOMAIN dirs' = 1..(Len(dirs) + 1) /\ dirs'[1] = update.to
        /\ \A i \in 2..(Len(dirs) + 1) : dirs'[i] = dirs[i - 1] /\ i - 1 \in DOMAIN dirs
    BY <1>3, <2>1 DEF Extracts
  <2>4. \A i \in DOMAIN dirs : dirs[i] # update.to
    BY <2>1 DEF ToSet
  <2>5. IsInjective(dirs')
    <3> SUFFICES ASSUME NEW i \in DOMAIN dirs', NEW j \in DOMAIN dirs', dirs'[i] = dirs'[j], i # j
                 PROVE  FALSE
      BY DEF IsInjective
    <3>1. Len(dirs) \in Nat
      BY <2>1
    <3>2. (i = 1 \/ i \in 2..(Len(dirs) + 1)) /\ (j = 1 \/ j \in 2..(Len(dirs) + 1))
      BY <2>3, <3>1
    <3>3. i # 1 /\ j # 1
      BY <2>3, <2>4, <3>2
    <3>4. i - 1 = j - 1
      BY <2>3, <3>2, <3>3 DEF UpdateTypes, IsInjective
    <3> QED
      BY <3>1, <3>2, <3>3, <3>4
  <2>6. update'.at \in {"unlink", "provision"} /\ update'.to = update.to
    BY <1>3 DEF RelShapes, Extracts
  <2> QED
    BY <1>3, <2>1, <2>2, <2>5, <2>6 DEF UpdateTypes, UpdatePlaces, Extracts
<1>4. CASE Provisions \/ Repoints \/ Marks
  BY <1>4 DEF RelShapes, UpdateTypes, UpdatePlaces, Provisions, Repoints, Marks
<1>5. CASE Collects
  <2>1. dirs' \in Seq(Versions) /\ IsInjective(dirs')
    BY <1>5, DirsOfType DEF UpdateTypes, Collects
  <2> QED
    BY <1>5, <2>1 DEF RelShapes, UpdateTypes, UpdatePlaces, Collects
<1>6. CASE Notifies \/ UpdateFails
  BY <1>6, ReleaseAssumption DEF UpdateTypes, UpdatePlaces, Notifies, UpdateFails, Quiet
<1> QED
  BY <1>1, <1>2, <1>3, <1>4, <1>5, <1>6

\* A kernel runs the code that was there when it was spawned, and stamps what
\* is there when it boots.
LEMMA BuildTypesStep ==
    ASSUME UpdateTypes, BuildTypes,
           \/ \E k \in Kernels : \/ Spawns(k) \/ Locks(k) \/ LockFails(k) \/ Stamps(k)
                                 \/ PhasesPass(k) \/ Releases(k) \/ Execs(k) \/ KernelDies(k)
           \/ Reboots \/ Probes
    PROVE  BuildTypes'
<1>1. \A k \in Kernels : kern[k] \in KernelRecords
  BY DEF BuildTypes
<1>2. \A k \in Kernels, at \in {"off", "starting", "locked", "phases", "up", "exec"} :
          [kern[k] EXCEPT !.at = at] \in KernelRecords
  BY <1>1 DEF KernelRecords
<1>3. [at |-> "starting", build |-> code] \in KernelRecords
  BY DEF UpdateTypes, KernelRecords
<1>4. ASSUME NEW k \in Kernels, Spawns(k) \/ Execs(k) PROVE BuildTypes'
  BY <1>2, <1>3, <1>4 DEF BuildTypes, Spawns, Execs, Gone
<1>5. ASSUME NEW k \in Kernels, Locks(k) \/ LockFails(k) \/ PhasesPass(k) \/ Releases(k) \/ KernelDies(k)
      PROVE  BuildTypes'
  BY <1>2, <1>5 DEF BuildTypes, Locks, LockFails, PhasesPass, Releases, KernelDies, Gone
<1>6. ASSUME NEW k \in Kernels, Stamps(k) PROVE BuildTypes'
  <2>1. kern' \in [Kernels -> KernelRecords]
    BY <1>2, <1>6 DEF Stamps
  <2>2. code \in Versions
    BY DEF UpdateTypes
  <2> QED
    BY <1>6, <2>1, <2>2 DEF BuildTypes, Stamps
<1>7. CASE Reboots \/ Probes
  BY <1>7 DEF BuildTypes, Reboots, Probes
<1> QED
  BY <1>4, <1>5, <1>6, <1>7

\* What the hub reads is the stamp and an installed release.
LEMMA ReadsTypes ==
    ASSUME UpdateTypes, BuildTypes
    PROVE  Reads \in ReadRecords
<1>1. Current \in Versions
  BY DEF Current, UpdateTypes
<1> QED
  BY <1>1 DEF Reads, ReadRecords, BuildTypes

LEMMA ShownTypesStep ==
    ASSUME RelTypes, WorkerReads \/ TimerReads \/ CooldownEnds \/ ConsoleStarts \/ \E w \in Hubs : Acts(w)
    PROVE  ShownTypes'
<1>1. CASE WorkerReads \/ TimerReads
  BY <1>1, ReadsTypes DEF RelTypes, ShownTypes, WorkerReads, TimerReads
<1>2. CASE CooldownEnds \/ ConsoleStarts
  <2>1. [build |-> code, tried |-> {}, alive |-> TRUE] \in ConsoleRecords
    BY DEF RelTypes, UpdateTypes, ConsoleRecords
  <2> QED
    BY <1>2, <2>1 DEF RelTypes, ShownTypes, CooldownEnds, ConsoleStarts
<1>3. ASSUME NEW w \in Hubs, Acts(w) PROVE ShownTypes'
  <2> DEFINE s == seen[w]
             remedy == Remedy(s.kernel, console.build, s.current)
             state == Classify(s.kernel, console.build, s.current)
             flagged == CASE remedy = "reboot" -> [last |-> s.kernel, escalated |-> FALSE]
                          [] remedy = "escalate" -> [heal EXCEPT !.escalated = TRUE]
                          [] OTHER -> heal
             healed == IF state = "in_sync" THEN Fresh ELSE flagged
  <2>1. Blank \in ReadRecords /\ Fresh \in [last : SUBSET Versions, escalated : BOOLEAN]
    BY ReleaseAssumption DEF Blank, Fresh, ReadRecords
  <2>2. s \in ReadRecords
    BY DEF RelTypes, ShownTypes
  <2>3. healed \in [last : SUBSET Versions, escalated : BOOLEAN]
    <3>1. [last |-> s.kernel, escalated |-> FALSE] \in [last : SUBSET Versions, escalated : BOOLEAN]
      BY <2>2 DEF ReadRecords
    <3>2. [heal EXCEPT !.escalated = TRUE] \in [last : SUBSET Versions, escalated : BOOLEAN]
      BY DEF RelTypes, ShownTypes
    <3> HIDE DEF s
    <3> QED
      BY <2>1, <3>1, <3>2 DEF RelTypes, ShownTypes
  <2>4. state \in {"unknown", "in_sync", "kernel_stale", "console_stale", "both_stale"}
    BY DEF Classify
  <2>5. [build |-> code, tried |-> {s.current}, alive |-> Loadable] \in ConsoleRecords
    <3>1. Loadable \in BOOLEAN
      BY DEF Loadable
    <3> QED
      BY <2>2, <3>1 DEF RelTypes, UpdateTypes, ReadRecords, ConsoleRecords
  <2>6. \/ /\ console' = [build |-> code, tried |-> {s.current}, alive |-> Loadable] /\ heal' = Fresh
           /\ seen' = [v \in Hubs |-> Blank] /\ UNCHANGED banner
        \/ /\ console' = console /\ heal' = healed /\ seen' = [seen EXCEPT ![w] = Blank]
           /\ banner' = [state |-> state, escalated |-> healed.escalated]
    BY <1>3 DEF Acts
  <2> HIDE DEF s, healed, state
  <2> QED
    BY <2>1, <2>3, <2>4, <2>5, <2>6 DEF RelTypes, ShownTypes
<1> QED
  BY <1>1, <1>2, <1>3

LEMMA RelTypesInit == ReleasesInit => RelTypes
<1> SUFFICES ASSUME ReleasesInit PROVE RelTypes
  OBVIOUS
<1>1. UpdateTypes
  BY ReleaseAssumption DEF ReleasesInit, UpdateTypes, UpdatePlaces, Quiet, IsInjective
<1>2. BuildTypes
  BY ReleaseAssumption DEF ReleasesInit, BuildTypes, KernelRecords
<1>3. ShownTypes
  BY ReleaseAssumption DEF ReleasesInit, ShownTypes, ConsoleRecords, ReadRecords, Blank, Fresh
<1> QED
  BY <1>1, <1>2, <1>3 DEF RelTypes

LEMMA RelTypesNext == RelInv /\ RelTypes /\ [ReleasesNext]_relVars => RelTypes'
<1> SUFFICES ASSUME RelInv, RelTypes, [ReleasesNext]_relVars PROVE RelTypes'
  OBVIOUS
<1>1. CASE \/ \E v \in Versions, flags \in UpdateFlags : Updates(v, flags) \/ RollsBack(flags)
           \/ Extracts \/ Provisions \/ Repoints \/ Marks \/ Collects \/ Notifies \/ UpdateFails
  <2>1. UNCHANGED <<kern, flock, stamp, console, heal, seen, banner>>
    BY <1>1 DEF Updates, RollsBack, Extracts, Provisions, Repoints, Marks, Collects, Notifies,
                UpdateFails, Kernel, Console
  <2> QED
    BY <1>1, <2>1, UpdateTypesStep DEF RelInv, RelTypes, BuildTypes, ShownTypes
<1>2. CASE \/ \E k \in Kernels : \/ Spawns(k) \/ Locks(k) \/ LockFails(k) \/ Stamps(k)
                                 \/ PhasesPass(k) \/ Releases(k) \/ Execs(k) \/ KernelDies(k)
           \/ Reboots \/ Probes
  <2>1. UNCHANGED <<dirs, link, marker, code, update, console, heal, seen, banner>>
    BY <1>2 DEF Spawns, Locks, LockFails, Stamps, PhasesPass, Releases, Execs, KernelDies, Reboots,
                Probes, Disk, Console
  <2> QED
    BY <1>2, <2>1, BuildTypesStep DEF RelTypes, UpdateTypes, ShownTypes
<1>3. CASE WorkerReads \/ TimerReads \/ CooldownEnds \/ ConsoleStarts \/ \E w \in Hubs : Acts(w)
  <2>1. UNCHANGED <<dirs, link, marker, code, update, kern, flock, stamp>>
    BY <1>3 DEF WorkerReads, TimerReads, CooldownEnds, ConsoleStarts, Acts, Disk, Kernel
  <2> QED
    BY <1>3, <2>1, ShownTypesStep DEF RelTypes, UpdateTypes, BuildTypes
<1>4. CASE UNCHANGED relVars
  BY <1>4 DEF RelTypes, UpdateTypes, BuildTypes, ShownTypes, relVars
<1>5. CASE ReleasesNext
  BY <1>1, <1>2, <1>3, <1>5 DEF ReleasesNext
<1> QED
  BY <1>4, <1>5

LEMMA ReleasesTyped == RelTypes => ReleasesTypeOK
<1> SUFFICES ASSUME RelTypes PROVE ReleasesTypeOK
  OBVIOUS
<1>1. dirs \in SeqOf(Versions, Len(dirs))
  <2>1. dirs \in [1..Len(dirs) -> Versions] /\ Len(dirs) \in 0..Len(dirs)
    BY DEF RelTypes, UpdateTypes
  <2> QED
    BY <2>1 DEF SeqOf
<1> QED
  BY <1>1 DEF RelTypes, UpdateTypes, UpdatePlaces, BuildTypes, KernelRecords, ShownTypes,
              ConsoleRecords, ReadRecords, ReleasesTypeOK

-----------------------------------------------------------------------------
(* The packages. *)

Frames == [bundle : Bundles, next : Nat \ {0}]
CommandRecords ==
    [op : {"none", "install", "remove"},
     phase : {"done", "deps", "copy", "activate", "unlink", "rmtree", "emit"},
     top : SUBSET Bundles, stack : Seq(Frames), seen : SUBSET Bundles, kinds : SUBSET Bundles,
     shelf : [Bundles -> 0..Broken], fetched : BOOLEAN]

PackageTypes ==
    /\ published \in [Bundles -> Shipped]
    /\ staged \in [Bundles -> 0..Broken]
    /\ command \in [Shells -> CommandRecords]

\* An installation that is not over has a frame to work on; a removal is of
\* the bundle that it reports.
FrameInv ==
    \A s \in Shells :
        /\ command[s].phase \in {"deps", "copy", "activate"} => Len(command[s].stack) > 0
        /\ command[s].phase \in {"unlink", "rmtree"} => command[s].kinds = command[s].top

Follows(b) == b \in loaded <=> b \in slots /\ Installed(b)

\* Unless a reload waits, what the kernel has not seen is under some command's
\* hand, or was left so by a command that told nothing.
FollowInv ==
    ~reloadAsked => \A b \in Reloading \ untold : Follows(b) \/ \E s \in Shells : b \in Touched(s)

ActivationInv == PackageTypes /\ FrameInv /\ loaded \subseteq Reloading /\ FollowInv

-----------------------------------------------------------------------------
(* The packages: types. *)

\* A frame of the stack is a bundle and a place in its deps.
LEMMA FrameType ==
    ASSUME PackageTypes, FrameInv, NEW s \in Shells, command[s].phase \in {"deps", "copy", "activate"}
    PROVE  Frame(s) \in Frames /\ Frame(s).bundle \in Bundles
<1>1. command[s].stack \in Seq(Frames) /\ Len(command[s].stack) > 0
  BY DEF PackageTypes, FrameInv, CommandRecords
<1>2. Frame(s) \in Frames
  BY <1>1 DEF Frame, Last
<1> QED
  BY <1>2 DEF Frames

\* A dep is a bundle.
LEMMA DepType ==
    ASSUME PackageTypes, FrameInv, NEW s \in Shells, command[s].phase = "deps", ~AllDeps(s)
    PROVE  Dep(s) \in Bundles
<1>1. Frame(s) \in Frames
  BY FrameType
<1>2. Deps[Frame(s).bundle] \in Seq(Bundles) /\ Frame(s).next \in Nat \ {0}
  BY <1>1, PackagesAssumption DEF Frames
<1> QED
  BY <1>2 DEF AllDeps, Dep

\* The end of a command, and its beginning.
LEMMA NoCommandType ==
    NoCommand \in CommandRecords /\ NoCommand.phase = "done" /\ NoCommand.kinds = {}
<1>1. << >> \in Seq(Frames) /\ 0 \in 0..Broken
  BY PackagesAssumption DEF Broken
<1> QED
  BY <1>1 DEF NoCommand, CommandRecords

\* A step of s replaces its own command.
LEMMA CommandStepType ==
    ASSUME PackageTypes, FrameInv, NEW s \in Shells, NEW x \in CommandRecords,
           x.phase \in {"deps", "copy", "activate"} => Len(x.stack) > 0,
           x.phase \in {"unlink", "rmtree"} => x.kinds = x.top,
           command' = [command EXCEPT ![s] = x],
           staged' \in [Bundles -> 0..Broken], published' = published
    PROVE  PackageTypes' /\ FrameInv'
<1>1. command' \in [Shells -> CommandRecords]
  BY DEF PackageTypes
<1>2. \A t \in Shells : command'[t] = IF t = s THEN x ELSE command[t]
  BY DEF PackageTypes
<1> QED
  BY <1>1, <1>2 DEF PackageTypes, FrameInv

\* An installation begins with the frame of what was asked for.
LEMMA InstallsType ==
    ASSUME PackageTypes, FrameInv, NEW s \in Shells, NEW b \in Bundles, NEW fetched \in BOOLEAN,
           InstallsBundle(s, b, fetched)
    PROVE  PackageTypes' /\ FrameInv'
<1> DEFINE new == [NoCommand EXCEPT !.op = "install", !.phase = "deps", !.top = {b},
                      !.seen = {b}, !.stack = <<[bundle |-> b, next |-> 1]>>, !.shelf = published,
                      !.fetched = fetched]
<1>1. <<[bundle |-> b, next |-> 1]>> \in Seq(Frames) /\ Len(<<[bundle |-> b, next |-> 1]>>) = 1
  BY DEF Frames
<1>2. published \in [Bundles -> 0..Broken]
  BY PackagesAssumption DEF PackageTypes, Shipped, Broken
<1>3. new \in CommandRecords /\ new.stack = <<[bundle |-> b, next |-> 1]>> /\ new.phase = "deps"
  BY <1>1, <1>2, NoCommandType DEF CommandRecords
<1>4. command' = [command EXCEPT ![s] = new]
  BY Zenon DEF InstallsBundle, BeginsCommand
<1>5. staged' = staged /\ published' = published
  BY DEF InstallsBundle, Staging
<1> HIDE DEF new
<1>6. Len(new.stack) > 0
  BY <1>1, <1>3
<1> QED
  BY <1>3, <1>4, <1>5, <1>6, CommandStepType DEF PackageTypes

\* A removal begins with what it will report.
LEMMA RemovesType ==
    ASSUME PackageTypes, FrameInv, NEW s \in Shells, NEW b \in Bundles, NEW force \in BOOLEAN,
           RemovesBundle(s, b, force)
    PROVE  PackageTypes' /\ FrameInv'
<1> DEFINE new == [NoCommand EXCEPT !.op = "remove", !.phase = "unlink", !.top = {b}, !.kinds = {b}]
<1>1. new \in CommandRecords /\ new.kinds = new.top /\ new.phase = "unlink"
  BY NoCommandType DEF CommandRecords
<1>2. command' = [command EXCEPT ![s] = new]
  BY Zenon DEF RemovesBundle, BeginsCommand
<1>3. staged' = staged /\ published' = published
  BY DEF RemovesBundle, Staging
<1> HIDE DEF new
<1> QED
  BY <1>1, <1>2, <1>3, CommandStepType DEF PackageTypes

\* The deps are walked with a stack of frames.
LEMMA DepsType ==
    ASSUME PackageTypes, FrameInv, NEW s \in Shells, DepSkipped(s) \/ DepPushed(s)
    PROVE  PackageTypes' /\ FrameInv'
<1> DEFINE stack == command[s].stack
           moved == NextDep(stack)
           pushed == Append(moved, [bundle |-> Dep(s), next |-> 1])
<1>1. command[s] \in CommandRecords /\ stack \in Seq(Frames) /\ Len(stack) > 0
  BY DEF PackageTypes, FrameInv, CommandRecords, DepSkipped, DepPushed
<1>2. Dep(s) \in Bundles
  BY DepType DEF DepSkipped, DepPushed
<1>3. moved \in Seq(Frames) /\ Len(moved) = Len(stack)
  <2>1. stack[Len(stack)] \in Frames
    BY <1>1
  <2>2. [stack[Len(stack)] EXCEPT !.next = @ + 1] \in Frames
    BY <2>1 DEF Frames
  <2>3. moved = [stack EXCEPT ![Len(stack)] = [stack[Len(stack)] EXCEPT !.next = @ + 1]]
    BY DEF NextDep
  <2> QED
    BY <1>1, <2>2, <2>3
<1>4. pushed \in Seq(Frames) /\ Len(pushed) > 0
  <2>1. [bundle |-> Dep(s), next |-> 1] \in Frames
    BY <1>2 DEF Frames
  <2> QED
    BY <1>3, <2>1
<1>5. staged' = staged /\ published' = published
  BY DEF DepSkipped, DepPushed, Staging
<1>6. CASE DepSkipped(s)
  <2>0. PICK fetched \in BOOLEAN :
           command' = [command EXCEPT ![s].stack = NextDep(@), ![s].fetched = fetched]
    BY <1>6 DEF DepSkipped
  <2> DEFINE new == [command[s] EXCEPT !.stack = moved, !.fetched = fetched]
  <2>1. command' = [command EXCEPT ![s] = new]
    BY <1>1, <2>0 DEF PackageTypes
  <2>2. new \in CommandRecords /\ new.phase = "deps" /\ Len(new.stack) > 0
    BY <1>1, <1>3, <1>6 DEF CommandRecords, DepSkipped
  <2> HIDE DEF new
  <2> QED
    BY <1>5, <2>1, <2>2, CommandStepType DEF PackageTypes
<1>7. CASE DepPushed(s)
  <2> DEFINE new == [command[s] EXCEPT !.seen = @ \cup {Dep(s)}, !.fetched = TRUE, !.stack = pushed]
  <2>1. command' = [command EXCEPT ![s] = new]
    BY <1>1, <1>7 DEF DepPushed, PackageTypes
  <2>2. new \in CommandRecords /\ new.phase = "deps" /\ Len(new.stack) > 0
    BY <1>1, <1>2, <1>4, <1>7 DEF CommandRecords, DepPushed
  <2> HIDE DEF new
  <2> QED
    BY <1>5, <2>1, <2>2, CommandStepType DEF PackageTypes
<1> QED
  BY <1>6, <1>7

\* Copying, activating and removing go from phase to phase.
LEMMA PhasesType ==
    ASSUME PackageTypes, FrameInv, NEW s \in Shells,
           Wipes(s) \/ Copies(s) \/ Unlinks(s) \/ RmTrees(s)
    PROVE  PackageTypes' /\ FrameInv'
<1>1. command[s] \in CommandRecords
  BY DEF PackageTypes
<1>2. PICK phase \in {"copy", "activate", "rmtree", "emit"} :
         /\ command' = [command EXCEPT ![s] = [command[s] EXCEPT !.phase = phase]]
         /\ phase \in {"copy", "activate"} => command[s].phase \in {"deps", "copy"}
         /\ phase = "rmtree" => command[s].phase = "unlink"
  <2>1. CASE Wipes(s)
    BY <2>1, Zenon DEF Wipes, ToPhase
  <2>2. CASE Copies(s)
    BY <2>2, Zenon DEF Copies, ToPhase
  <2>3. CASE Unlinks(s)
    BY <2>3, Zenon DEF Unlinks, ToPhase
  <2>4. CASE RmTrees(s)
    BY <2>4, Zenon DEF RmTrees, ToPhase
  <2> QED
    BY <2>1, <2>2, <2>3, <2>4
<1> DEFINE new == [command[s] EXCEPT !.phase = phase]
<1>3. /\ new \in CommandRecords
      /\ new.phase \in {"deps", "copy", "activate"} => Len(new.stack) > 0
      /\ new.phase \in {"unlink", "rmtree"} => new.kinds = new.top
  BY <1>1, <1>2 DEF CommandRecords, FrameInv
<1>4. staged' \in [Bundles -> 0..Broken] /\ published' = published
  <2>1. CASE Wipes(s)
    <3>1. 0 \in 0..Broken
      BY PackagesAssumption DEF Broken
    <3> QED
      BY <2>1, <3>1, FrameType DEF Wipes, PackageTypes
  <2>2. CASE Copies(s)
    <3>1. command[s].shelf[Frame(s).bundle] \in 0..Broken
      BY <1>1, <2>2, FrameType DEF Copies, CommandRecords
    <3> QED
      BY <2>2, <3>1 DEF Copies, PackageTypes
  <2>3. CASE Unlinks(s) \/ RmTrees(s)
    <3>1. 0 \in 0..Broken
      BY PackagesAssumption DEF Broken
    <3> QED
      BY <2>3, <3>1 DEF Unlinks, RmTrees, PackageTypes
  <2> QED
    BY <2>1, <2>2, <2>3
<1> HIDE DEF new
<1> QED
  BY <1>2, <1>3, <1>4, CommandStepType DEF new

\* An activated bundle leaves the stack; the last one ends the installation.
LEMMA ActivatesType ==
    ASSUME PackageTypes, FrameInv, NEW s \in Shells, Activates(s)
    PROVE  PackageTypes' /\ FrameInv'
<1> DEFINE stack == command[s].stack
           phase == IF Len(stack) = 1 THEN "emit" ELSE "deps"
           new == [command[s] EXCEPT !.kinds = @ \cup {Frame(s).bundle}, !.stack = Front(stack),
                                     !.phase = phase]
<1>1. command[s] \in CommandRecords /\ stack \in Seq(Frames) /\ Len(stack) > 0
  BY DEF PackageTypes, FrameInv, CommandRecords, Activates
<1>2. Front(stack) \in Seq(Frames) /\ Len(Front(stack)) = Len(stack) - 1
  BY <1>1 DEF Front
<1>3. Frame(s).bundle \in Bundles
  BY FrameType DEF Activates
<1>4. /\ new \in CommandRecords
      /\ new.phase = "emit" \/ (new.phase = "deps" /\ Len(new.stack) > 0)
  <2>1. new \in CommandRecords
    BY <1>1, <1>2, <1>3 DEF CommandRecords
  <2>2. new.phase = phase /\ new.stack = Front(stack)
    BY <1>1 DEF CommandRecords
  <2>3. phase = "emit" \/ (phase = "deps" /\ Len(stack) > 1)
    <3>1. Len(stack) \in Nat /\ Len(stack) > 0
      BY <1>1
    <3>2. \A n \in Nat : n > 0 => n = 1 \/ n > 1
      OBVIOUS
    <3>3. Len(stack) = 1 \/ Len(stack) > 1
      BY <3>1, <3>2, Zenon
    <3> QED
      BY <3>3
  <2> HIDE DEF new, phase
  <2> QED
    BY <1>1, <1>2, <2>1, <2>2, <2>3
<1>5. command' = [command EXCEPT ![s] = new]
  BY DEF Activates, PackageTypes
<1>6. staged' = staged /\ published' = published
  BY DEF Activates
<1> HIDE DEF new
<1> QED
  BY <1>4, <1>5, <1>6, CommandStepType DEF PackageTypes

\* A command ends with its report or without, in an abort or in a kill, which may leave a
\* copy that is broken.
LEMMA EndsType ==
    ASSUME PackageTypes, FrameInv, NEW s \in Shells,
           DepAborts(s) \/ EmitsReload(s) \/ EndsUntold(s) \/ Killed(s)
    PROVE  PackageTypes' /\ FrameInv'
<1>1. command' = [command EXCEPT ![s] = NoCommand] /\ published' = published
  BY DEF DepAborts, EmitsReload, EndsUntold, Killed, Staging
<1>2. staged' \in [Bundles -> 0..Broken]
  <2>1. Broken \in 0..Broken /\ 0 \in 0..Broken /\ staged \in [Bundles -> 0..Broken]
    BY PackagesAssumption DEF Broken, PackageTypes
  <2>2. staged' = staged \/ staged' = [staged EXCEPT ![Frame(s).bundle] = Broken]
    BY DEF DepAborts, EmitsReload, EndsUntold, Killed, Staging
  <2> QED
    BY <2>1, <2>2
<1> QED
  BY <1>1, <1>2, NoCommandType, CommandStepType

\* Every step of a shell keeps the types.
LEMMA ShellType ==
    ASSUME PackageTypes, FrameInv, NEW s \in Shells, ShellStep(s)
    PROVE  PackageTypes' /\ FrameInv'
BY InstallsType, RemovesType, DepsType, PhasesType, ActivatesType, EndsType DEF ShellStep

-----------------------------------------------------------------------------
(* The packages: what the kernel has not seen. *)

\* A step of s that keeps hold of what s has touched, and touches what it
\* changes, hides nothing from the kernel.
LEMMA KeepsHold ==
    ASSUME FollowInv, NEW s \in Shells,
           \A t \in Shells \ {s} : command'[t] = command[t],
           untold \subseteq untold', reloadAsked => reloadAsked', loaded' = loaded,
           ~reloadAsked' => \A b \in Reloading \ untold' :
               /\ b \in Touched(s) => b \in Touched(s)'
               /\ b \in Touched(s)' \/ (Follows(b) => Follows(b)')
    PROVE  FollowInv'
<1>1. \A t \in Shells \ {s} : Touched(t)' = Touched(t)
  BY DEF Touched, Frame
<1> QED
  BY <1>1 DEF FollowInv

\* A command that begins takes nothing out of the kernel's sight.
LEMMA BeginsFollow ==
    ASSUME ActivationInv, NEW s \in Shells, NEW b \in Bundles,
           \/ \E fetched \in BOOLEAN : InstallsBundle(s, b, fetched)
           \/ \E force \in BOOLEAN : RemovesBundle(s, b, force)
    PROVE  FollowInv'
<1>1. Touched(s) = {}
  BY DEF InstallsBundle, RemovesBundle, BeginsCommand, Touched
<1>2. /\ \A t \in Shells \ {s} : command'[t] = command[t]
      /\ UNCHANGED <<untold, reloadAsked, loaded, slots, staged>>
  BY DEF InstallsBundle, RemovesBundle, BeginsCommand, ActivationInv, PackageTypes, Staging, ReloadState
<1> QED
  BY <1>1, <1>2, KeepsHold DEF ActivationInv, Follows, Installed

\* Walking the deps changes nothing; an abort tells nothing of what has been
\* activated.
LEMMA DepsFollow ==
    ASSUME ActivationInv, NEW s \in Shells, DepSkipped(s) \/ DepPushed(s) \/ DepAborts(s)
    PROVE  FollowInv'
<1>1. /\ \A t \in Shells \ {s} : command'[t] = command[t]
      /\ UNCHANGED <<reloadAsked, loaded, slots, staged>>
  BY DEF DepSkipped, DepPushed, DepAborts, ActivationInv, PackageTypes, Staging, ReloadState
<1>5. \A b \in Reloading : Follows(b) => Follows(b)'
  BY <1>1 DEF Follows, Installed
<1>3. CASE DepSkipped(s) \/ DepPushed(s)
  <2>1. Touched(s)' = Touched(s) /\ untold' = untold
    <3>1. command[s].phase = "deps" /\ untold' = untold
      BY <1>3 DEF DepSkipped, DepPushed
    <3>2. command[s] \in CommandRecords /\ DOMAIN command = Shells
      BY DEF ActivationInv, PackageTypes
    <3>3. command'[s].phase = command[s].phase /\ command'[s].kinds = command[s].kinds
      <4>1. CASE DepSkipped(s)
        <5>1. PICK fetched \in BOOLEAN :
                 command'[s] = [command[s] EXCEPT !.stack = NextDep(@), !.fetched = fetched]
          BY <3>2, <4>1 DEF DepSkipped
        <5> QED
          BY <3>2, <5>1 DEF CommandRecords
      <4>2. CASE DepPushed(s)
        <5> DEFINE pushed == Append(NextDep(command[s].stack), [bundle |-> Dep(s), next |-> 1])
        <5>1. command'[s] = [command[s] EXCEPT !.seen = @ \cup {Dep(s)}, !.fetched = TRUE, !.stack = pushed]
          BY <3>2, <4>2 DEF DepPushed
        <5> HIDE DEF pushed
        <5> QED
          BY <3>2, <5>1 DEF CommandRecords
      <4> QED
        BY <1>3, <4>1, <4>2
    <3> QED
      BY <3>1, <3>3 DEF Touched
  <2>2. \A b \in Reloading : b \in Touched(s) => b \in Touched(s)'
    BY <2>1
  <2> QED
    BY <1>1, <1>5, <2>1, <2>2, KeepsHold DEF ActivationInv
<1>4. CASE DepAborts(s)
  <2>1. untold' = untold \cup Touched(s)
    BY <1>4 DEF DepAborts, Untells
  <2> QED
    BY <1>1, <1>5, <2>1, KeepsHold DEF ActivationInv
<1> QED
  BY <1>3, <1>4

\* What is wiped, copied, activated, unlinked or removed is touched.
LEMMA WorkFollow ==
    ASSUME ActivationInv, NEW s \in Shells,
           Wipes(s) \/ Copies(s) \/ Activates(s) \/ Unlinks(s) \/ RmTrees(s)
    PROVE  FollowInv'
<1>1. /\ \A t \in Shells \ {s} : command'[t] = command[t]
      /\ UNCHANGED <<reloadAsked, loaded, untold>>
  BY DEF Wipes, Copies, Activates, Unlinks, RmTrees, ToPhase, ActivationInv, PackageTypes, ReloadState
<1> SUFFICES ASSUME NEW b \in Reloading
             PROVE  /\ b \in Touched(s) => b \in Touched(s)'
                    /\ b \in Touched(s)' \/ (Follows(b) => Follows(b)')
  BY <1>1, KeepsHold DEF ActivationInv
<1>2. command[s] \in CommandRecords /\ b \in Bundles
  BY PackagesAssumption DEF ActivationInv, PackageTypes
<1>3. CASE Wipes(s) \/ Copies(s)
  <2>1. /\ command'[s].kinds = command[s].kinds /\ command'[s].phase \in {"copy", "activate"}
        /\ command[s].phase \in {"deps", "copy"} /\ command'[s].stack = command[s].stack
    BY <1>2, <1>3 DEF Wipes, Copies, ToPhase, ActivationInv, PackageTypes, CommandRecords
  <2>2. Touched(s)' = Reloading \cap (command[s].kinds \cup {Frame(s).bundle}) /\ Touched(s) \subseteq Touched(s)'
    BY <2>1 DEF Touched, Frame
  <2>3. b # Frame(s).bundle => (Follows(b) <=> Follows(b)')
    BY <1>1, <1>2, <1>3 DEF Wipes, Copies, Follows, Installed, ActivationInv, PackageTypes
  <2> QED
    BY <2>2, <2>3
<1>4. CASE Activates(s)
  <2>1. /\ command'[s].kinds = command[s].kinds \cup {Frame(s).bundle}
        /\ command'[s].phase \in {"emit", "deps"} /\ command[s].phase = "activate"
    BY <1>2, <1>4 DEF Activates, ActivationInv, PackageTypes, CommandRecords
  <2>2. Touched(s)' = Reloading \cap (command[s].kinds \cup {Frame(s).bundle}) /\ Touched(s) = Touched(s)'
    BY <2>1 DEF Touched
  <2>3. b # Frame(s).bundle => (Follows(b) <=> Follows(b)')
    BY <1>1, <1>2, <1>4 DEF Activates, Follows, Installed
  <2> QED
    BY <2>2, <2>3
<1>5. CASE Unlinks(s) \/ RmTrees(s)
  <2>1. /\ command'[s].kinds = command[s].kinds /\ command'[s].phase \in {"rmtree", "emit"}
        /\ command[s].phase \in {"unlink", "rmtree"} /\ command[s].kinds = command[s].top
    BY <1>2, <1>5 DEF Unlinks, RmTrees, ToPhase, ActivationInv, PackageTypes, FrameInv, CommandRecords
  <2>2. Touched(s)' = Reloading \cap command[s].top /\ Touched(s) = Touched(s)'
    BY <2>1 DEF Touched
  <2>3. b \notin command[s].top => (Follows(b) <=> Follows(b)')
    BY <1>1, <1>2, <1>5 DEF Unlinks, RmTrees, Follows, Installed
  <2> QED
    BY <2>2, <2>3
<1> QED
  BY <1>3, <1>4, <1>5

\* At its end a command asks for the reload that it owes, or leaves untold what
\* it has touched.
LEMMA EndsFollow ==
    ASSUME ActivationInv, NEW s \in Shells, EmitsReload(s) \/ EndsUntold(s) \/ Killed(s)
    PROVE  FollowInv'
<1>1. CASE EmitsReload(s)
  <2>1. /\ \A t \in Shells \ {s} : command'[t] = command[t]
        /\ UNCHANGED <<loaded, slots, staged, untold>> /\ reloadAsked' = (reloadAsked \/ Reloads(s))
    BY <1>1 DEF EmitsReload, ActivationInv, PackageTypes, Staging
  <2>2. ~reloadAsked' => Touched(s) = {}
    BY <1>1, <2>1 DEF EmitsReload, Reloads, Touched
  <2> QED
    BY <2>1, <2>2, KeepsHold DEF ActivationInv, Follows, Installed
<1>2. CASE EndsUntold(s) \/ Killed(s)
  <2>1. /\ \A t \in Shells \ {s} : command'[t] = command[t]
        /\ UNCHANGED <<reloadAsked, loaded, slots>> /\ untold' = untold \cup Touched(s)
    BY <1>2 DEF EndsUntold, Killed, Untells, ActivationInv, PackageTypes, Staging, ReloadState
  <2>2. \A b \in Reloading \ Touched(s) : Follows(b) => Follows(b)'
    <3>1. CASE staged' = staged
      BY <2>1, <3>1 DEF Follows, Installed
    <3>2. CASE command[s].phase = "copy" /\ staged' = [staged EXCEPT ![Frame(s).bundle] = Broken]
      <4>1. Frame(s).bundle \in Reloading => Frame(s).bundle \in Touched(s)
        BY <3>2 DEF Touched
      <4>2. ASSUME NEW b \in Reloading \ {Frame(s).bundle} PROVE staged'[b] = staged[b]
        BY <3>2 DEF ActivationInv, PackageTypes
      <4> QED
        BY <2>1, <4>1, <4>2 DEF Follows, Installed
    <3> QED
      BY <1>2, <3>1, <3>2 DEF EndsUntold, Killed, Staging
  <2> QED
    BY <2>1, <2>2, KeepsHold, PackagesAssumption DEF ActivationInv
<1> QED
  BY <1>1, <1>2

\* A reload loads what is activated; an edition changes nothing of it, and
\* another's request for a reload neither.
LEMMA OutsideFollow ==
    ASSUME ActivationInv, KernelReloads \/ BatchEmits \/ \E b \in Bundles : Publishes(b)
    PROVE  ActivationInv'
<1>1. CASE KernelReloads
  BY <1>1 DEF KernelReloads, ActivationInv, PackageTypes, FrameInv, FollowInv, Follows, Staging, Installed
<1>2. ASSUME NEW b \in Bundles, Publishes(b) PROVE ActivationInv'
  <2>1. published' \in [Bundles -> Shipped]
    BY <1>2, PackagesAssumption DEF Publishes, ActivationInv, PackageTypes, Shipped
  <2>2. UNCHANGED <<staged, slots, command, reloadAsked, loaded, untold>>
    BY <1>2 DEF Publishes, ReloadState
  <2> QED
    BY <2>1, <2>2 DEF ActivationInv, PackageTypes, FrameInv, FollowInv, Follows, Installed, Touched, Frame
<1>3. CASE BatchEmits
  BY <1>3 DEF BatchEmits, ActivationInv, PackageTypes, FrameInv, FollowInv, Staging
<1> QED
  BY <1>1, <1>2, <1>3

-----------------------------------------------------------------------------
(* The packages: their theorems. *)

\* Nothing is installed, and nobody runs.
LEMMA ActivationInvInit == PackagesInit => ActivationInv
<1> SUFFICES ASSUME PackagesInit PROVE ActivationInv
  OBVIOUS
<1>1. PackageTypes /\ FrameInv
  BY NoCommandType, PackagesAssumption DEF PackagesInit, PackageTypes, FrameInv, Shipped, Broken
<1>2. loaded = {} /\ slots = {}
  BY DEF PackagesInit
<1> QED
  BY <1>1, <1>2 DEF ActivationInv, FollowInv, Follows

\* Every step of a shell, of the registry and of the kernel keeps it.
LEMMA ActivationInvNext == ActivationInv /\ [PackagesNext]_packageVars => ActivationInv'
<1> SUFFICES ASSUME ActivationInv, [PackagesNext]_packageVars PROVE ActivationInv'
  OBVIOUS
<1>1. ASSUME NEW s \in Shells, ShellStep(s) PROVE ActivationInv'
  <2>1. PackageTypes' /\ FrameInv'
    BY <1>1, ShellType DEF ActivationInv
  <2>2. FollowInv'
    BY <1>1, BeginsFollow, DepsFollow, WorkFollow, EndsFollow DEF ShellStep
  <2>3. loaded' = loaded
    BY <1>1 DEF ShellStep, InstallsBundle, RemovesBundle, DepSkipped, DepPushed, DepAborts, Wipes,
       Copies, Activates, EmitsReload, EndsUntold, Unlinks, RmTrees, Killed, ReloadState
  <2> QED
    BY <2>1, <2>2, <2>3 DEF ActivationInv
<1>2. CASE UNCHANGED packageVars
  BY <1>2 DEF packageVars, ActivationInv, PackageTypes, FrameInv, FollowInv, Follows, Installed, Touched, Frame
<1> QED
  BY <1>1, <1>2, OutsideFollow DEF PackagesNext

\* paiman.py: the invariant that the next theorem follows from.
THEOREM PackagesInvCorrect == PackagesSpec => []ActivationInv
BY ActivationInvInit, ActivationInvNext, PTL DEF PackagesSpec

\* paiman.py:764-774, 861-872: for any chain of deps, any number of shells and
\* commands that run at once, the kernel ends up with what is activated, but for
\* what a command changed and ended without asking for a reload.
THEOREM FollowsCorrect == PackagesSpec => []KernelFollows
<1>1. ActivationInv => KernelFollows
  BY DEF ActivationInv, FollowInv, Follows, Touched, KernelFollows, NobodyRuns
<1> QED
  BY <1>1, PackagesInvCorrect, PTL

-----------------------------------------------------------------------------
(* The packages: the rest of their types. *)

Restful ==
    /\ slots \subseteq Bundles /\ reloadAsked \in BOOLEAN /\ runs \in 0..PackageRuns
    /\ untold \subseteq Reloading

\* What a reload is for.
LEMMA TouchedReloads == \A s \in Shells : Touched(s) \subseteq Reloading
BY DEF Touched

\* Slots are made for bundles and runs are counted up to their bound.
LEMMA RestfulNext ==
    ASSUME ActivationInv, Restful, [PackagesNext]_packageVars
    PROVE  Restful'
<1>1. ASSUME NEW s \in Shells, NEW b \in Bundles, NEW fetched \in BOOLEAN, InstallsBundle(s, b, fetched)
      PROVE  Restful'
  BY <1>1, PackagesAssumption DEF Restful, InstallsBundle, BeginsCommand, Staging, ReloadState
<1>2. ASSUME NEW s \in Shells, NEW b \in Bundles, NEW force \in BOOLEAN, RemovesBundle(s, b, force)
      PROVE  Restful'
  BY <1>2, PackagesAssumption DEF Restful, RemovesBundle, BeginsCommand, Staging, ReloadState
<1>3. ASSUME NEW s \in Shells,
             DepSkipped(s) \/ DepPushed(s) \/ DepAborts(s) \/ Wipes(s) \/ Copies(s) \/ Unlinks(s)
             \/ RmTrees(s) \/ Killed(s) \/ EmitsReload(s) \/ EndsUntold(s)
      PROVE  Restful'
  BY <1>3, TouchedReloads DEF Restful, DepSkipped, DepPushed, DepAborts, Wipes, Copies, Unlinks, RmTrees, Killed,
              EmitsReload, EndsUntold, Untells, Staging, ReloadState
<1>4. ASSUME NEW s \in Shells, Activates(s) PROVE Restful'
  <2>1. Frame(s).bundle \in Bundles
    BY <1>4, FrameType DEF ActivationInv, Activates
  <2> QED
    BY <1>4, <2>1 DEF Restful, Activates, ReloadState
<1>5. CASE KernelReloads \/ BatchEmits \/ \E b \in Bundles : Publishes(b)
  BY <1>5 DEF Restful, KernelReloads, BatchEmits, Publishes, Staging, ReloadState
<1>6. CASE UNCHANGED packageVars
  BY <1>6 DEF Restful, packageVars
<1>7. ASSUME NEW s \in Shells, ShellStep(s) PROVE Restful'
  BY <1>1, <1>2, <1>3, <1>4, <1>7 DEF ShellStep
<1>8. CASE PackagesNext
  BY <1>5, <1>7, <1>8 DEF PackagesNext
<1> QED
  BY <1>6, <1>8

\* The invariant of the packages with the rest of their types.
PackagesInv == ActivationInv /\ Restful

LEMMA PackagesInvInit == PackagesInit => PackagesInv
<1> SUFFICES ASSUME PackagesInit PROVE PackagesInv
  OBVIOUS
<1>1. slots = {} /\ runs = 0 /\ reloadAsked = FALSE /\ untold = {}
  BY Zenon DEF PackagesInit
<1>2. 0 \in 0..PackageRuns
  BY PackagesAssumption
<1>3. Restful
  BY <1>1, <1>2, Zenon DEF Restful
<1> QED
  BY <1>3, ActivationInvInit DEF PackagesInv

LEMMA PackagesInvNext == PackagesInv /\ [PackagesNext]_packageVars => PackagesInv'
  BY ActivationInvNext, RestfulNext DEF PackagesInv

LEMMA PackagesTyped == PackagesInv => PackagesTypeOK
<1> SUFFICES ASSUME PackagesInv PROVE PackagesTypeOK
  OBVIOUS
<1>1. ASSUME NEW s \in Shells
      PROVE  /\ command[s].op \in {"none", "install", "remove"}
             /\ command[s].phase \in {"done", "deps", "copy", "activate", "unlink", "rmtree", "emit"}
             /\ \A i \in 1..Len(command[s].stack) : command[s].stack[i].bundle \in Bundles
             /\ command[s].seen \subseteq Bundles /\ command[s].kinds \subseteq Bundles
  <2>1. command[s] \in CommandRecords /\ command[s].stack \in Seq(Frames)
    BY DEF PackagesInv, ActivationInv, PackageTypes, CommandRecords
  <2>2. \A i \in 1..Len(command[s].stack) : command[s].stack[i] \in Frames
    BY <2>1
  <2> QED
    BY <2>1, <2>2 DEF CommandRecords, Frames
<1> QED
  BY <1>1 DEF PackagesInv, ActivationInv, PackageTypes, Restful, PackagesTypeOK

\* paiman.py: what is staged is a version that was shipped, a broken copy or
\* nothing, and every command walks frames of bundles.
THEOREM PackagesTypeCorrect == PackagesSpec => []PackagesTypeOK
<1>1. PackagesSpec => []PackagesInv
  BY PackagesInvInit, PackagesInvNext, PTL DEF PackagesSpec
<1> QED
  BY <1>1, PackagesTyped, PTL

-----------------------------------------------------------------------------
(* The machine. *)

MachineInv ==
    /\ part \in Parts
    /\ DriverInv /\ FleetInv /\ HubInv /\ HubEvents /\ PackagesInv /\ RelInv /\ RelTypes

LEMMA MachineInvInit == Init => MachineInv
  BY DriverInit, FleetInvInit, HubInvInit, HubEventsInit, PackagesInvInit, RelInvInit, RelTypesInit
     DEF Init, MachineInv

\* A step of one part leaves the others' variables as they are.
LEMMA MachineInvNext == MachineInv /\ [Next]_machineVars => MachineInv'
<1> SUFFICES ASSUME MachineInv, [Next]_machineVars PROVE MachineInv'
  OBVIOUS
<1>1. /\ [DriversNext]_drvVars /\ [FleetNext]_fleetVars /\ [HubNext]_hubVars
      /\ [PackagesNext]_packageVars /\ [ReleasesNext]_relVars /\ part' = part
  BY DEF Next, machineVars
<1> QED
  BY <1>1, DriverNext, FleetInvNext, HubInvNext, HubEventsNext, PackagesInvNext, RelInvNext, RelTypesNext
     DEF MachineInv

\* The types of all parts, for any drivers, fleets, packages, versions, topics
\* and bounds.
THEOREM MachineTypeCorrect == Spec => []MachineTypeOK
<1>1. MachineInv => MachineTypeOK
  BY DriversTyped, HubTyped, PackagesTyped, ReleasesTyped DEF MachineInv, FleetInv, MachineTypeOK
<1> QED
  BY <1>1, MachineInvInit, MachineInvNext, PTL DEF Spec
=============================================================================
