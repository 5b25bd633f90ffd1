------------------------------- MODULE Timers -------------------------------
(***************************************************************************)
(* The kernel's timer heap and the specs on disk it stands for.            *)
(*                                                                         *)
(* Other programs (paicron, a PAI's shell, the owner's editor) write       *)
(* proc/<slug>/spec.yaml and status; the proc-watcher turns each write     *)
(* into a notice and re-arms the heap from the files; the main loop drains *)
(* what is due, computes how long to sleep, and sleeps until then or until *)
(* an event comes.  Watcher and main loop are tasks of one asyncio loop:   *)
(* the watcher runs only while the main loop is suspended in an await      *)
(* (Awaiting).  The writers are other processes and may write at any time. *)
(* The heap dies with the kernel and is rebuilt from the files at boot.    *)
(*                                                                         *)
(* Times are 0..Horizon; a cron expression is the set of its ticks.  A     *)
(* heartbeat is an entry of the same heap: NudgeTurns has its behaviour.   *)
(***************************************************************************)
EXTENDS Naturals, Sequences, FiniteSets

CONSTANTS Procs,      \* slugs under proc/
          SpecsOf,    \* SpecsOf[p]: what p's spec.yaml may ever contain
          Horizon,    \* bound: the last instant considered
          MaxWrites,  \* bound: writes by other programs
          MaxBoots    \* bound: kernel lives after the first

Time == 0..Horizon

\* A spec: its schedule, the instants the schedule names, its deadline (a
\* set of at most one instant) and whether it has `run:`.  "junk" stands
\* for a schedule that no parser accepts.
SpecShape == [sched : {"none", "cron", "once", "junk"},
              at : SUBSET Time, deadline : SUBSET Time, run : BOOLEAN]

ASSUME TimersAssumption ==
    /\ Horizon \in Nat /\ MaxWrites \in Nat /\ MaxBoots \in Nat
    /\ SpecsOf \in [Procs -> SUBSET SpecShape]
    /\ \A p \in Procs : \A s \in SpecsOf[p] :
          /\ \A d, e \in s.deadline : d = e
          /\ s.sched \in {"none", "junk"} => s.at = {}
          /\ s.sched = "once" => \A t, u \in s.at : t = u

VARIABLES
    now,      \* the wall clock
    spec,     \* spec[p]: the content of proc/p/spec.yaml
    status,   \* status[p]: no directory, no status file yet, or its word
    heap,     \* heap[p][t]: entries for slug p at time t in the timer heap
    notices,  \* the proc-watcher's queue, one per file written
    watcher,  \* the watchdog observer: "off", "on" or "dead"
    loop,     \* where the kernel's main loop is
    firing,   \* the _handle_timer call that awaits a fork, if any
    drainTo,  \* the `now` that _drain_elapsed_timers was called with
    wakeAt,   \* when the loop's sleep ends (Never: it waits for an event)
    unseen,   \* specs written while the kernel was up and not observing
    fired,    \* fired[p][t]: fires of p's present life by its entry at t
    writes, boots

disk == <<spec, status>>
bounds == <<writes, boots>>
vars == <<now, disk, heap, notices, watcher, loop, firing, drainTo, wakeAt, unseen, fired, bounds>>

Never == Horizon + 1
Active == {"scheduled", "running"}
Awaiting == {"booting", "firing", "waiting", "handling"}
Up == Awaiting \cup {"top", "draining"}

NoEntries == [t \in Time |-> 0]

TypeOK ==
    /\ now \in Time
    /\ spec \in [Procs -> SpecShape]
    /\ status \in [Procs -> {"absent", "partial", "scheduled", "running", "over"}]
    /\ heap \in [Procs -> [Time -> Nat]]
    /\ notices \in Seq(Procs \X {"spec", "status"})
    /\ watcher \in {"off", "on", "dead"}
    /\ loop \in Up \cup {"down", "failed"}
    /\ firing \in SUBSET [proc : Procs, next : SUBSET Time]
    /\ drainTo \in Time /\ wakeAt \in Time \cup {Never}
    /\ unseen \subseteq Procs
    /\ fired \in [Procs -> [Time -> Nat]]
    /\ writes \in Nat /\ boots \in Nat

Init ==
    /\ now = 0
    /\ spec = [p \in Procs |-> [sched |-> "none", at |-> {}, deadline |-> {}, run |-> FALSE]]
    /\ status = [p \in Procs |-> "absent"]
    /\ heap = [p \in Procs |-> NoEntries]
    /\ notices = <<>> /\ watcher = "off" /\ loop = "booting" /\ firing = {}
    /\ drainTo = 0 /\ wakeAt = Never /\ unseen = {}
    /\ fired = [p \in Procs |-> NoEntries]
    /\ writes = 0 /\ boots = 0

-----------------------------------------------------------------------------
(* Reading a spec. *)

\* parse_schedule: the next instant of the schedule after n, if it has one.
NextFire(s, n) == {t \in s.at : t > n /\ \A u \in s.at : u > n => t <= u}

\* Mutant of Due: the deadline is not read.
ScheduleOnly(s, n) == NextFire(s, n)
\* What arming s at n puts into the heap: a deadline hides the schedule.
Due(s, n) == IF s.deadline # {} THEN s.deadline ELSE NextFire(s, n)

Parses(s) == s.sched # "junk"

IsTimer(s) == s.sched # "none" \/ (s.deadline # {} /\ ~s.run)

-----------------------------------------------------------------------------
(* The heap. *)

Push(h, p, S) == [h EXCEPT ![p] = [t \in Time |-> h[p][t] + (IF t \in S THEN 1 ELSE 0)]]
\* Mutant of Pop: the next entry goes with it.
PopTwo(h, p, t) == [h EXCEPT ![p][t] = @ - 2]
Pop(h, p, t) == [h EXCEPT ![p][t] = @ - 1]
RemoveAll(h, p) == [h EXCEPT ![p] = NoEntries]

Armed(p) == \E t \in Time : heap[p][t] > 0

\* <<p, t>> is an entry that heapq may have on top.
Top(p, t) == heap[p][t] > 0 /\ \A q \in Procs, u \in Time : heap[q][u] > 0 => t <= u

-----------------------------------------------------------------------------
(* Writers.  Every write that the observer sees becomes a notice. *)

Notify(p, file) ==
    /\ notices' = IF watcher = "on" THEN Append(notices, <<p, file>>) ELSE notices
    /\ unseen' = IF loop \in Up /\ watcher # "on" THEN unseen \cup {p} ELSE unseen

Write == writes < MaxWrites /\ writes' = writes + 1 /\ UNCHANGED boots

KernelIdle == UNCHANGED <<now, heap, watcher, loop, firing, drainTo, wakeAt>>

\* spawn writes spec.yaml first and status afterwards.
SpawnSpec(p, s) ==
    /\ status[p] = "absent" /\ Write
    /\ spec' = [spec EXCEPT ![p] = s]
    /\ status' = [status EXCEPT ![p] = "partial"]
    /\ fired' = [fired EXCEPT ![p] = NoEntries]
    /\ Notify(p, "spec") /\ KernelIdle

SpawnStatus(p) ==
    /\ status[p] = "partial"
    /\ status' = [status EXCEPT ![p] = IF IsTimer(spec[p]) THEN "scheduled" ELSE "running"]
    /\ Notify(p, "status") /\ KernelIdle
    /\ UNCHANGED <<spec, fired, bounds>>

Rewrite(p, s) ==
    /\ status[p] # "absent" /\ s # spec[p] /\ Write
    /\ spec' = [spec EXCEPT ![p] = s]
    /\ Notify(p, "spec") /\ KernelIdle
    /\ UNCHANGED <<status, fired>>

Cancel(p) ==
    /\ status[p] \in Active /\ Write
    /\ status' = [status EXCEPT ![p] = "over"]
    /\ Notify(p, "status") /\ KernelIdle
    /\ UNCHANGED <<spec, fired>>

\* Deleting the directory of a resolved proc (paicron ensure): the handler
\* has no on_deleted, so this alone is not noticed.
Remove(p) ==
    /\ status[p] = "over" /\ Write
    /\ status' = [status EXCEPT ![p] = "absent"]
    /\ KernelIdle
    /\ UNCHANGED <<spec, notices, unseen, fired>>

\* A supervised subprocess ends and its proc is resolved.
ServiceExit(p) ==
    /\ loop \in Awaiting /\ status[p] = "running"
    /\ status' = [status EXCEPT ![p] = "over"]
    /\ Notify(p, "status") /\ KernelIdle
    /\ UNCHANGED <<spec, fired, bounds>>

Tick ==
    /\ now < Horizon /\ now' = now + 1
    /\ UNCHANGED <<disk, heap, notices, watcher, loop, firing, drainTo, wakeAt, unseen, fired, bounds>>

-----------------------------------------------------------------------------
(* The proc-watcher: one notice from the queue to the heap. *)

Watching == loop \in Awaiting /\ watcher = "on" /\ notices # <<>>

WatchRest == UNCHANGED <<now, disk, loop, firing, drainTo, wakeAt, fired, bounds>>

\* Mutant of WatchArms: no removal before the push.
WatchStacks ==
    /\ Watching
    /\ LET p == Head(notices)[1] IN
          /\ status[p] \in Active /\ Parses(spec[p])
          /\ heap' = Push(heap, p, Due(spec[p], now))
          /\ unseen' = unseen \ {p}
    /\ notices' = Tail(notices)
    /\ UNCHANGED watcher /\ WatchRest

\* _schedule_spec on an active proc: drop what the heap holds, arm anew.
WatchArms ==
    /\ Watching
    /\ LET p == Head(notices)[1] IN
          /\ status[p] \in Active /\ Parses(spec[p])
          /\ heap' = Push(RemoveAll(heap, p), p, Due(spec[p], now))
          /\ unseen' = unseen \ {p}
    /\ notices' = Tail(notices)
    /\ UNCHANGED watcher /\ WatchRest

\* A resolved proc, or a status file that is gone: nothing to wait for.
WatchDrops ==
    /\ Watching
    /\ LET p == Head(notices)[1] IN
          /\ \/ status[p] = "over"
             \/ status[p] \in {"absent", "partial"} /\ Head(notices)[2] = "status"
          /\ heap' = RemoveAll(heap, p)
          /\ unseen' = unseen \ {p}
    /\ notices' = Tail(notices)
    /\ UNCHANGED watcher /\ WatchRest

\* A new spec whose status is not written yet.
WatchSkips ==
    /\ Watching
    /\ status[Head(notices)[1]] \in {"absent", "partial"} /\ Head(notices)[2] = "spec"
    /\ notices' = Tail(notices)
    /\ UNCHANGED <<heap, unseen, watcher>> /\ WatchRest

\* The parser raises after the removal: the watcher's task ends for good.
WatchRaises ==
    /\ Watching
    /\ LET p == Head(notices)[1] IN
          /\ status[p] \in Active /\ ~Parses(spec[p])
          /\ heap' = RemoveAll(heap, p)
    /\ notices' = <<>> /\ watcher' = "dead"
    /\ UNCHANGED unseen /\ WatchRest

-----------------------------------------------------------------------------
(* The main loop. *)

LoopRest == UNCHANGED <<now, spec, writes, boots>>

\* Mutant of Round: `now` is read once, before the loop.
RoundStale ==
    /\ loop = "top" /\ loop' = "draining"
    /\ UNCHANGED <<status, heap, notices, watcher, firing, drainTo, wakeAt, unseen, fired>> /\ LoopRest

Round ==
    /\ loop = "top" /\ loop' = "draining" /\ drainTo' = now
    /\ UNCHANGED <<status, heap, notices, watcher, firing, wakeAt, unseen, fired>> /\ LoopRest

\* _drain_elapsed_timers pops the first entry and _handle_timer reads the
\* proc's files as they are now.
Elapsed(p, t) == loop = "draining" /\ Top(p, t) /\ t <= drainTo

Fire(p, t) == fired' = [fired EXCEPT ![p][t] = @ + 1]

Handling(p, t) == Elapsed(p, t) /\ status[p] \in Active /\ Parses(spec[p])

Resolve(p) == status' = [status EXCEPT ![p] = "over"] /\ Notify(p, "status")

PopRest == UNCHANGED <<watcher, drainTo, wakeAt>> /\ LoopRest

PopStale(p, t) ==
    /\ Elapsed(p, t) /\ status[p] \notin Active
    /\ heap' = Pop(heap, p, t)
    /\ UNCHANGED <<status, notices, unseen, loop, firing, fired>> /\ PopRest

PopJunk(p, t) ==
    /\ Elapsed(p, t) /\ status[p] \in Active /\ ~Parses(spec[p])
    /\ heap' = Pop(heap, p, t)
    /\ Resolve(p)
    /\ UNCHANGED <<loop, firing, fired>> /\ PopRest

CronNudge(p, t) ==
    /\ Handling(p, t) /\ spec[p].sched = "cron" /\ ~spec[p].run
    /\ Fire(p, t)
    /\ heap' = Push(Pop(heap, p, t), p, NextFire(spec[p], now))
    /\ UNCHANGED <<status, notices, unseen, loop, firing>> /\ PopRest

\* fire_once awaits the fork; the next fire was computed before it.
CronRun(p, t) ==
    /\ Handling(p, t) /\ spec[p].sched = "cron" /\ spec[p].run
    /\ Fire(p, t)
    /\ heap' = Pop(heap, p, t)
    /\ firing' = {[proc |-> p, next |-> NextFire(spec[p], now)]}
    /\ loop' = "firing"
    /\ UNCHANGED <<status, notices, unseen>> /\ PopRest

\* Mutant of OnceNudge: the proc is not resolved.
OnceNudgeStays(p, t) ==
    /\ Handling(p, t) /\ spec[p].sched = "once" /\ ~spec[p].run
    /\ Fire(p, t)
    /\ heap' = Pop(heap, p, t)
    /\ UNCHANGED <<status, notices, unseen, loop, firing>> /\ PopRest

OnceNudge(p, t) ==
    /\ Handling(p, t) /\ spec[p].sched = "once" /\ ~spec[p].run
    /\ Fire(p, t)
    /\ heap' = Pop(heap, p, t)
    /\ Resolve(p)
    /\ UNCHANGED <<loop, firing>> /\ PopRest

\* supervisor.start marks the proc running, then awaits the fork.
OnceRun(p, t) ==
    /\ Handling(p, t) /\ spec[p].sched = "once" /\ spec[p].run
    /\ Fire(p, t)
    /\ heap' = Pop(heap, p, t)
    /\ status' = [status EXCEPT ![p] = "running"]
    /\ IF status[p] = "running" THEN UNCHANGED <<notices, unseen>> ELSE Notify(p, "status")
    /\ firing' = {[proc |-> p, next |-> {}]}
    /\ loop' = "firing"
    /\ PopRest

Expire(p, t) ==
    /\ Handling(p, t) /\ spec[p].sched = "none"
    /\ Fire(p, t)
    /\ heap' = Pop(heap, p, t)
    /\ Resolve(p)
    /\ UNCHANGED <<loop, firing>> /\ PopRest

\* The fork is done: a cron pushes the fire time it had computed.
FireDone ==
    /\ loop = "firing" /\ loop' = "draining" /\ firing' = {}
    /\ \E f \in firing : heap' = Push(heap, f.proc, f.next)
    /\ UNCHANGED <<status, notices, unseen, fired>> /\ PopRest

\* The fork raises: _drain_elapsed_timers resolves the proc, if it is there.
FireFails ==
    /\ loop = "firing" /\ loop' = "draining" /\ firing' = {}
    /\ \E f \in firing : IF status[f.proc] = "absent"
                         THEN UNCHANGED <<status, notices, unseen>>
                         ELSE Resolve(f.proc)
    /\ UNCHANGED <<heap, fired>> /\ PopRest

\* Nothing is due: the sleep is computed once, before the wait.
Sleep ==
    /\ loop = "draining" /\ loop' = "waiting"
    /\ \A p \in Procs, t \in Time : heap[p][t] > 0 => t > drainTo
    /\ \/ (\A p \in Procs : ~Armed(p)) /\ wakeAt' = Never
       \/ \E p \in Procs, t \in Time : Top(p, t) /\ wakeAt' = t
    /\ UNCHANGED <<status, heap, notices, watcher, firing, drainTo, unseen, fired>> /\ LoopRest

Step(from, to) ==
    /\ loop = from /\ loop' = to
    /\ UNCHANGED <<status, heap, notices, watcher, firing, drainTo, wakeAt, unseen, fired>> /\ LoopRest

WakeTimer == wakeAt <= now /\ Step("waiting", "top")
WakeEvent == Step("waiting", "handling")
Handled == Step("handling", "top")

-----------------------------------------------------------------------------
(* Lives of the kernel. *)

Die ==
    /\ loop' = "down" /\ boots < MaxBoots /\ boots' = boots + 1
    /\ heap' = [p \in Procs |-> NoEntries]
    /\ notices' = <<>> /\ firing' = {} /\ watcher' = "off"
    /\ UNCHANGED <<now, spec, drainTo, wakeAt, unseen, fired, writes>>

Crash == loop \in Up /\ Die /\ UNCHANGED status

\* An orderly shutdown resolves running procs, except what has a schedule.
Shutdown ==
    /\ loop \in Awaiting /\ Die
    /\ status' = [p \in Procs |-> IF status[p] = "running" /\ spec[p].sched = "none"
                                  THEN "over" ELSE status[p]]

BootRest == UNCHANGED <<now, disk, notices, watcher, firing, drainTo, wakeAt, fired, bounds>>

Unparsable == \E p \in Procs : status[p] \in Active /\ ~Parses(spec[p])

\* Mutant of Boot: only what is "running" is re-armed.
BootRunningOnly ==
    /\ loop \in {"down", "failed"} /\ loop' = "booting" /\ ~Unparsable
    /\ heap' = [p \in Procs |-> [t \in Time |->
                  IF status[p] = "running" /\ t \in Due(spec[p], now) THEN 1 ELSE 0]]
    /\ unseen' = {}
    /\ BootRest

\* rebuild_from_proc, before the observer is started.
Boot ==
    /\ loop \in {"down", "failed"} /\ loop' = "booting" /\ ~Unparsable
    /\ heap' = [p \in Procs |-> [t \in Time |->
                  IF status[p] \in Active /\ t \in Due(spec[p], now) THEN 1 ELSE 0]]
    /\ unseen' = {}
    /\ BootRest

BootRaises ==
    /\ loop = "down" /\ loop' = "failed" /\ Unparsable
    /\ UNCHANGED <<heap, unseen>> /\ BootRest

Booted == Step("booting", "top")

\* The proc-watcher's task runs for the first time.
StartObserver ==
    /\ loop \in Awaiting /\ watcher = "off" /\ watcher' = "on"
    /\ UNCHANGED <<now, disk, heap, notices, loop, firing, drainTo, wakeAt, unseen, fired, bounds>>

-----------------------------------------------------------------------------
Writers ==
    \/ \E p \in Procs : \/ \E s \in SpecsOf[p] : SpawnSpec(p, s) \/ Rewrite(p, s)
                        \/ SpawnStatus(p) \/ Cancel(p) \/ Remove(p) \/ ServiceExit(p)
    \/ Tick

Watcher == WatchArms \/ WatchDrops \/ WatchSkips \/ WatchRaises

HandleTimer ==
    \E p \in Procs, t \in Time :
        \/ PopStale(p, t) \/ PopJunk(p, t) \/ CronNudge(p, t) \/ CronRun(p, t)
        \/ OnceNudge(p, t) \/ OnceRun(p, t) \/ Expire(p, t)

MainLoop == Round \/ HandleTimer \/ FireDone \/ FireFails \/ Sleep \/ WakeTimer \/ Handled \/ Booted

Lives == Crash \/ Shutdown \/ Boot \/ BootRaises \/ StartObserver

Next == Writers \/ Watcher \/ MainLoop \/ WakeEvent \/ Lives

Spec == Init /\ [][Next]_vars

(* Fairness: the asyncio loop resumes each task whose await completed, the *)
(* clock goes on, and the owner's service manager starts a kernel that is  *)
(* down.  Nothing makes an event arrive: WakeEvent has no fairness.        *)
FairSpec ==
    /\ Spec /\ WF_vars(Tick) /\ WF_vars(Watcher) /\ WF_vars(MainLoop)
    /\ WF_vars(Boot) /\ WF_vars(StartObserver)

-----------------------------------------------------------------------------
(* Properties. *)

\* Procs with nothing to fork and one way to be due: reminders that are a
\* schedule, or a deadline, throughout their life.
Reminders == {p \in Procs :
    /\ \A s \in SpecsOf[p] : ~s.run
    /\ \/ \A s \in SpecsOf[p] : s.deadline = {}
       \/ \A s \in SpecsOf[p] : s.sched = "none"}

\* Every due time of a reminder nudges its PAI once: rewrites of the spec,
\* a second arming by the watcher, or a restart that rebuilds the heap from
\* files that still say "scheduled" never repeat a nudge.
NoDoubleFire == \A p \in Reminders, t \in Time : fired[p][t] <= 1

\* What an active spec still wants to be woken for.  A schedule next to a
\* deadline is hidden by it (_schedule_spec arms the deadline only).
Owed(p) == IF spec[p].deadline = {} THEN NextFire(spec[p], now)
           ELSE IF spec[p].sched = "none" THEN spec[p].deadline ELSE {}

Noticed(p) == \E i \in 1..Len(notices) : notices[i][1] = p

\* While the watcher lives, every active proc is in the heap no later than
\* its spec says, or that is on its way: a notice of it waits in the queue,
\* or it is a cron whose subprocess is being forked.
TimerKept ==
    loop \in Up /\ watcher = "on" =>
        \A p \in Procs \ unseen :
            status[p] \in Active /\ Parses(spec[p]) =>
                \/ \A d \in Owed(p) : \E t \in Time : t <= d /\ heap[p][t] > 0
                \/ Noticed(p)
                \/ \E f \in firing : f.proc = p

\* An entry that the loop's sleep covers does not stay in the heap.
AwakeFires ==
    \A p \in Procs : \A t \in Time :
        (heap[p][t] > 0 /\ loop = "waiting" /\ wakeAt <= t) ~> (heap[p][t] = 0)

\* A reminder that was armed is delivered or resolved some day, unless a
\* file of it is touched meanwhile or the kernel goes down.  A timer armed
\* during the loop's sleep does not end the sleep, so this needs events
\* that keep arriving; AwakeFires does not.
EventsArrive == []<>(loop = "handling")
ArmedFires ==
    EventsArrive =>
        \A p \in Reminders :
            (Armed(p) /\ status[p] = "scheduled" /\ ~Noticed(p))
                ~> (status[p] # "scheduled" \/ spec[p].sched = "cron" \/ Noticed(p) \/ loop \notin Up)
=============================================================================
