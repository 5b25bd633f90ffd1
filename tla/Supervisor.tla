----------------------------- MODULE Supervisor -----------------------------
(***************************************************************************)
(* Background services: who forks the subprocess of a proc with `run:`,    *)
(* who waits for it, restarts it or resolves its proc, and how it is       *)
(* stopped.                                                                *)
(*                                                                         *)
(* Four kinds of coroutine call supervisor.start: the proc-watcher (one    *)
(* task, one notice at a time), the waiter of an earlier child, the main   *)
(* loop when a deferred service comes due, and the boot-resume.  start     *)
(* tests _handles, awaits the fork, and only then enters the child into    *)
(* _handles: forks holds the calls that are between the two.  Writers of   *)
(* spec and status are other processes.                                    *)
(***************************************************************************)
EXTENDS Naturals, Sequences, FiniteSets

CONSTANTS Services,    \* slugs whose spec has `run:`
          Policy,      \* Policy[p]: `restart:` of p
          Deferred,    \* services with a one-shot `schedule:` too
          Stable,      \* services that may live longer than _STABLE_SECS
          CrashBudget, \* _CRASH_BUDGET
          MaxKids,     \* bound: children of one slug, or waiters for them
          MaxWrites, MaxLives, \* bounds: writes by others, kernel lives
          None

Kids == Services \X (1..MaxKids)

ASSUME SupervisorAssumption ==
    /\ Policy \in [Services -> {"never", "on-failure", "always"}]
    /\ Deferred \subseteq Services /\ Stable \subseteq Services
    /\ CrashBudget \in Nat \ {0} /\ MaxKids \in Nat \ {0}
    /\ MaxWrites \in Nat /\ MaxLives \in Nat
    /\ None \notin Kids

VARIABLES
    status,   \* status[p] on disk; "over" is any terminal word
    version,  \* version[p]: how often p was spawned; its spec's identity
    notices,  \* the proc-watcher's queue of slugs
    watcher,  \* what its _maybe_supervise awaits, and for whom
    handle,   \* handle[p]: _handles[p], or None
    alive,    \* children that run
    signalled,\* children sent SIGTERM: they are killed after the grace
    runs,     \* runs[k]: the version of the spec that child k runs
    waiter,   \* waiter[k]: where the _await_exit task made with k is
    target,   \* target[k]: the child that task awaits
    crashes,  \* crashes[p]: _crashes, consecutive rapid exits
    forks,    \* calls of start between the _handles test and the fork's end
    kernel,   \* "up", "stopping", "down" or "booting"
    todo,     \* slugs that shutdown or resume_from_disk has still to visit
    awaited,  \* the child whose exit shutdown's stop awaits, or None
    writes, lives

children == <<handle, alive, signalled, runs, waiter, target, crashes, forks>>
bounds == <<writes, lives>>
phase == <<kernel, todo, awaited>>
vars == <<status, version, notices, watcher, children, phase, bounds>>

Idle == [at |-> "idle"]
Stopping(k) == [at |-> "stopping", kid |-> k]
Task(name) == <<name, 0>>
Callers == {Task("watcher"), Task("main"), Task("boot")} \cup Kids

TypeOK ==
    /\ status \in [Services -> {"absent", "scheduled", "running", "over"}]
    /\ version \in [Services -> Nat]
    /\ notices \in Seq(Services)
    /\ watcher \in {Idle, [at |-> "forking"], [at |-> "off"]} \cup {Stopping(k) : k \in Kids}
    /\ handle \in [Services -> Kids \cup {None}]
    /\ alive \subseteq Kids /\ signalled \subseteq alive
    /\ runs \in [Kids -> Nat]
    /\ waiter \in [Kids -> {"none", "new", "waiting", "backoff", "forking"}]
    /\ target \in [Kids -> Kids \cup {None}]
    /\ crashes \in [Services -> 0..CrashBudget - 1]
    /\ forks \subseteq [by : Callers, slug : Services, spec : Nat]
    /\ kernel \in {"up", "stopping", "down", "booting"}
    /\ todo \subseteq Services /\ awaited \in Kids \cup {None}
    /\ writes \in Nat /\ lives \in Nat

Init ==
    /\ status = [p \in Services |-> "absent"]
    /\ version = [p \in Services |-> 0]
    /\ notices = <<>> /\ watcher = Idle
    /\ handle = [p \in Services |-> None]
    /\ alive = {} /\ signalled = {}
    /\ runs = [k \in Kids |-> 0]
    /\ waiter = [k \in Kids |-> "none"]
    /\ target = [k \in Kids |-> None]
    /\ crashes = [p \in Services |-> 0]
    /\ forks = {} /\ kernel = "up" /\ todo = {} /\ awaited = None
    /\ writes = 0 /\ lives = 0

Tracked(p) == handle[p] # None
Watched == kernel \in {"up", "stopping"} /\ watcher.at # "off"

-----------------------------------------------------------------------------
(* Writers: paicron, a PAI's shell, the owner's editor. *)

Notify(p) == notices' = IF Watched THEN Append(notices, p) ELSE notices

Write == writes < MaxWrites /\ writes' = writes + 1
         /\ UNCHANGED <<watcher, children, phase, lives>>

Spawn(p) ==
    /\ status[p] = "absent" /\ Write
    /\ status' = [status EXCEPT ![p] = IF p \in Deferred THEN "scheduled" ELSE "running"]
    /\ version' = [version EXCEPT ![p] = @ + 1]
    /\ Notify(p)

Cancel(p) ==
    /\ status[p] \in {"scheduled", "running"} /\ Write
    /\ status' = [status EXCEPT ![p] = "over"]
    /\ Notify(p) /\ UNCHANGED version

\* paicron ensure deletes the directory of what it has cancelled, then
\* spawns the slug again; deletions are not reported to the watcher.
Remove(p) ==
    /\ status[p] = "over" /\ Write
    /\ status' = [status EXCEPT ![p] = "absent"]
    /\ UNCHANGED <<version, notices>>

\* spec.yaml or status is written again with what it already says.
Touch(p) ==
    /\ status[p] # "absent" /\ Write
    /\ Notify(p) /\ UNCHANGED <<status, version>>

-----------------------------------------------------------------------------
(* start and stop. *)

\* start returns at once when the slug is tracked; else it marks the proc
\* running if need be and awaits the fork.
BeginStart(by, p, v) ==
    /\ forks' = forks \cup {[by |-> by, slug |-> p, spec |-> v]}
    /\ IF status[p] \in {"running", "absent"} THEN UNCHANGED <<status, notices>>
       ELSE status' = [status EXCEPT ![p] = "running"] /\ Notify(p)

FreeKid(k) ==
    /\ k \notin alive /\ waiter[k] = "none" /\ \A j \in Kids : target[j] # k
    /\ handle[k[1]] # k /\ awaited # k /\ watcher # Stopping(k)

\* The fork is done: a child, its waiter task, its entry in _handles; the
\* caller goes on.
ForkDone ==
    \E f \in forks, k \in Kids :
        /\ kernel # "down" /\ k[1] = f.slug /\ FreeKid(k) /\ status[k[1]] # "absent"
        /\ forks' = forks \ {f}
        /\ alive' = alive \cup {k}
        /\ runs' = [runs EXCEPT ![k] = f.spec]
        /\ waiter' = [j \in Kids |-> IF j = k THEN "new" ELSE IF j = f.by THEN "none" ELSE waiter[j]]
        /\ target' = [j \in Kids |-> IF j = f.by THEN None ELSE target[j]]
        /\ handle' = [handle EXCEPT ![f.slug] = k]
        /\ watcher' = IF f.by = Task("watcher") THEN Idle ELSE watcher
        /\ UNCHANGED <<status, version, notices, signalled, crashes, phase, bounds>>

\* The directory was deleted during the fork: append_log raises, so the
\* child is in no table and its caller's task ends.
ForkOrphans ==
    \E f \in forks, k \in Kids :
        /\ kernel # "down" /\ k[1] = f.slug /\ FreeKid(k) /\ status[k[1]] = "absent"
        /\ f.by # Task("boot")
        /\ forks' = forks \ {f}
        /\ alive' = alive \cup {k}
        /\ runs' = [runs EXCEPT ![k] = f.spec]
        /\ waiter' = [j \in Kids |-> IF j = f.by THEN "none" ELSE waiter[j]]
        /\ target' = [j \in Kids |-> IF j = f.by THEN None ELSE target[j]]
        /\ IF f.by = Task("watcher") THEN watcher' = [at |-> "off"] /\ notices' = <<>>
           ELSE UNCHANGED <<watcher, notices>>
        /\ UNCHANGED <<status, version, handle, signalled, crashes, phase, bounds>>

\* stop sends SIGTERM; its caller then awaits the exit of that child.
Signal(p) == signalled' = signalled \cup ({handle[p]} \cap alive)

Exit(k) ==
    /\ k \in alive /\ kernel # "down"
    /\ alive' = alive \ {k} /\ signalled' = signalled \ {k}
    /\ UNCHANGED <<status, version, notices, watcher, handle, runs, waiter, target, crashes, forks, phase, bounds>>

-----------------------------------------------------------------------------
(* The proc-watcher: _maybe_supervise for one notice. *)

Watching(p) == Watched /\ watcher = Idle /\ notices # <<>> /\ p = Head(notices)

\* Mutant of WatchStarts: _handles is not consulted.
WatchStartsAgain(p) ==
    /\ Watching(p)
    /\ status[p] = "running" /\ p \notin Deferred
    /\ notices' = Tail(notices)
    /\ forks' = forks \cup {[by |-> Task("watcher"), slug |-> p, spec |-> version[p]]}
    /\ watcher' = [at |-> "forking"]
    /\ UNCHANGED <<status, version, handle, alive, signalled, runs, waiter, target, crashes, phase, bounds>>

WatchStarts(p) ==
    /\ Watching(p)
    /\ status[p] = "running" /\ p \notin Deferred /\ ~Tracked(p)
    /\ notices' = Tail(notices)
    /\ forks' = forks \cup {[by |-> Task("watcher"), slug |-> p, spec |-> version[p]]}
    /\ watcher' = [at |-> "forking"]
    /\ UNCHANGED <<status, version, handle, alive, signalled, runs, waiter, target, crashes, phase, bounds>>

WatchStops(p) ==
    /\ Watching(p)
    /\ status[p] # "running" /\ Tracked(p)
    /\ notices' = Tail(notices)
    /\ Signal(p) /\ watcher' = Stopping(handle[p])
    /\ UNCHANGED <<status, version, handle, alive, runs, waiter, target, crashes, forks, phase, bounds>>

\* Mutant of WatchPasses: a proc that is gone is passed over.
WatchPassesGone(p) ==
    /\ Watching(p)
    /\ IF Tracked(p) THEN status[p] \in {"running", "absent"} ELSE status[p] # "running" \/ p \in Deferred
    /\ notices' = Tail(notices)
    /\ UNCHANGED <<status, version, watcher, children, phase, bounds>>

WatchPasses(p) ==
    /\ Watching(p)
    /\ IF Tracked(p) THEN status[p] = "running" ELSE status[p] # "running" \/ p \in Deferred
    /\ notices' = Tail(notices)
    /\ UNCHANGED <<status, version, watcher, children, phase, bounds>>

WatchStopped ==
    /\ watcher.at = "stopping" /\ watcher.kid \notin alive
    /\ watcher' = Idle
    /\ UNCHANGED <<status, version, notices, children, phase, bounds>>

-----------------------------------------------------------------------------
(* _await_exit, the task made with child k. *)

WaiterRest == UNCHANGED <<version, watcher, alive, signalled, runs, phase, bounds>>

Quit(k) ==
    /\ waiter' = [waiter EXCEPT ![k] = "none"]
    /\ target' = [target EXCEPT ![k] = None]

\* It waits for whatever child the slug has when it first runs.
WaiterBegins(k) ==
    /\ waiter[k] = "new"
    /\ IF Tracked(k[1])
       THEN /\ waiter' = [waiter EXCEPT ![k] = "waiting"]
            /\ target' = [target EXCEPT ![k] = handle[k[1]]]
       ELSE Quit(k)
    /\ UNCHANGED <<status, notices, handle, crashes, forks>> /\ WaiterRest

Returned(k) ==
    /\ waiter[k] = "waiting" /\ target[k] \notin alive
    /\ handle' = [handle EXCEPT ![k[1]] = None]
    /\ WaiterRest

\* The proc was resolved by someone else, or its directory is gone.
ExitIgnored(k) ==
    /\ Returned(k) /\ status[k[1]] # "running"
    /\ crashes' = IF status[k[1]] = "absent" THEN crashes ELSE [crashes EXCEPT ![k[1]] = 0]
    /\ Quit(k)
    /\ UNCHANGED <<status, notices, forks>>

Resolve(p) == status' = [status EXCEPT ![p] = "over"] /\ Notify(p)

Restarts(p, failed) == Policy[p] = "always" \/ (Policy[p] = "on-failure" /\ failed)

ExitFinal(k) ==
    /\ Returned(k) /\ status[k[1]] = "running"
    /\ \E failed \in BOOLEAN : ~Restarts(k[1], failed)
    /\ Resolve(k[1]) /\ Quit(k)
    /\ UNCHANGED <<crashes, forks>>

MayRestart(k) ==
    /\ Returned(k) /\ status[k[1]] = "running"
    /\ \E failed \in BOOLEAN : Restarts(k[1], failed)

\* The child had lived long enough: restart at once, with the spec it had.
RestartStable(k) ==
    /\ MayRestart(k) /\ k[1] \in Stable
    /\ crashes' = [crashes EXCEPT ![k[1]] = 0]
    /\ BeginStart(k, k[1], runs[target[k]])
    /\ waiter' = [waiter EXCEPT ![k] = "forking"]
    /\ UNCHANGED target

\* Mutant of BackOff: the counter is cleared by the restart.
BackOffUncounted(k) ==
    /\ MayRestart(k) /\ crashes[k[1]] + 1 < CrashBudget
    /\ crashes' = [crashes EXCEPT ![k[1]] = 0]
    /\ waiter' = [waiter EXCEPT ![k] = "backoff"]
    /\ UNCHANGED <<status, notices, forks, target>>

BackOff(k) ==
    /\ MayRestart(k) /\ crashes[k[1]] + 1 < CrashBudget
    /\ crashes' = [crashes EXCEPT ![k[1]] = @ + 1]
    /\ waiter' = [waiter EXCEPT ![k] = "backoff"]
    /\ UNCHANGED <<status, notices, forks, target>>

GiveUp(k) ==
    /\ MayRestart(k) /\ crashes[k[1]] + 1 >= CrashBudget
    /\ crashes' = [crashes EXCEPT ![k[1]] = 0]
    /\ Resolve(k[1]) /\ Quit(k)
    /\ UNCHANGED forks

BackoffDone(k) ==
    /\ waiter[k] = "backoff"
    /\ IF status[k[1]] = "running" /\ ~Tracked(k[1])
       THEN /\ BeginStart(k, k[1], runs[target[k]])
            /\ waiter' = [waiter EXCEPT ![k] = "forking"]
            /\ UNCHANGED target
       ELSE Quit(k) /\ UNCHANGED <<status, notices, forks>>
    /\ UNCHANGED <<handle, crashes>> /\ WaiterRest

-----------------------------------------------------------------------------
(* The main loop and the lives of the kernel. *)

Forking(name) == \E f \in forks : f.by = Task(name)

\* A deferred service comes due: _handle_timer awaits supervisor.start.
FireDeferred(p) ==
    /\ kernel = "up" /\ ~Forking("main")
    /\ p \in Deferred /\ status[p] = "scheduled" /\ ~Tracked(p)
    /\ BeginStart(Task("main"), p, version[p])
    /\ UNCHANGED <<version, watcher, handle, alive, signalled, runs, waiter, target, crashes, phase, bounds>>

\* SIGTERM, Ctrl-C or kernel:restart: the main task is cancelled, and
\* shutdown stops what is tracked at this moment, one after the other.
Shutdown ==
    /\ kernel = "up" /\ kernel' = "stopping" /\ lives < MaxLives /\ lives' = lives + 1
    /\ todo' = {p \in Services : Tracked(p)}
    /\ forks' = {f \in forks : f.by # Task("main")}
    /\ UNCHANGED <<status, version, notices, watcher, handle, alive, signalled, runs, waiter, target, crashes, awaited, writes>>

\* Mutant of ShutdownStops: the child is awaited, not signalled.
ShutdownWaits(p) ==
    /\ kernel = "stopping" /\ awaited = None /\ p \in todo
    /\ todo' = todo \ {p}
    /\ IF Tracked(p) THEN awaited' = handle[p] ELSE UNCHANGED awaited
    /\ UNCHANGED <<status, version, notices, watcher, handle, alive, signalled, runs, waiter, target, crashes, forks, kernel, bounds>>

ShutdownStops(p) ==
    /\ kernel = "stopping" /\ awaited = None /\ p \in todo
    /\ todo' = todo \ {p}
    /\ IF Tracked(p) THEN Signal(p) /\ awaited' = handle[p] ELSE UNCHANGED <<signalled, awaited>>
    /\ UNCHANGED <<status, version, notices, watcher, handle, alive, runs, waiter, target, crashes, forks, kernel, bounds>>

ShutdownStopped ==
    /\ awaited # None /\ awaited \notin alive /\ awaited' = None
    /\ UNCHANGED <<status, version, notices, watcher, children, kernel, todo, bounds>>

Forget ==
    /\ handle' = [p \in Services |-> None]
    /\ alive' = {} /\ signalled' = {} /\ forks' = {}
    /\ waiter' = [k \in Kids |-> "none"] /\ target' = [k \in Kids |-> None]
    /\ crashes' = [p \in Services |-> 0]

\* The watcher's task is cancelled, running procs are resolved unless they
\* have a schedule, whatever still runs in the process group is killed.
Down ==
    /\ kernel = "stopping" /\ todo = {} /\ awaited = None
    /\ kernel' = "down" /\ watcher' = [at |-> "off"] /\ notices' = <<>>
    /\ status' = [p \in Services |-> IF status[p] = "running" /\ p \notin Deferred
                                     THEN "over" ELSE status[p]]
    /\ Forget
    /\ UNCHANGED <<version, runs, todo, awaited, bounds>>

\* The kernel is killed: nothing is resolved.  What its children do without
\* it is not modelled.
Crash ==
    /\ kernel # "down" /\ kernel' = "down" /\ lives < MaxLives /\ lives' = lives + 1
    /\ watcher' = [at |-> "off"] /\ notices' = <<>>
    /\ todo' = {} /\ awaited' = None
    /\ Forget
    /\ UNCHANGED <<status, version, runs, writes>>

Boot ==
    /\ kernel = "down" /\ kernel' = "booting"
    /\ todo' = {p \in Services : status[p] = "running" /\ p \notin Deferred}
    /\ UNCHANGED <<status, version, notices, watcher, children, awaited, bounds>>

\* The same during resume_from_disk: run() raises and the kernel exits.
ResumeRaises ==
    /\ kernel = "booting" /\ kernel' = "down"
    /\ \E f \in forks : f.by = Task("boot") /\ status[f.slug] = "absent"
    /\ todo' = {} /\ Forget
    /\ UNCHANGED <<status, version, notices, watcher, runs, awaited, bounds>>

\* resume_from_disk: a proc that read "running" when the boot listed it is
\* forked again or failed, unless its directory is gone by now.
Resuming(p) == kernel = "booting" /\ p \in todo /\ ~Forking("boot") /\ todo' = todo \ {p}

ResumeSkips(p) ==
    /\ Resuming(p) /\ status[p] = "absent"
    /\ UNCHANGED <<status, version, notices, watcher, children, kernel, awaited, bounds>>

ResumeForks(p) ==
    /\ Resuming(p) /\ status[p] # "absent" /\ Policy[p] # "never"
    /\ BeginStart(Task("boot"), p, version[p])
    /\ UNCHANGED <<version, watcher, handle, alive, signalled, runs, waiter, target, crashes, kernel, awaited, bounds>>

ResumeFails(p) ==
    /\ Resuming(p) /\ status[p] # "absent" /\ Policy[p] = "never"
    /\ Resolve(p)
    /\ UNCHANGED <<version, watcher, children, kernel, awaited, bounds>>

Booted ==
    /\ kernel = "booting" /\ todo = {} /\ ~Forking("boot")
    /\ kernel' = "up" /\ watcher' = Idle
    /\ UNCHANGED <<status, version, notices, children, todo, awaited, bounds>>

-----------------------------------------------------------------------------
Writers == \E p \in Services : Spawn(p) \/ Cancel(p) \/ Remove(p) \/ Touch(p)

Watcher == WatchStopped \/ \E p \in Services : WatchStarts(p) \/ WatchStops(p) \/ WatchPasses(p)

AwaitExit(k) ==
    \/ WaiterBegins(k) \/ ExitIgnored(k) \/ ExitFinal(k)
    \/ RestartStable(k) \/ BackOff(k) \/ GiveUp(k) \/ BackoffDone(k)

ShuttingDown == (\E p \in Services : ShutdownStops(p)) \/ ShutdownStopped \/ Down

Booting == Boot \/ Booted \/ ResumeRaises \/ \E p \in Services : ResumeSkips(p) \/ ResumeForks(p) \/ ResumeFails(p)

Next ==
    \/ Writers \/ Watcher \/ ForkDone \/ ForkOrphans
    \/ \E k \in Kids : Exit(k) \/ AwaitExit(k)
    \/ \E p \in Services : FireDeferred(p)
    \/ Shutdown \/ ShuttingDown \/ Crash \/ Booting

Spec == Init /\ [][Next]_vars

(* Fairness: the asyncio loop resumes what can go on, a fork ends, a child *)
(* that was signalled ends (it is killed after the grace).  A child that   *)
(* was not signalled may run for ever.                                     *)
LoopFairness ==
    /\ WF_vars(Watcher) /\ WF_vars(ForkDone \/ ForkOrphans) /\ WF_vars(ShuttingDown) /\ WF_vars(Booting)
    /\ \A k \in Kids : WF_vars(AwaitExit(k)) /\ WF_vars(k \in signalled /\ Exit(k))

FairSpec == Spec /\ LoopFairness

\* Every service dies sooner or later, as one whose command is broken does.
DyingSpec == FairSpec /\ \A k \in Kids : WF_vars(Exit(k))

-----------------------------------------------------------------------------
(* Properties. *)

KidsOf(p) == {k \in alive : k[1] = p}

\* Nothing is under way: no notice, no fork, no waiter that will act.
Quiet ==
    /\ kernel = "up" /\ notices = <<>> /\ watcher = Idle /\ forks = {}
    /\ \A k \in Kids : /\ waiter[k] \notin {"new", "backoff", "forking"}
                       /\ waiter[k] = "waiting" => target[k] \in alive

\* Services that no waiter, main loop or boot starts: only the watcher.
Plain == {p \in Services \ Deferred : Policy[p] = "never"}

\* Two children of one such service never run at once, through cancels,
\* respawns under the same slug, and restarts of the kernel.
OneChild == \A p \in Plain : Cardinality(KidsOf(p)) <= 1

\* When nothing is under way, the files and the children agree: what is not
\* "running" on disk does not run -- a cancel that comes during the fork is not
\* lost -- and what reads "running" does run: a respawn that overtakes the stop
\* of its predecessor is not lost.  The second within one life of the kernel;
\* Timers has the gap at boot.
QuietAgrees ==
    Quiet =>
        /\ \A p \in Plain : status[p] # "running" => KidsOf(p) = {}
        /\ lives = 0 => \A p \in Services \ Deferred : status[p] = "running" => KidsOf(p) # {}

\* A service whose every run dies young ends as resolved: the crash budget
\* stops the fork storm, whoever else starts the service meanwhile,
\* as long as the proc-watcher lives.
StormEnds == \A p \in Services \ Stable :
    (status[p] = "running") ~> (status[p] # "running" \/ watcher.at = "off")

\* A shutdown that began ends, even while services exit and restart.
ShutdownEnds == (kernel = "stopping") ~> (kernel = "down")

(* A statement of the documentation that the code does not keep. *)

\* supervisor.py:156, in start: "already tracked -- idempotent on repeated
\* spec events", so a slug has one child.
StartsOnce == \A p \in Services : Cardinality(KidsOf(p)) <= 1
=============================================================================
