# Ambiance, specified

A TLA+ development of the kernel of *Ambiance*, a program in which language-model agents
("PAIs") live as processes of a small user-space operating system. The kernel
(`src/src/boot/`) is one asyncio program; everything else (drivers, command-line tools, the
web console, the PAIs' own shells) talks to it through files under `$PAI_ROOT`. That is what
makes it hard: every protocol is a sequence of file writes by several programs, read by
coroutines that are suspended between any two of their awaits, across kernels that are
killed, restarted and re-executed.

Paths below are relative to `src/src/` unless they say otherwise; `main.py:152` means
`src/src/boot/main.py`, line 152.

Contents: 1 the system; 2 the modules; 3 what is checked; 4 what is proved; 5 where code and
words disagree; 6 what is not modelled; 7 the plan.

## 1. The system

### 1.1 Components

For each component: the state it keeps, what changes that state, whom it meets, what is hard
about it, and what it would mean for it to be right.

**Nudge turns** (`boot/main.py`, `boot/nudge.py`, `boot/inject.py`, `boot/llm.py`). *State*:
one asyncio task per nudge in `_active_nudges[pid]`, two lock tables (`main._pai_locks` by
pid, `nudge._pai_locks` by slug), the injection table `inject._live`, the PAI's
`messages.jsonl`, the `busy` file, the heartbeat entries. *Operations*: dispatch of a nudge,
mid-turn injection, a compaction turn before the main one, the overclock loop, retry,
escalation of a failure to root, review by the debugger, interrupt, heartbeat, the drain
before a configuration reload. *Hard*: a message that reaches a PAI in the moment its turn
ends; a turn that fails while messages wait in it; an interrupt that lands in any of seven
awaits; a failing turn that holds its locks while it waits for root. *Right when*: turns of
one PAI never overlap, no message is read twice, a message is lost only with what the
interrupt was aimed at, nothing waits for ever.

**Event spool** (`boot/events.py`, `boot/processes.py:emit_event`, `boot/phases/clean.py`,
`boot/phases/backfill.py`, `boot/routing.py`). *State*: the YAML files in `run/pai/events`,
the observer thread's reports, the asyncio queue of paths, the backfill archive.
*Operations*: write-and-rename by an emitter, list-and-unlink by a boot, collapse of a storm
into one summary, catch-up, observation, read-and-unlink, quarantine, dispatch. *Hard*:
other programs write during every step of a boot; the boot may die between any two of its
moves. *Right when*: an event is dispatched once, in order, and a summary tells the truth.

**Timers and the main loop** (`boot/timers.py`, `boot/proc_watcher.py`,
`boot/main.py:237-309,1410-1429`). *State*: the heap in memory, `spec.yaml` and `status` of
every proc on disk, the watcher's queue. *Operations*: spawn, rewrite, cancel, remove by
others; arm and disarm by the watcher; drain, fire, sleep by the loop; rebuild at boot.
*Hard*: the heap is a cache of files that anyone edits; the loop's handler awaits a fork
while the watcher goes on; the sleep is computed from a heap that changes meanwhile. *Right
when*: an active spec is armed or on its way there, nothing fires twice, an armed entry
fires.

**Supervisor** (`boot/supervisor.py`, `boot/proc_watcher.py:68-88`). *State*: `_handles`,
`_crashes`, one `_await_exit` task per child. *Operations*: start from four places, stop,
exit, restart with backoff and crash budget, orderly shutdown, resume. *Hard*: `start` tests
`_handles`, awaits the fork, and only then enters the child. *Right when*: a service has one
child, what is cancelled stops, what reads "running" runs, crash loops and shutdowns end.

**Bash gate** (`boot/bash_gate.py`, `boot/bash_tool.py`, the web backend's
`actions.py:877-1182`). *State*: an approval record (a file), its one tmp file, the waiter's
deadline, the mode and the allowlist, the process group of a command. *Operations*: clear,
stage, decide, time out, cancel, sweep at boot; run, time out, kill. *Hard*: the kernel, the
boot's sweep and the requests of several tabs each load the record, test that it is pending,
and write it back through a tmp file of one name, without a lock. *Right when*: what runs is
what the owner approved, and what the console offers has somebody waiting for the answer.

**Subagents** (`bin/subagent.py`, `boot/main.py:335-353,605-695,896-946`,
`boot/nudge.py:88-212`, `boot/phases/clean.py:94-196`). *State*: a proc directory with
`pid` and `parent`, a status, events to and from the parent. *Operations*: spawn and
kickoff, message, `done`, plain reply, kill, the cascade of an interrupt, shutdown, crash,
the marking at boot. *Hard*: a child is named by a pid, which comes back; five parties may
end it, each with a test and a later write. *Right when*: a parent hears of the end of each
child once, and of none never.

**Drivers** (`boot/main.py:1067-1340`, `boot/driver_health.py`, the console's
`driver_health.py`). *State*: tasks by slug, the manifest each was started with, the
`active` flag, the health file with its ring of failures. *Operations*: reconcile (drain
ended tasks, start, replace, cancel, uninstall), supervise, crash, shutdown, classify.
*Right when*: after the last reload the active drivers run, in their installed version, and
the console does not show a dead driver as running.

**History and compaction** (`boot/nudge.py:269-575,661-738,982-1262`,
`boot/claude_backend.py`, `boot/tokens.py`, `actions.py:1219-1262`). *State*:
`messages.jsonl`, its archives, the session of the claudecode backend, the window gauge, the
queued action, the cooldown. *Operations*: soft and hard threshold, emergency reset, clear,
compact, onboarding's end, the console's own reset. *Hard*: a reset is three or four writes,
in an order that differs between the three places that do it, by two programs, and a crash
may cut it. *Right when*: what was in the transcript is in it or in an archive, what was
taken out of it comes back in no prompt, and a summary that is left in it does.

**Tool loop and providers** (`boot/llm.py`, `boot/litellm_proxy.py`, `boot/debugger.py`,
`boot/image_refs.py`): the conversation of one turn, and the life of the proxy subprocess.

**Processes directory** (`boot/processes.py`, `boot/proctree.py`): `spawn`, `resolve`,
`update_step`, `mark_busy`; spec and status of every proc, and the notices to the parent.

**Configuration and fleet** (`boot/config.py`, `boot/phases/reconcile.py`, `bin/paictl.py`,
`bin/paiadd.py`, `bin/paidel.py`, `bin/paiclone.py`, `actions.py:427-815`). *State*:
`etc/config.yaml`, its tmp file, the instances' directories, `/proc`, the freeze files.
*Operations*: six editors, each of which loads the document, changes one thing, writes,
renames and emits a reload; reload and boot, which reconcile and then project the
capabilities. *Hard*: only the web's setters lock each other out. *Right when*: once all is
over, `/proc` says what the document says.

**Boot and releases** (`boot/entry.py`, `boot/build.py`, `boot/phases/`, `bin/pai.py`,
`sbin/reboot.py`, `hub.py:691-779`). *State*: the release directories, the link `current`,
the marker, the kernel's flock and stamp, the console's build, the hub's memory of what it
tried. *Operations*: update, rollback, collect, restart, re-exec, duplicate kernels, the
hub's heal. *Hard*: each of four programs acts on what it read of the others' files.
*Right when*: no kernel goes on with an old build unnoticed.

**Shell and file tools** (`boot/shell_tool.py`, `boot/_shell_common.py`,
`boot/{read,write,edit}_tool.py`, `boot/truncate.py`). *State*: one bash under a PTY per
PAI, an output and an exit pipe, their buffers; a file's text. *Operations*: spawn and
self-test, command, keys, timeout, cancel, teardown; edits, pages of a file, the cut of an
output. *Hard*: nothing on a pipe says which command it is from. *Right when*: a call is
answered with its own command's code and output, a model that follows the footers reads a
file once, and an edit changes what it names and nothing else.

**Packages** (`bin/paiman.py`). *State*: the registry, `/opt/paiman`, the activations, what
the kernel has loaded. *Operations*: install with the chain of deps, remove. *Hard*: several
shells at once, commands that are cut, bundles that depend on each other. *Right when*: the
kernel runs what is activated.

**Web backend** (`usr/libexec/web/pai_web`). *State*: a worker, an event and a kept copy per
topic, a bounded queue per stream. *Operations*: poke, recompute, keep, broadcast, subscribe
with a snapshot, follow the log. *Right when*: what a browser shows settles on what the disk
says.

**Prompt construction** (`boot/bootstrap.py`, `boot/skills.py`, `boot/stitch.py`), **front
ends, messaging command line, setup wizard, provisioning and migration** (`bin/paifs_init.py`,
`sbin/migrate.py`, `sbin/pairelease.py`, `install.sh`): text, presentation, single writes and
file copying.

### 1.2 How they interact

    drivers, CLI, console ── x.yaml.tmp → x.yaml ──▶ run/pai/events
                                                        │ observer thread, queue
    paicron, shells, editor ── spec.yaml, status ──▶ proc/        main loop
                 │                                      │   ┌──── one event or
                 └─ notices ─▶ proc-watcher ─ heap ─────┴──▶│     one timer at a time
                                    │                       └─▶ _dispatch_nudge: a task
                                    └─▶ supervisor: children           │
                                          ▲    waiters ────────────────┤ fork of crons
                                          └── start/stop from boot,    ▼
                                              watcher, main loop    turn of a PAI ─▶ events

The main loop, the proc-watcher, every nudge and every waiter are tasks of one asyncio loop:
code between two awaits is atomic among them, and only among them. Other programs write
files at any moment.

## 2. The modules

| module | models | with |
|---|---|---|
| `NudgeTurns` | nudges, turns, injection, retries, escalation, interrupts, reload drain | one kernel life |
| `Mailbox` | what a message's sender may rely on; abstract | `NudgeTurns` implements it |
| `Timers` | specs on disk, watcher, heap, drain, sleep | several kernel lives |
| `Supervisor` | children, waiters, restarts, shutdown, resume | several kernel lives |
| `EventSpool` | spool, clean, backfill, catch-up, observer, consumption | several boots |
| `Delivery` | what an event's emitter may rely on; abstract | `EventSpool` implements it |
| `BashGate` | approval records, the run of a command | console, several kernel lives |
| `Subagents` | children, pids, events to the parent | several kernel lives |
| `History` | transcript, archives, session, gauge | console, crashes |
| `Shell` | session, terminal, pipes, calls | bash as the environment |
| `FileTools` | edit, paged read, cut of outputs: functions on texts | one call, or one reading |
| `Fleet` | `config.yaml` under its editors, reconciliation | several kernel lives |
| `Drivers` | reconciliation, supervision, health, panel | several kernel lives |
| `Packages` | registry, copies, activations, reloads | several shells |
| `Releases` | versions, kernels, stamp, console and its heal | the owner's commands |
| `Hub` | topics, workers, streams, log tail | lost file events |
| `Tools` | what a turn works with: `BashGate`, `Shell`, `FileTools`, `Subagents`, `History` | one part steps |
| `Machine` | what is around the kernel: `Fleet`, `Drivers`, `Packages`, `Releases`, `Hub` | one part steps |
| `MC*` | instances for TLC: texts, specs, chains of deps | |
| `NudgeTurnsProofs`, `TimersProofs`, `SupervisorProofs`, `EventSpoolProofs`, `HistoryProofs`, `FileToolsProofs` | theorems about the module of that name | TLAPS |
| `ToolsProofs` | theorems about `BashGate`, `Subagents`, `Shell`, `Tools` | TLAPS |
| `MachineProofs` | theorems about `Drivers`, `Fleet`, `Hub`, `Releases`, `Packages`, `Machine` | TLAPS |

A definition that stands next to another with a comment "Mutant of X" is a wrong version of
X, the way a plausible mistake would have it. It is not part of the specification: it shows
that the property it is paired with can fail. Names follow the source where the source has
one.

### 2.1 NudgeTurns

*Grain.* One step runs from one await to the next. A nudge task is a message or a heartbeat
(`Tasks`); it makes the call `<<t, 0>>` of `nudge()`, and, when its turn fails with an error
worth telling root of, the call `<<t, 1>>` from inside its own failure handler
(`nudge.py:609`). `pc[c]` is where call `c` is suspended:

| `pc` | in the code |
|---|---|
| `kernel` | `async with _pai_lock(to)` in `_dispatch_nudge._run` (`main.py:164`) |
| `slug` | `async with _slug_lock(...)` in `nudge()` |
| `model` | inside `llm.run_turn` |
| `backoff` | `asyncio.sleep` before the second attempt (`nudge.py:1133`) |
| `escalate` | `await nudge(to=1)` in `_handle_turn_failure` |
| `review` | `await debugger.review` |
| `replied`, `failed`, `unwind` | on the way out of `_nudge_body`, no await: nothing else may step (`Quiet`) |

`opener`/`live` are `inject._live`: who opened the window and what is queued in it. `conv`
is the message list of the attempt in flight, which dies with the attempt; `history` is
`messages.jsonl` and its archives. `spool` is the set of event files; `EventSpool` says how
they got there. `holder`/`waiting` and `slugHolder`/`slugWaiting` are the two lock tables,
with asyncio's FIFO of waiters. `cancelled` holds a `Task.cancel()` that has not been
delivered; three actions deliver it, one per place with a different handler:
`CancelWaiting`, `CancelTurn` (the loop turns it into `TurnCancelled` and saves),
`CancelDelay` (raw: nothing is saved).

*Composition.* `MailboxSpec` states that `NudgeTurns`, seen through `Status(m)` (unsent,
pending, read, kept, lost), implements `Mailbox`.

### 2.2 Timers

`spec`, `status` are the files; `heap[p][t]` counts entries (the heap may hold a slug
twice); `notices` is the watcher's queue with the name of the file that changed, for
`_schedule_spec` treats a missing status differently by it. `loop` is where the main loop is
suspended or running: the watcher may step only in `Awaiting`, writers at any time.
`drainTo` is the `now` that `_drain_elapsed_timers` was called with and `wakeAt` the end of
the computed sleep: both are older than `now` when they are used. A cron expression is the
set of instants it ticks at.

### 2.3 Supervisor

`forks` holds the calls of `supervisor.start` that are between the test of `_handles` and
its assignment: by the watcher, by a waiter (named by the child whose task it is), by the
main loop, by the boot. `target[k]` is the child that the task made for `k` awaits: it reads
`_handles` only when it first runs, so it may be another. `version` and `runs` tell which
spec a child was started with.

### 2.4 EventSpool

`place[i]` is where the file of item `i` is (an event, or the summary that a boot emits for
a PAI); `stamps` the order of file names; `earlier[i]` what was in place when `i` got its
name, a history variable for `InOrder`. `gap` collects what came between the listing and the
observer's start; `notices` are reports of the observer's thread that are not yet in the
queue. File names carry local wall-clock time: the model has it increase, so a clock that is
set back, or the end of daylight saving time, is outside `InOrder`.

*Composition.* `DeliverySpec` states that `EventSpool`, seen through `DeliveryStatus(i)`
(unsent, named, waiting, lost, taken, archived), implements `Delivery`. A file in the spool
counts as lost as soon as it is `Doomed`: the kernel has ended, the file came into the gap
before the observer, its bytes do not decode, or the clean phase has it on its list. So the
abstract loss is one step, when the file is shown or when the kernel ends, and the unlink
that follows much later is none; the refinement says that nothing doomed is ever dispatched.

### 2.5 BashGate

`record` is the file, `draft` its tmp file, `seen` what the kernel's own load returned:
between `Loads` and `KernelRenames` the kernel holds a copy that the console may make stale.
`call[c]` names the await where the tool call is; the values in `Expiring` are code without
an await, during which no other coroutine of the kernel steps (`Idle`) but the console does.
A click is a request of one tab: `DecisionLoads`, `DecisionWrites`, `DecisionRenames`.
`granted` remembers what the owner approved, `ran` what ran. A command may ignore SIGTERM
(`Stubborn`), and `tree` says whether its process group is still alive.

### 2.6 Subagents

A child is a slug; its pid is the lowest that no directory has, so it comes back, and every
lookup (`HasPid`, `OwnSlug`) is by pid, as in the code. `aim[k]` holds whom the `subagent
done` of child `k` has found, between its event and the resolution; `mistaken` keeps those
whom it found in another's place. `letters` are events on their way to a parent: one that
carries a completion, or `Word(p)`, which only wakes (several words for one pid are one).
`heard` counts the completions that woke a parent. The status "failed" stands for any final
one whose directory is still there. A kill and the boot end a child in three steps: the
status, the word to the parent, the directory; `ending[k]` says how far they have come, so
that a crash, an interrupt or a tool's timeout may fall between any two (`KillMarks`,
`KillTells`, `RmTree`, `KillDies`; `CleanMarks`, `CleanTells`, `RmTree`), and `hushed` are
those whose killer died before the word. The commands of one pid run one after the other, as
its tool calls do. An interrupt ends the commands of `bash_tool`, but not what was typed into
a persistent shell, for nothing calls `shell_tool.interrupt` (`Interrupts(p, persistent)`).

### 2.7 History

A turn is a number; `live`, `archives` and `session` are sets of them, and `Summary` may lead
`live`. A reset puts its writes, in the order of the function that makes it (`OfAction`,
`OfKernel`, `OfOnboarding`), into `todo[w]`, where `w` is the kernel or the console, and one
action per write takes them out. `Context` is what a call's prompt holds: the loaded history,
or, under claudecode, the session. `saved`, `forgot` and `leaked` are history variables for
the properties; `torn` and `overlap` mark a reset that was cut, and one that the console
made during a turn.

### 2.8 Shell and FileTools

In `Shell` a command is the call it belongs to. bash and its commands are the environment:
they read a line, print, end, exit, or ignore `^C`. `exitPipe`, `outPipe` are the pipes,
`exitBuf`, `outBuf` the event loop's buffers; `result[c]` says whose code and output call `c`
was answered with. `abandoned` are the commands whose call ended before they did. `FileTools`
has texts as sequences over `Chars`, of which those in `Wide` take two bytes; `LF` and `CR`
are two that take one. Every tool call is one step: the file tools run without an await, so
within the kernel they are atomic; what another process writes between their read and their
rename is lost and not modelled. A reading is a chain of calls in which each takes the offset
that the last one's footer names. A line over the byte limit is not shown: the answer names
`sed -n 'Np' | head -c`, and `SedPrints` is what that prints, which is the first bytes only,
of the N-th line between line feeds (the tool also counts a lone CR). The loops of the code
(`split`, `count`, the line counts of the two truncations, the splices) are recursive
functions over an interval, so that they can be proved about. The byte order mark, and a
`limit` that is not positive, are left out.

### 2.9 Fleet

An edit (`edits`) is a record with its editor, what it is about, and its copy of the
document; `config.yaml.tmp` is one file for all (`tmp`). `Reconciled` is the fleet after
`reconcile_from_config`, `Applies` and `Projects` are its two parts, between which an editor
may write. A document is the entries by name and the `grant` of an outbound driver; `frozen`
is that driver's freeze file. A name in `Odd` holds a `:`, an entry of `Nested` has a
`parent`. Of an entry, `dial` says which groups of keys are set: reconcile writes all of them
for a member that is there (`Updated`), `spawn_pai` only `SpawnKeys` for one that is new
(`Spawned`), a clone does not get `PersonalKeys`. `fresh` are the members that the last
reconciliation spawned.

### 2.10 Drivers

`task[d]` is the supervising task with the manifest it runs; `registry` is `_driver_tasks`.
`reconcile` is the function in flight: the specs that it discovered, the slugs it has still
to visit, the cancelled task it awaits. The health file keeps the later of last start and
last exit, the last outcome and the ring of failures; `Panel` is the console's
classification of it. The panel's "stale" state, which needs a clock, is left out.

### 2.11 Packages

`command[s]` is the paiman of shell `s`: a stack of bundles, the phase of the top one, the
registry's state when it was fetched (`shelf`) and whether it could be (`fetched`). A copy that
was cut is `Broken`: its manifest is there, files are missing. `EndsUntold` is the end of an
installation with `--no-reload`, or of a command whose `emit_event` raised, of which only a
warning is printed; `BatchEmits` is the setup wizard's one reload after its installations.
`untold` remembers what commands changed and ended without asking for a reload. Hooks of
bundles, and a bundle that leaves the registry, are left out. `Publishes` is external: the
registry is a git repository.

### 2.12 Releases

For installations from tarballs. `Extracts`, `Provisions`, `Repoints`, `Marks`, `Collects`,
`Notifies` are the steps of an update, with the moment between unlink and symlink; `kern[k]`
is a kernel process, from its start through flock, stamp and phases to `exec`. `WorkerReads`,
`TimerReads` and `Acts` are the hub's two threads, which share `heal` without a lock;
`Classify` and `Remedy` are `classify_skew` and `decide_heal`. A kernel stamps the version
that the links name when it stamps, whichever it has loaded (`kern[k].build`); a console that
executes itself while there is nothing to load is gone (`console.alive`), until its owner
starts it (`ConsoleStarts`). File events on the build directory are delivered; a directory
that was partially extracted counts as absent. `torn` remembers an update or a rollback that
was cut between the link, which the hub reads, and the marker, which it watches.

### 2.13 Hub

`poked`, `worker`, `got`, `kept` are a topic's event, thread, local value and snapshot;
`missed` holds topics whose last file event the file system did not deliver, and which the
half-second poll will poke. A client begins with the snapshot and then takes its queue. The
log is followed by its offset, and a client gets a backlog first. A topic is one that a
single worker computes from files alone; the model starts when `start` has computed each once.

### 2.14 Tools and Machine

The parts that these modules join share no variable. `part` names the one that takes all the
steps of a behavior, so a behavior is one of one part while the others rest: every behavior
of every part is checked, and none is multiplied with those of another. What the parts say
to each other goes through files that another module models: reloads, which `NudgeTurns`
drains for, and events, which `EventSpool` carries.

## 3. What is checked

| run | instance | shows |
|---|---|---|
| `nt_turns` | root and `a`, a message each, that of `a` overclock; heartbeat of `a`, review and injection for both; failures, interrupts, reload | `TypeOK`, `OneTurnPerPAI`, `WindowHasTurn`, `NoRedelivery`, `OnlyInterruptWithdraws`, and `Mailbox` is implemented |
| `nt_live` | one message for each, review of `a`, fair scheduling | `InterruptEnds`, `Settles`, `ReloadNeverWedges` |
| `nt_injected_lost` | root and `a`, two messages | counterexample to `InjectedStaysInTurn` (section 5) |
| `tm_safety` | a reminder that may be rewritten as a cron or as junk; a cron, one-shot or deadline with a command or without; 3 writes, 3 instants, one restart | `TypeOK`, `TimerKept`, `NoDoubleFire` |
| `tm_live` | two procs, 2 writes, one restart, fair scheduling | `AwakeFires`, `ArmedFires` |
| `sv_never` | a service without restart and a deferred one, 5 writes, one restart of the kernel | `OneChild`, `QuietAgrees` |
| `sv_restart` | a service with `restart: on-failure`, up to 3 children, 3 writes, one restart, fair | `ShutdownEnds` |
| `sv_storm` | `restart: always` and a command that always dies young, 3 writes | `StormEnds` |
| `es_spool` | three events: one addressed, one whose handler may raise, one malformed or undecodable; two PAIs, two boots, one redelivery, threshold 1, fair | `ConsumedOnce`, `InOrder`, `SummaryTrue`, `EventServed`, and `Delivery` is implemented |
| `tools` | *gate*: a command that ignores SIGTERM, two tabs, three kernels. *shell*: two commands, two key strokes. *files*: texts of up to four characters over a letter, a two-byte letter, LF and CR; one edit or two, of eighteen; pages of at most two lines and three bytes. *subagents*: two children, one of which must not end itself, two kernels, one interrupt or command killed by its timeout. *history*: three turns, thresholds 2 and 3, one crash or console command | `ToolsTypeOK`, `RunsApproved`, `NoGhost`, `OwnAnswer`, `ShownRight`, `EditedExactly`, `HeardOnce`, `EndIsTold`, `NothingLost`, `Forgotten` |
| `machine` | *fleet*: an original PAI whose entry names a parent and one that may be added, three editors, one of them the web's, two edits, two kernels. *drivers*: two, one of them off by default, five edits, crashes, boots or stops. *packages*: a PAI that lists a driver that needs a library, two shells, two commands, two editions. *releases*: two versions, two kernel processes, three commands or crashes. *hub*: two topics, a client with a queue of one, three changes | `MachineTypeOK`, `QuietMirrors`, `PanelTruth`, `Converged`, `KernelFollows`, `NoSilentSkew`, `ShowsDisk` |
| `hi_summary` | as *history* of `tools` | counterexample to `SummaryReaches` |

*Why the bounds are enough.* Two PAIs are what the protocols of a turn relate: a PAI and root,
to which failures go. With a message for each, the escalated nudge meets root's own, and a
message of `a` is injected into the turn of its heartbeat. Three instants give a timer a past,
a present and a future, and one restart a heap that is rebuilt between them. Three writes
reach cancel, remove and respawn under one slug, five do so twice for two services.
`CrashBudget` is 3, where the code has 5: three deaths in a row have a first, a middle and a
last, and with 5 the storm does not fit in the time of a run; `MaxKids` bounds children of one
slug that exist at once or still have a waiter, and numbers are used again when both are gone.
Two boots of the spool are needed for a summary whose boot was killed to meet the next one's
clean; the threshold is 1 instead of 10 so that two events are a storm.

The records of the gate are independent of each other but for mode and allowlist, so one
command against two tabs and the kernel has every race for the one tmp file; three kernels
let a sweep be killed and repeated. Two children are a parent and its child, or two siblings
of which the second gets the pid of the first; one interrupt or timeout (`KidMishaps`) finds
a kill or a `done` at each of its steps, and the kernel's own end, which is not counted,
does so again. Three turns are one before a reset, the one
that it overtakes, and one after. Two commands in a shell are one that is given up and one
that is asked next. Texts of four characters hold two line endings of either kind next to
two characters, and limits of two lines and three bytes are reached by lines and by bytes,
at a character's middle too. Two edits of the fleet overwrite each other, and the second to
rename finds its tmp file gone. Five steps of drivers are an
installation, a crash, a toggle, a kernel's end and its boot. The chain of three bundles has
a dep of a dep. Two versions and three commands are an update, a rollback and a restart that
meets either. The client's queue overflows with a queue of one.

`CHECK_DEADLOCK FALSE` stands in every configuration: when all messages are sent, writes are
used up and the kernel is down or idle, the instance really stops.

*Fairness, and why the code justifies it.* `NudgeTurns.FairSpec`: asyncio resumes every
coroutine whose await has completed (weak fairness of each task's steps); provider calls and
tools have timeouts and `llm._loop` has `MAX_ITERATIONS`, so `model` is left;
`asyncio.Queue` is FIFO, so an event is not passed over between reloads (strong fairness of
`Deliver`); `wait_for` bounds the drain. Interrupts, sends and reloads are never forced.
`Timers.FairSpec`: clock, watcher, loop and boot go on; that events keep arriving is an
assumption of `ArmedFires` alone, written in its formula, because a timer armed during a
sleep does not end it. `Supervisor.LoopFairness`: coroutines go on, forks end, a signalled
child ends (it is killed after the grace). That a child ends by itself is assumed only by
`DyingSpec`, for commands that are broken. `EventSpool.FairSpec`: a boot that began, the
observer's thread and the main loop go on; no emitter has to finish and no kernel to start
again. The modules
of `tools` and `machine` state safety only: what a quiet state must say (`QuietAgrees`,
`QuietMirrors`, `Converged`, `KernelFollows`, `ShowsDisk`) takes the place of a promise that
the quiet state comes, which would rest on a user who stops editing.

*What the properties are about.* `OneTurnPerPAI`: the escalated nudge takes root's slug lock
but not root's kernel lock, and root may be in a turn. `WindowHasTurn`,
`OnlyInterruptWithdraws`: whoever was told "injected" has a turn that will drain or re-emit
the message, whichever of the six ways the turn ends. `NoRedelivery`: re-emission, retry and
second nudge never hand over twice. `TimerKept`: every path of the loop's handler and of the
watcher leaves an active spec armed, noticed, or about to be pushed. `NoDoubleFire`: neither a
rewrite, a second arming nor a rebuild repeats a due time. `AwakeFires`, `ArmedFires`: no
entry is stranded. `OneChild`, `QuietAgrees`: files and children agree once nothing is under
way. `StormEnds`, `ShutdownEnds`: restarts end. `ConsumedOnce`, `InOrder`, `SummaryTrue`,
`EventServed`, `DeliverySpec`: section 2.4. `RunsApproved`: the text that runs is one the
owner approved, or mode or allowlist let it pass, although a stale copy may overwrite a
decision. `NoGhost`: whatever the console offers has a waiter. `HeardOnce`, `EndIsTold`: of
each child one word, and of none silence, but for the three exceptions that `EndIsTold` names:
the owner or a shutdown ended it, what ended it died before the word, or another's `done` took
it for its own. `OwnAnswer`: no exit code and no output of an earlier call that was answered.
`NothingLost`, `Forgotten`: a reset cut anywhere. `ShownRight`: a model that follows the
footers sees each line that the byte limit has room for, whole and once, in the place of a
longer one what the command of its notice prints, and is never sent past the last; and an
output keeps the longest end that fits, cut at a character's middle too; against definitions
by sets. `EditedExactly`: splices from the end against a definition by positions.
`QuietMirrors`: lost updates leave the wrong document, never a fleet that differs from it in
more than the keys that `spawn_pai` does not take. `PanelTruth`: the ring and the dates
against the task. `Converged`: a task that ended on its own against the next reload.
`KernelFollows`: a chain that aborts half way, or tells nothing, hides its own bundles from
the kernel and no others. `NoSilentSkew`: four programs and one stamp. `ShowsDisk`: a poke
during a recomputation, a client that joins during one.

## 4. What is proved

TLAPS proves the following for every value of the constants that satisfies the named
assumption of the module; TLC showed each property on an instance first. A property is
proved as `Spec => []Property` from an invariant `Inv` that is inductive, by `Init => Inv`,
`Inv /\ [Next]_vars => Inv'` with one step per action, and `Inv => Property`. What follows
is why each invariant has the parts that it has.

### 4.1 Turns and messages

`NudgeTurnsProofs`, from `NudgeAssumption` (root is a PAI, messages address PAIs, tasks,
locks and `None` do not coincide):

| theorem | states |
|---|---|
| `TypeCorrect` | `Spec => []TypeOK` |
| `OneTurnCorrect` | `Spec => []OneTurnPerPAI` |
| `WindowCorrect` | `Spec => []WindowHasTurn` |
| `RedeliveryCorrect` | `Spec => []NoRedelivery` |
| `InvCorrect` | `Spec => []IInv`, from which the last three follow |
| `WithdrawCorrect` | `Spec => OnlyInterruptWithdraws`, an action property |
| `MailboxCorrect` | `Spec => MailboxSpec`: `NudgeTurns` implements `Mailbox` |
| `MailCorrect` | `Spec => []MailInv`, from which the last two follow |

The inductive invariant is `IInv == TypeOK /\ FreshInv /\ HolderInv /\ NestInv /\
WindowHasTurn /\ NoRedelivery`. Beside `TypeOK`, no part survives every step alone.
`OneTurnPerPAI` needs `HolderInv`: whoever is in a turn holds the slug lock, an escalated
turn of root too, which holds nothing else. `HolderInv` needs `NestInv`: the two calls of
one task are never in a turn of the same PAI at once, since the inner exists only while the
outer waits at `escalate`, so the lock an ending call gives back is its own. `WindowHasTurn`
needs both, because an opener is compared with a lock holder across all the exits of a turn.
`NoRedelivery` needs `FreshInv` and `WindowHasTurn`: a message that is still somewhere
between its sender and a turn is in exactly one place, so the step that reads it leaves no
second copy to be read later. The proof has one lemma per part for the steps of calls
(`HolderTurn`, `NestTurn`, `WindowTurn`, `FreshTurn`, `RedeliveryTurn`), one for the steps
of tasks (`...Task`: kernel lock and cancellations), and one for each of `Send`, `Deliver`
and the heartbeat. `InvNext` puts them together.

The refinement needs to know what a conversation holds, as the abstract status of a message
is `kept` once it is in the history and `read` while it is in `conv`. `MailInv == IInv /\
ConvInv /\ LiveInv /\ StopInv`: a main turn holds messages of its own PAI only, its opening
message all along, and has saved it once it has replied (`ConvInv`); an overclock message
opens its own turn and is not injected (`LiveInv`); a cancellation comes from an interrupt
and none is left on a call that is on its way out (`StopInv`), so what is lost from the
queue was aimed at. `MailStep` then says what any step of the kernel looks like from the
mailbox: the status of no message changes, or of one message, or all that changes is of one
PAI and changes in one way. Each disjunct is a step of `Mailbox` or a stutter.

### 4.2 Events, timers, services

`EventSpoolProofs`, from `SpoolAssumption` (finitely many PAIs and events; a summary is no
event):

| theorem | states |
|---|---|
| `SpoolTypeCorrect` | `Spec => []TypeOK`, for any number of boots |
| `ConsumedCorrect` | `Spec => []ConsumedOnce` |
| `SummaryCorrect` | `Spec => []SummaryTrue` |
| `SpoolInvCorrect` | `Spec => []IInv`, from which the last three follow |
| `InOrderCorrect` | `Spec => []InOrder`: nothing is dispatched that overtook what is dispatched later |
| `OrderInvCorrect` | `Spec => []OrderInv`, from which that follows |
| `DeliveryCorrect` | `Spec => DeliverySpec`: `EventSpool` implements `Delivery` |

`ConsumedOnce` rests on `ConsumedInv`: what nudged somebody was read, and a file that was
read does not come back to the spool, so a path that is queued twice finds no file.
`SummaryTrue` needs the whole protocol of a boot. `CleanInv`: the clean phase cannot end
while a summary of an earlier, killed boot is left; its names are all in `todo`. `BootInv`:
the names of this boot's summaries are therefore unused when the backfill scans. `StormInv`:
the storms of two PAIs are disjoint and still in the spool, so a move for one PAI takes
nothing from another's. `CountInv`: during the backfill a summary counts what is archived
for it and what is still to be. The catch-up starts when the second part is empty, and from
then on `SummaryInv` says that all the kernel knows of is good. `NamesInv` (a name is given
once per file) is there for `TypeOK`.

`OrderInv == NamedInv /\ SeenInv /\ PipeInv /\ PassedInv /\ InOrder`, on top of `IInv`. A
name is later than the names of all that was in place when it was given (`NamedInv`).
`PipeInv`: what the kernel can still take is queued or reported, and before whatever has a
later name, although catch-up and observer both put paths into the queue. `PassedInv`: what
a dispatched item has overtaken all the same fell into the gap between listing and observer,
or does not decode; the next clean phase unlinks it, so it is dispatched never rather than
late.

The refinement takes both invariants and `ListedInv`: outside the clean phase its list is
empty, a summary is written whole, and a storm is of files that decode. `DlNext` has one
lemma per party. The kernel's end is the one step that loses all that wait (`DlLose`); of
what the clean phase unlinks, only a tmp file was not lost before (`DlClean`). `HeadIsDue`
carries the order over: by `PipeInv`, nothing that was out before the head of the queue can
still be taken, so nothing of it waits, and by `SummaryInv` a summary at the head has its
archive. `StormWaits` and `CountInv` make the backfill's moves abstract ones.

`TimersProofs`, from `TimersAssumption` (a spec has at most one deadline, a one-shot one
instant, and one without a schedule none):

| theorem | states |
|---|---|
| `TimersTypeCorrect` | `Spec => []TypeOK`: no count of the heap falls below zero |
| `TimerKeptCorrect` | `Spec => []TimerKept`, for any procs, specs, horizon, writers and boots |
| `NoDoubleFireCorrect` | `Spec => []NoDoubleFire` |
| `TimersInvCorrect` | `Spec => []IInv`, from which the others follow |

`TimerKept` speaks of the loop and watcher running; `KeptInv` says the same of a boot, where
what is written before the observer runs is in `unseen`. A due time is covered (`Covers`) by
an entry for it or, for a cron, by any earlier one, because each fire arms the next; that is
what survives a clock that goes on, a fork under way, and a rewrite of the spec whose notice
is still queued. `NoDoubleFire` needs `Single` (the heap of a reminder holds one entry) and
`FiredOnce`: with a schedule, what fired is past and no longer in the heap, and neither the
watcher nor a rebuild arms the past; with a deadline, the proc is resolved.

`SupervisorProofs`, from `SupervisorAssumption` (types of the constants, a crash budget of at
least one):

| theorem | states |
|---|---|
| `OneChildCorrect` | `Spec => []OneChild` |
| `QuietCorrect` | `Spec => []QuietAgrees` |
| `SupervisorTypeCorrect` | `Spec => []TypeOK` |
| `SupervisorInvCorrect` | `Spec => []IInv`, from which the others follow |

`start` tests `_handles`, awaits the fork and enters the child. `ForkInv`: calls of `start`
are one per caller, and for a service in `Plain` the caller is the watcher. `PlainInv`: such
a service has a fork and no child, or one child, tracked unless its fork ended the watcher,
and awaited by its own waiter; this gives `OneChild`, and rests on `WaiterInv` and
`HandleInv` (waiters and handles are of their own service). `QuietAgrees` is about a moment
when nothing is under way; `CancelInv` and `ServedInv` say what is under way otherwise: a
child whose proc does not read "running" is being stopped or a notice waits that will stop
it, the one that came during its own fork included; a proc that reads "running" has a child,
a start, or a notice that leads to one.

### 4.3 Approvals, subagents, shell

`ToolsProofs`, of `BashGate`, from `GateAssumption` (the kernel lives at least once):

| theorem | states |
|---|---|
| `GateTypeCorrect` | `GateSpec => []GateTypeOK` |
| `ApprovalCorrect` | `GateSpec => []RunsApproved`, for any number of tabs and boots |
| `TrayCorrect` | `GateSpec => []NoGhost` |
| `GateInvCorrect` | `GateSpec => []GateInv`, from which the others follow |

`RunsApproved` says what ran, so it needs `ApprovalInv` about everything that may become
what runs: the record, the tmp file, which anyone's rename moves into the record, and the
decisions that tabs are about to write each hold an approval only of a text that the owner
approved. `NoGhost` needs `TrayInv` while the kernel is down (a pending record without a
waiter is one that the sweep will find: its call is "gone") and `LostInv`: a kernel whose
tmp file was taken from under it finds the record decided, since only a rename takes it.

Of `Subagents`, from `KidAssumption` (finitely many children):

| theorem | states |
|---|---|
| `HeardOnceCorrect` | `SubSpec => []HeardOnce` |
| `EndIsToldCorrect` | `SubSpec => []EndIsTold` |
| `KidInvCorrect` | `SubSpec => []KidInv`, from which both follow |
| `SubTypeCorrect` | `SubSpec => []SubTypeOK`: a pid is in its range, and a free one is found |

A `done` and a plain reply write the completion before they resolve the child, a kill and
the boot write the status first. `AimInv`: whoever is about to resolve somebody has told its
parent of its own end, and aims at itself or at one that is `mistaken`; `EndingInv`: a child
that a kill or the boot is ending has its status, and once they have told, it is announced;
`LetterInv`: a completion is about one child and goes to its parent; `OnceInv`: a completion
waits or has been heard, never both, and then its child has ended or is about to, so it
writes no second one. `EndIsTold` itself is the last part. The types need that the lowest free
pid exists and stays within a range: fewer directories than children leave one of as many
numbers as there are children (`FreePidExists`, by the cardinality of an image). The walk of
the cascade is a recursive function; that all it finds is running (`UnderRunning`) is an
induction over its rounds.

Of `Shell`, from `ShellAssumption` (finitely many calls; the self-test is none of them):

| theorem | states |
|---|---|
| `OwnAnswerCorrect` | `ShellSpec => []OwnAnswer`, for any number of calls |
| `ShellTypeCorrect` | `ShellSpec => []ShellTypeOK` |
| `ShellInvCorrect` | `ShellSpec => []ShellInv`, from which both follow |

No pipe says which command its bytes are from. `TurnInv`: calls come one at a time, the
self-test inside the first. `PlaceInv`: a command that nobody gave up is in one place on its
way from the terminal through `exitPipe` to `exitBuf`, in terminal and pipes only while its
call waits, and in the buffers while another call waits never. `PrintInv`: so is what it
prints. What breaks this are commands that were given up, which `OwnAnswer` excepts.

Of `Tools`, from the assumptions of its five parts:

| theorem | states |
|---|---|
| `ToolsTypeCorrect` | `Spec => []ToolsTypeOK` |

The invariant is the conjunction of the parts' (`ToolsInv`); a step of one leaves the others'
variables as they are, which each part's own step lemma covers as a stutter.

### 4.4 History

`HistoryProofs`, from `HistoryAssumption` (the soft threshold is below the hard one):

| theorem | states |
|---|---|
| `NothingLostCorrect` | `HistorySpec => []NothingLost`, for any number of turns, crashes and commands |
| `ForgottenCorrect` | `HistorySpec => []Forgotten` |
| `HistoryInvCorrect` | `HistorySpec => []HistoryInv`, from which the others follow |
| `HistoryTypeCorrect` | `HistorySpec => []HistoryTypeOK` |

Both properties are about what a turn saves at its end, long after it loaded it. For
`NothingLost`, `LoadedInv` says that what is in the file is in what the turn loaded or in an
archive, so the turn's save overwrites nothing; `ArchivedInv` says the same of a reset that
has archived and not yet replaced; both rest on `ApartInv`, the absence of a console's reset
beside a turn, which is what `overlap` records. For `Forgotten`, `ForgetInv` says that what
was dropped is neither in the file nor in what a turn has loaded, and in the session only
while the kernel's reset has that write left; no turn runs then, so no call is given it.
`NumberInv` and `KnownInv` (turns are numbered in the order in which they begin) tell that
the turn under way is not itself among the forgotten, and `ResetInv` that a turn which
overflowed and reset starts from nothing. `HistoryTypeOK` says more than types: what a reset
has left to write is the rest (`LeftOf`) of one of the code's three orders, for the console
that of a queued action (from `TypeInv` and `ResetInv`, by `LeftFacts`); `PlainTypes` and
`FlagTypes` are what remains.

### 4.5 Files

`FileToolsProofs`, from `FileToolsAssumption` (both limits are positive, and so is each
`limit` asked for; LF and CR differ and take one byte; files and edits are over the
characters):

| theorem | states |
|---|---|
| `EditedExactlyCorrect` | `FileToolsSpec => []EditedExactly`, for any file and any edits |
| `ShownRightCorrect` | `FileToolsSpec => []ShownRight`, for any file and any limits |
| `ReadsAllCorrect` | `FileToolsSpec => []ReadsAll`, the part of it about pages: lines over the byte limit are not promised whole |
| `FileToolsTypeCorrect` | `FileToolsSpec => []FileToolsTypeOK` |

These are facts about functions on texts. The state machine adds little: `FilesInv` (the file
is as it was until an edit), `ReadsInv` (where a reader is), `TailInv` (what an output shows
is what `TruncateTail` makes of the file). The work is in the lemmas on the functions.

*Induction.* The library's induction theorems take an operator as a parameter, which the
provers cannot instantiate. `LeastNat` is stated of a set of numbers, and `Induction` and
`SeqInduction` of the set of those for which the claim holds, so they are ordinary lemmas;
`Loop` and `FlatLoop` say of a recursive function on an interval that it is what its equation
says. All loops of the module and the community modules' `FlattenSeq` rest on them
(`FlatConcat`, `FlatSplit`, `LinesAppend`, `HeadBytesLoop`, `TailBytesLoop`, `EncodeAppend`).

*Edits.* Regions sorted by their rank are a permutation (`Sorted`), and apart pair by pair
when neighbours are (`ApartAll`). Splicing them from the last to the first is
`Rewritten` (`Spliced`, by induction over the splices: what lies before a region is still the
text that was matched), so the offsets found in the old text stay right. Restored line
endings are undone by normalization (`NormalRestore`), whichever ending the file had, which
is why the statement compares normalized texts. `CountOne`: a text that is counted once is at
the place that the search finds. `AcceptedRewrites` puts them together.

*Pages.* `ShownLines` are the file's lines, with what sed prints in the place of those over
the byte limit. `Lines` and `Join` are inverse (`JoinLines`, `LinesJoin`), and a page of whole
lines joins to what was shown before it by a line feed (`ShowsMore`). `PageStep` is the
point: a page has at least one line, its footer names the line right after the last one
shown, and the footer is left out only when that was the file's last. The hard case is a
page that a limit cuts: the count is of lines of the selection, of which one that ends in an
empty line has one less than was selected (`CountedJoin`), and the cut leaves at least one
line for the next page (`CutPage`).

*Outputs.* Bytes are additive (`BytesConcat`), so the loop's count is that of the joined lines
(`TailBytesJoin`); longer runs are strictly longer (`RestLonger`), so the longest that fits
is unique and is the one the loop stops at (`KeptLines`). `EncodeIndexed` says which
character a byte belongs to, and `EndIsLongest` that the cut at a byte limit, moved to the
next character's start, keeps the longest end that fits.

### 4.6 Drivers, fleet, packages, releases, hub

`MachineProofs`, of `Packages`, from `PackagesAssumption` (deps are sequences of bundles):

| theorem | states |
|---|---|
| `FollowsCorrect` | `PackagesSpec => []KernelFollows`, for any bundles, shells and commands at once |
| `PackagesInvCorrect` | `PackagesSpec => []ActivationInv`, from which it follows |
| `PackagesTypeCorrect` | `PackagesSpec => []PackagesTypeOK` |

`FollowInv` is the argument: a bundle on which kernel and disk differ is `Touched` by a
command that has not ended, or `untold`, unless a reload waits. The steps that make them
differ (`activate`, `unlink`, `rmtree`) are each taken by a command that will report the
bundle's kind, which needs `FrameInv` (the command has a frame, a removal reports what it
removes), and a command ends by asking for the reload or leaves what it touched in `untold`.
`Restful` has the types that the argument does not need.

Of `Drivers`, from `DriverAssumption` (types of the constants):

| theorem | states |
|---|---|
| `PanelTruthCorrect` | `DriversSpec => []PanelTruth` |
| `ConvergedCorrect` | `DriversSpec => []Converged`, for any drivers and edits |
| `DriversTypeCorrect` | `DriversSpec => []DriversTypeOK` |
| `DriverInvCorrect` | `DriversSpec => []DriverInv`, from which the others follow |

`TaskInv`: what was started and has not ended is registered or is what the reconciliation
waits for. `HealthInv`: status and breadcrumbs say of each driver whether it runs, which is
`PanelTruth` but for the panel's own classification. `SyncInv` cuts a reconciliation in two:
while no file has changed since it read them, the drivers that it is `Through` with are as
the manifests and flags want them, or ended by themselves; at its end these are all.

Of `Fleet`, from `FleetAssumption` (the kernel boots at least once, and only declared members
have a parent):

| theorem | states |
|---|---|
| `QuietMirrorsCorrect` | `FleetSpec => []QuietMirrors`, for any editors and edits at once |
| `FleetTypeCorrect` | `FleetSpec => []FleetTypeOK` |
| `FleetInvCorrect` | `FleetSpec => []FleetInv`, from which both follow |

`MirrorInv`: unless a reload waits, or an editor has renamed the document without having
emitted one (`Unheard`), the document that a reconciliation has loaded is the one on disk,
after the apply `/proc` mirrors it, and after the projection so do the freeze files. What
`/proc` mirrors of a member in `fresh` is what `spawn_pai` takes (`Wired`).

Of `Releases`, from `ReleaseAssumption` (the oldest version is a version):

| theorem | states |
|---|---|
| `NoSilentSkewCorrect` | `ReleasesSpec => []NoSilentSkew`, for any versions, kernels and commands |
| `RelInvCorrect` | `ReleasesSpec => []RelInv`, from which it follows |

`LinkInv`: outside an update link and marker name one version. `SeenInv`: while all is
`Calm`, a thread of the hub that is about to act has read what is there. `ShownInv`: when no
thread is about to act and the timer is not set, the last one that acted has shown a skew
there is. `TimerInv`: the timer is set as long as a restart is recent. The proof of
`LinkInv` failed first, for a good reason: an update killed between the link and the marker
changes what the hub reads and pokes nobody, and within the three commands of the instance
TLC had not met the stale banner that this leaves. Hence `torn` (section 5). The types,
`RelTypes`, need that the directories which a collection leaves are again a sequence without
repetition: it is picked by ranks, and every rank up to the number of directories kept is
taken (`RankOnto`, `DirsOfType`).

Of `Hub`, from `HubAssumption` (a queue holds at least one message):

| theorem | states |
|---|---|
| `ShowsDiskCorrect` | `HubSpec => []ShowsDisk`, for any topics, clients and queue length |
| `HubTypeCorrect` | `HubSpec => []HubTypeOK` |
| `HubInvCorrect` | `HubSpec => []HubInv`, from which both follow |

`ReadInv`: what a worker has read is what the files say unless it will read again.
`StreamInv`: to a client that lost nothing, the last that its queue says of a topic, or what
it shows if the queue says nothing, is what the hub keeps; so the snapshot and the queue of a
client that joins meanwhile fit together. `LogInv`: each line of the log that the tail has
read is shown or queued. `HubEvents` is the type of what pokes.

Of `Machine`, from the assumptions of its five parts:

| theorem | states |
|---|---|
| `MachineTypeCorrect` | `Spec => []MachineTypeOK` |

As for `Tools`, the invariant is the conjunction of the parts' (`MachineInv`).

### 4.7 What is only model-checked

Every safety property of the runs, each type invariant and both refinements are theorems.
What stays with TLC is liveness: `InterruptEnds`, `Settles`, `ReloadNeverWedges`,
`EventServed`, `AwakeFires`, `ArmedFires`, `ShutdownEnds`, `StormEnds`. Weak and strong
fairness are statements about `ENABLED`, which the prover does not reason about. The two
statements that runs refute (section 5) have no theorem, of course.

## 5. Where code and words disagree

Two runs must find a violation; the counterexample is what the code does.

* `nt_injected_lost`. `inject.py:12` promises "no cancellation, no lost work" for a message
  queued into a running turn. If the provider fails the attempt after the message was
  drained, the retry (`nudge.py:1133`) starts from the old history and the opening turn: the
  message is gone, its sender was acknowledged.
* `hi_summary`. `compact.py:7-8` and `nudge.py:544` say that a compaction leaves a summary
  with which the next turn starts. Under the claudecode backend a turn is given the new user
  text only and its history is the session (`claude_backend.py:301`); the reset has just
  forgotten the session, so the summary is in the file and in no prompt.

Some modules end with further statements of the source that the code does not keep. No run
checks them; put in a configuration, each gives a counterexample.

| statement | source | what happens |
|---|---|---|
| `Supervisor!StartsOnce` | `supervisor.py:156`, `start` is "idempotent on repeated spec events" | a waiter's restart is in its fork, the slug is untracked, a notice starts it as well: two children, one in no table |
| `EventSpool!NothingDropped` | `KERNEL_EVENTS.md:228`, "nothing is silently dropped" | `clean.py:239` unlinks the spool before backfill and catch-up see it |
| `BashGate!DecidedOnce` | `actions.py:1023`, a decided record "is left untouched" | the kernel loads, the owner decides, the kernel writes its copy |
| `Subagents!EndsItself` | `subagent.py:648`, children "end via `subagent done --result`" | a turn outlives its killed child, the pid is given to another child, and `done` ends that one |
| `Fleet!PreservesOthers` | `config.py:578`, "Preserves every other key" | two editors load, both write: one edit is lost |
| `Fleet!StaysValid` | `config.py:237`, "same guard paiclone applies" | neither `paiclone` nor `paiadd` refuses a name with ":"; every later reload and boot raises |
| `Hub!RenameArrives` | `App.tsx:1063`, "the fleet SSE reconciles" | a rename changes no file that the fleet's worker compares, so nothing is broadcast |
| `Releases!StagedStays` | `pai.py:763`, "the kernel keeps running the old build" | the hub sees the skew and restarts the kernel |
| `Releases!StampIsTruth` | `build.py:3-6`, "ground truth" that "cannot drift" | the stamp resolves the links when it is written: a kernel that was started before an update repointed them stamps the new version and runs the old |
| `Packages!EditReaches` | `paiman.py:610-613`, a dep's edit reaches "anything that depends on it" | an up-to-date dep is skipped with all that it depends on |
| `FileTools!OldTextUnique` | `edit_tool.py:3-4`, "must be unique" | `"aaa".count("aa")` is 1: overlapping places are one |
| `FileTools!EndingsRestored` | `edit_tool.py:6-7`, line endings are restored | a file with mixed endings, or a lone CR, is rewritten with one kind |
| `FileTools!SedShowsLine` | `read_tool.py:113-116`, "Line N is ..., exceeds ...", read with `sed -n 'Np'` | the tool reads with universal newlines, sed does not: after a lone CR it prints another line, or none |

Others were met while modelling. The modules have the behaviour, and the properties are
stated so that they hold beside it.

*Turns, timers, services, events.*

* an interrupt that lands in the compaction turn is handled there, and the nudge goes on to
  its main turn (`nudge.py:1096`, `AfterCompact`; `KERNEL_EVENTS.md:143`);
* root's heartbeat is lost when it fires during an escalated turn, which no
  `_dispatch_nudge` will re-arm (`nudge.py:609`; `main.py:115`);
* a failing turn keeps its injection window open while it waits for root (`nudge.py:1142`;
  `inject.py:9`);
* a cron whose files are touched while its command is being forked ends up twice in the heap
  (`main.py:263`; `proc_watcher.py:94`), which is why `heap` counts and `NoDoubleFire` is
  about reminders;
* the sleep is not recomputed when a timer is armed during it (`main.py:1414`;
  `KERNEL.md:51`), hence `EventsArrive`;
* a cron with a deadline fires at its deadline instead of expiring (`main.py:258`;
  `paicron.py:292`), hence `Owed`;
* one unparsable schedule stops the boot (`timers.py:178`; `timers.py:169`) or ends the
  proc-watcher (`proc_watcher.py:135`), hence "while the watcher lives";
* a spec written between `rebuild_from_proc` and the observer's start is not armed
  (`main.py:1372`), hence `unseen`;
* a due reminder whose files are touched before the drain is dropped (`proc_watcher.py:102`;
  `KERNEL.md:51`), and one that comes due while the kernel is down is neither fired nor
  resolved (`timers.py:178`; `timers.py:4`), hence the exits of `ArmedFires`;
* a cancel during the fork of a restart leaves the new child running (`supervisor.py:98`;
  `proc_watcher.py:72`), and `paicron ensure` with a changed spec may leave the old command
  running (`proc_watcher.py:77`; `paicron.py:157`), hence `Plain`;
* a waiter restarts a service during the shutdown that stopped it (`supervisor.py:276`);
* a deferred service that was live at an orderly shutdown stays "running" without a child
  (`supervisor.py:263`; `main.py:1459`), which `QuietAgrees` excepts;
* an orderly restart of the kernel resolves every running service, so none resumes
  (`main.py:1478`; `supervisor.py:253`);
* a directory deleted during a fork orphans the child and ends the watcher
  (`supervisor.py:176`, `ForkOrphans`);
* an event file that is not UTF-8 stays in the spool, and stops a boot that has more than
  the threshold (`events.py:124`, `backfill.py:58`), hence `Stuck`.

*Approvals and subagents.*

* kernel and console write one `<record>.yaml.tmp`: the second `os.replace` raises, in the
  kernel into the turn or out of the boot (`KernelRaises`);
* a cancel during the half second after SIGTERM leaves the process group alive
  (`bash_tool.py:189`, `CancelsGrace`);
* pids come back (`subagent.py:27`): a message to a child that ended reaches its successor,
  two spawns at once take the same pid, and a child may be its own parent's parent, on which
  the cascade of an interrupt recurses until it raises;
* boot marks an interrupted child failed before it tells the parent (`clean.py:175`), and so
  does a kill (`processes.py:156`): cut in between, and the parent never hears, for nobody
  tells of a child that is not running, hence `hushed` in `EndIsTold`; an event that the
  first boot wrote is wiped by the second;
* a command typed into a persistent shell outlives the interrupt of its turn: nothing calls
  `shell_tool.interrupt` (`shell_tool.py:520`), so a `subagent done` may still end its child
  after the cascade, hence `cut` in `HeardOnce`;
* whose own slug `subagent done` resolves is found by pid (`subagent.py:326`): it may be
  another child, whose parent then hears nothing, hence `mistaken` in `EndIsTold`;
* children of a child that has ended are not reached by an interrupt (`main.py:339`).

*Fleet, drivers, packages, releases, hub.*

* a fleet PAI whose entry names a parent counts as an ad-hoc subagent: a plain reply ends
  it, until the next reconcile heals it (`nudge.py:88`, `config.py:890`);
* a document whose fleet part does not load is not projected either, so a capability that
  it revokes stays granted (`config.py:835`, `Reconciles`), hence `Valid` in `QuietMirrors`;
* a member that reconcile adds, or that `paiclone` makes, runs without its backend, display
  name and compaction thresholds until a later reconcile: `spawn_pai` takes none of them
  (`config.py:918-931`), although `config.py:43` lists them as managed, hence `Wired`;
* a member with a parent runs on when its entry is deleted (`config.py:943`), hence the last
  line of `Mirrors`;
* whoever probes for a running kernel takes its lock for a moment: a kernel that boots
  meanwhile exits as "already running" (`entry.py:43`);
* a build of the same version is no skew; an update to the version that runs removes the
  running directory before it extracts; two updates without provisioning let the collection
  remove the directory that the system tree points at; an update asks twice for a restart;
* an update that is killed between the link and the marker pokes nobody: the hub reads the
  link and watches the marker, so the skew is not shown until something else pokes its
  worker (`pai.py:630-631`, `hub.py:523-526`), hence `torn` in `NoSilentSkew`;
* the build's state is recomputed by a worker and by a timer, without a lock
  (`hub.py:691`);
* a console that finds itself stale executes itself at once; if an update has just removed
  the directory, nothing is executed and the console is gone (`hub.py:754-762`);
* which version runs is read off the links at the time of the stamp, not of the import
  (`build.py:73-76`), hence `StampIsTruth` fails;
* an `events.yaml` that cannot be read while `paiman` copies it makes reconcile cancel the
  running driver; a driver cancelled by the kernel's kill counts as failed;
* an installation that aborts after a dep is in place asks for no reload, no more than one with
  `--no-reload` or whose event cannot be written (`paiman.py:764-773`), hence `untold`; a dep
  that comes from git is cloned for each check, so offline the command aborts on one that is
  installed (`paiman.py:317-330`, `DepAborts`); a crash between
  copy and activation is never repaired, as the copy is current; two deps that share a third
  may be reported as a cycle; files that a bundle no longer has stay; a dep written with its
  kind is not seen by the check before a removal.

*Shell and history.*

* nothing calls `shell_tool.interrupt` (`shell_tool.py:520-527`): the command of a cancelled
  turn goes on, and its exit line answers the next call, hence the exception in `OwnAnswer`;
* keys that leave a quote open wedge the session until it is respawned;
* archives are named by the second, so two resets within one leave one archive; the model
  has a reset archive under a name of its own;
* the end of onboarding empties the transcript and keeps the session; a reset by the console
  in the middle of a turn is undone by the turn's save; an action queued by a turn that
  failed is applied by a later one; a cancel in a compaction turn is swallowed; hence `torn`
  and `overlap`.

## 6. What is not modelled, and why

Inside the modelled components:

* `NudgeTurns`: when a conversation is compacted is a choice (`History` has the thresholds).
* `Supervisor`: forks that raise, and children that outlive a killed kernel.
* `EventSpool`: two emitters that take one name in one microsecond, clocks that go back, an
  emitter that renames what the clean phase is unlinking; a rename into the archive that
  fails with the file still there, which the backfill counts and leaves
  (`backfill.py:141-142`); the backfill counts by kind alone.
* `BashGate`, `Fleet`, `Drivers`: writing a tmp file is one step, its rename another; how a
  command line is matched with the allowlist is left out, as are homes and their contents.
* `Subagents`: notes and browser tabs of a child. Commands, persistent shells included, end
  with the kernel; a killed kernel's orphans are left out.
* `History`: images, and the pruning of tool results within a turn.
* `Shell`: output of background jobs; whether the system tree refuses is a choice.
* `FileTools`: byte order marks, and limits of zero or less.
* `Drivers`: the panel's notion of a stale log, which is a clock.
* `Packages`: hooks of bundles, and the legacy kinds. `Releases`: checkouts and migrations;
  provisioning is one step that may fail.
* `Hub`: HTTP, and what a topic's snapshot contains. The topics of plans and threads, which
  are computed from the fleet that another worker keeps, and of which the second has two
  writers (`hub.py:586-603`, `669`, `780-785`). A log that shrinks (`hub.py:864-865`; nothing
  in the repository truncates it) and a read that ends within a line, which is sent as two
  (`hub.py:875`).

Texts, prompts, logging and file formats are left out everywhere; a schedule is what its
parser makes of it.

Components without a module: the tool loop's pruning and the LiteLLM proxy's process (the
loop's drain points are in `NudgeTurns`); prompt construction, front ends, setup wizard,
messaging command line, provisioning, migrations and the building of releases, which are
text, presentation, single writes and file copying without a protocol of their own. Bundles
(drivers, prompts) are installed from elsewhere and are not in this repository.

## 7. The plan

1. `NudgeTurns`, `Mailbox`; proofs of its safety and of the refinement. *Done.*
2. `Timers`, `Supervisor`, `EventSpool`, with their proofs. *Done.*
3. `BashGate`, `Subagents`, with their proofs. *Done.*
4. `Fleet`, `Drivers`, `History`, `Shell`, `FileTools`, `Packages`, `Releases`, `Hub`,
   `Tools`, `Machine`, with their proofs; `Delivery` and its refinement. *Done.*
5. `Proxy`: the LiteLLM subprocess, its start, probe and restart; the pruning of orphaned
   tool calls as an operator on conversations, against a definition of a well-formed one.
6. Allowlist matching and schedules against reference definitions.
7. Abstract specifications of an approval (decided once or overwritten by an expiry, run iff
   approved) and of a subagent's job (ends once, parent told once), implemented by
   `BashGate` and `Subagents`.

Theorems worth proving next: the refinements of the last item. Liveness stays with TLC.
