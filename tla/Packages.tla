------------------------------ MODULE Packages ------------------------------
(***************************************************************************)
(* paiman: bundles are copied from the registry into /opt/paiman and       *)
(* activated by a link or a shim; what a bundle depends on goes first, if  *)
(* it is not there or differs from the registry.  Two people, or a PAI and *)
(* a person, may run it at once: nothing is locked.  At the end the kernel *)
(* is asked to reload.                                                     *)
(***************************************************************************)
EXTENDS Naturals, SequencesExt

CONSTANTS Bundles,
          Deps,          \* Deps[b]: `deps:` of b's manifest, in order
          PaiBundles,    \* bundles of kind pai: what they list is kept
          Reloading,     \* bundles of kinds skill, prompt, driver
          Shells,        \* where paiman is run from
          Editions,      \* bound: versions that the registry ships
          PackageRuns    \* bound: commands

ASSUME PackagesAssumption ==
    /\ Deps \in [Bundles -> Seq(Bundles)] /\ PaiBundles \subseteq Bundles
    /\ Reloading \subseteq Bundles /\ Editions \in Nat \ {0} /\ PackageRuns \in Nat

VARIABLES
    published,   \* published[b]: the version that the registry ships
    staged,      \* staged[b]: the version in /opt/paiman; 0 is none
    slots,       \* bundles whose activation is in place
    command,     \* command[s]: what paiman does in that shell
    reloadAsked, \* a kernel:reload_config waits in the spool
    loaded,      \* bundles that the kernel's last reload has seen
    runs,        \* of the bound
    untold       \* history: what a command has changed and not told the kernel of,
                 \* when it ended

packageVars == <<published, staged, slots, command, reloadAsked, loaded, runs, untold>>

Shipped == 1..Editions
Broken == Editions + 1      \* a copy that was cut: it has a manifest, and lacks files
NoCommand == [op |-> "none", phase |-> "done", top |-> {}, stack |-> << >>, seen |-> {},
              kinds |-> {}, shelf |-> [b \in Bundles |-> 0], fetched |-> FALSE]

PackagesTypeOK ==
    /\ published \in [Bundles -> Shipped] /\ staged \in [Bundles -> 0..Broken]
    /\ slots \subseteq Bundles /\ loaded \subseteq Reloading /\ reloadAsked \in BOOLEAN
    /\ \A s \in Shells :
         /\ command[s].op \in {"none", "install", "remove"}
         /\ command[s].phase \in {"done", "deps", "copy", "activate", "unlink", "rmtree", "emit"}
         /\ \A i \in 1..Len(command[s].stack) : command[s].stack[i].bundle \in Bundles
         /\ command[s].seen \subseteq Bundles /\ command[s].kinds \subseteq Bundles
    /\ runs \in 0..PackageRuns /\ untold \subseteq Reloading

PackagesInit ==
    /\ published = [b \in Bundles |-> 1] /\ staged = [b \in Bundles |-> 0] /\ slots = {}
    /\ command = [s \in Shells |-> NoCommand] /\ reloadAsked = FALSE /\ loaded = {}
    /\ runs = 0 /\ untold = {}

-----------------------------------------------------------------------------
Staging == <<published, staged, slots>>
ReloadState == <<reloadAsked, loaded>>
NobodyRuns == \A s \in Shells : command[s].phase = "done"
Installed(b) == staged[b] # 0

BeginsCommand(s, start) ==
    /\ command[s].phase = "done" /\ runs < PackageRuns /\ runs' = runs + 1
    /\ command' = [command EXCEPT ![s] = start]

\* cmd_install: a bundle that is given by its name has had the registry fetched,
\* one that is given by its path has not.
InstallsBundle(s, b, fetched) ==
    /\ BeginsCommand(s, [NoCommand EXCEPT !.op = "install", !.phase = "deps", !.top = {b},
                        !.seen = {b}, !.stack = <<[bundle |-> b, next |-> 1]>>, !.shelf = published,
                        !.fetched = fetched])
    /\ UNCHANGED <<Staging, ReloadState, untold>>

Frame(s) == Last(command[s].stack)
AllDeps(s) == Frame(s).next > Len(Deps[Frame(s).bundle])
Dep(s) == Deps[Frame(s).bundle][Frame(s).next]
NextDep(stack) == [stack EXCEPT ![Len(stack)].next = @ + 1]
ToPhase(s, phase) == command' = [command EXCEPT ![s].phase = phase]

\* What a command has changed, or is changing, of what a reload is for.
Touched(s) ==
    IF command[s].phase = "done" THEN {}
    ELSE Reloading \cap (command[s].kinds \cup
           IF command[s].phase \in {"copy", "activate"} THEN {Frame(s).bundle} ELSE {})
Untells(s) == untold' = untold \cup Touched(s)

\* One entry of `deps:`.  What is there is left alone when the registry ships
\* the same files; or when its lookup raises SystemExit, for a registry that is
\* no directory or whose tarball cannot be fetched.
UpToDate(s, d) == Installed(d) /\ staged[d] = command[s].shelf[d]
DepSkipped(s) ==
    /\ command[s].phase = "deps" /\ ~AllDeps(s)
    /\ \E fetched \in {b \in BOOLEAN : IF b THEN UpToDate(s, Dep(s))
                                          ELSE Installed(Dep(s)) /\ ~command[s].fetched} :
          command' = [command EXCEPT ![s].stack = NextDep(@), ![s].fetched = fetched]
    /\ UNCHANGED <<Staging, ReloadState, runs, untold>>

DepPushed(s) ==
    /\ command[s].phase = "deps" /\ ~AllDeps(s) /\ ~UpToDate(s, Dep(s))
    /\ Dep(s) \notin command[s].seen
    /\ command' = [command EXCEPT ![s].seen = @ \cup {Dep(s)}, ![s].fetched = TRUE,
                     ![s].stack = Append(NextDep(@), [bundle |-> Dep(s), next |-> 1])]
    /\ UNCHANGED <<Staging, ReloadState, runs, untold>>

\* A dep that is not there and cannot be looked up, a git clone that fails,
\* whatever is there, or a cycle: the command ends.  What it installed until then
\* stays, and the kernel is not told.
DepAborts(s) ==
    /\ command[s].phase = "deps" /\ ~AllDeps(s)
    /\ ~command[s].fetched \/ (~UpToDate(s, Dep(s)) /\ Dep(s) \in command[s].seen)
    /\ command' = [command EXCEPT ![s] = NoCommand] /\ Untells(s)
    /\ UNCHANGED <<Staging, ReloadState, runs>>

\* shutil.rmtree of the old copy; then copytree, which raises if another
\* command made the directory meanwhile; then the link or the shim.
Wipes(s) ==
    /\ command[s].phase = "deps" /\ AllDeps(s)
    /\ staged' = [staged EXCEPT ![Frame(s).bundle] = 0] /\ ToPhase(s, "copy")
    /\ UNCHANGED <<published, slots, ReloadState, runs, untold>>

Copies(s) ==
    /\ command[s].phase = "copy" /\ staged[Frame(s).bundle] = 0
    /\ staged' = [staged EXCEPT ![Frame(s).bundle] = command[s].shelf[Frame(s).bundle]]
    /\ ToPhase(s, "activate") /\ UNCHANGED <<published, slots, ReloadState, runs, untold>>

Activates(s) ==
    /\ command[s].phase = "activate" /\ slots' = slots \cup {Frame(s).bundle}
    /\ command' = [command EXCEPT
         ![s].kinds = @ \cup {Frame(s).bundle}, ![s].stack = Front(@),
         ![s].phase = IF Len(command[s].stack) = 1 THEN "emit" ELSE "deps"]
    /\ UNCHANGED <<published, staged, ReloadState, runs, untold>>

\* The end of cmd_install and of cmd_remove.
OnlyTheTop(s) ==     \* Mutant of Reloads: the kind of the bundle asked for alone.
    command[s].top \cap Reloading # {}
Reloads(s) == command[s].kinds \cap Reloading # {}
EmitsReload(s) ==
    /\ command[s].phase = "emit" /\ command' = [command EXCEPT ![s] = NoCommand]
    /\ reloadAsked' = (reloadAsked \/ Reloads(s)) /\ UNCHANGED <<Staging, loaded, runs, untold>>

\* An installation with --no-reload, which is looked at here alone; or an
\* emit_event that raises, of which only a warning is printed.
EndsUntold(s) ==
    /\ command[s].phase = "emit" /\ Reloads(s)
    /\ command' = [command EXCEPT ![s] = NoCommand] /\ Untells(s)
    /\ UNCHANGED <<Staging, ReloadState, runs>>

\* paisetup installs with --no-reload and emits once, after its batch.
BatchEmits ==
    /\ untold # {} /\ reloadAsked' = TRUE
    /\ UNCHANGED <<Staging, command, loaded, runs, untold>>

\* cmd_remove, unless an installed PAI bundle lists b: the activation goes,
\* then the directory.
Dependents(b) == {p \in PaiBundles \ {b} : Installed(p) /\ b \in Range(Deps[p])}
RemovesBundle(s, b, force) ==
    /\ Installed(b) /\ (Dependents(b) = {} \/ force)
    /\ BeginsCommand(s, [NoCommand EXCEPT !.op = "remove", !.phase = "unlink", !.top = {b},
                     !.kinds = {b}])
    /\ UNCHANGED <<Staging, ReloadState, untold>>

Unlinks(s) ==
    /\ command[s].phase = "unlink" /\ slots' = slots \ command[s].top /\ ToPhase(s, "rmtree")
    /\ UNCHANGED <<published, staged, ReloadState, runs, untold>>

RmTrees(s) ==
    /\ command[s].phase = "rmtree" /\ \A b \in command[s].top : Installed(b)
    /\ staged' = [b \in Bundles |-> IF b \in command[s].top THEN 0 ELSE staged[b]]
    /\ ToPhase(s, "emit") /\ UNCHANGED <<published, slots, ReloadState, runs, untold>>

\* ^C, a kill, a full disk, an rmtree or copytree that raises.  A copy that is
\* cut leaves some of the files.
Killed(s) ==
    /\ command[s].phase # "done" /\ command' = [command EXCEPT ![s] = NoCommand]
    /\ Untells(s)
    /\ \/ UNCHANGED staged
       \/ /\ command[s].phase = "copy" /\ staged[Frame(s).bundle] = 0
          /\ staged' = [staged EXCEPT ![Frame(s).bundle] = Broken]
    /\ UNCHANGED <<published, slots, ReloadState, runs>>

Publishes(b) ==
    /\ published[b] < Editions /\ published' = [published EXCEPT ![b] = @ + 1]
    /\ UNCHANGED <<staged, slots, command, ReloadState, runs, untold>>

KernelReloads ==
    /\ reloadAsked /\ reloadAsked' = FALSE /\ loaded' = {b \in slots \cap Reloading : Installed(b)}
    /\ untold' = {} /\ UNCHANGED <<Staging, command, runs>>

ShellStep(s) ==
    \/ \E b \in Bundles, fetched \in BOOLEAN : InstallsBundle(s, b, fetched)
    \/ \E b \in Bundles, force \in BOOLEAN : RemovesBundle(s, b, force)
    \/ DepSkipped(s) \/ DepPushed(s) \/ DepAborts(s) \/ Wipes(s) \/ Copies(s) \/ Activates(s)
    \/ EmitsReload(s) \/ EndsUntold(s) \/ Unlinks(s) \/ RmTrees(s) \/ Killed(s)

PackagesNext ==
    \/ \E s \in Shells : ShellStep(s)
    \/ \E b \in Bundles : Publishes(b)
    \/ BatchEmits \/ KernelReloads

PackagesSpec == PackagesInit /\ [][PackagesNext]_packageVars

-----------------------------------------------------------------------------

\* When nobody installs and no reload waits, the kernel runs the drivers, skills
\* and prompts that are activated, and no others (paiman.py:764-774, 861-872): a
\* chain of deps, two commands at once or a removal of a part hide none from it.
\* The exception is a bundle that a command changed and then ended without
\* asking, by its --no-reload, an emit that raised, an abort or a kill: until
\* the next reload, whoever asks for it, and that bundle alone.
KernelFollows ==
    NobodyRuns /\ ~reloadAsked =>
        \A b \in Reloading \ untold : b \in loaded <=> b \in slots /\ Installed(b)

\* "A registry edit to a dep must reach the runtime on the next install of
\* anything that depends on it" (paiman.py:610-613), the deps of deps included.
EditReaches ==
    \A s \in Shells :
        command[s].phase = "emit" /\ command[s].op = "install"
            /\ command[s].fetched /\ \A t \in Shells \ {s} : command[t].phase = "done"
        => \A b \in command[s].top : \A d \in Range(Deps[b]) : \A e \in Range(Deps[d]) :
               staged[e] = command[s].shelf[e]
=============================================================================
