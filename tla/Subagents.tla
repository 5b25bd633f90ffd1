----------------------------- MODULE Subagents -----------------------------
(***************************************************************************)
(* Subagents: bin/subagent spawns, ends and kills them, the kernel wakes    *)
(* them, ends those that answer in plain text, stops them when the owner   *)
(* interrupts their parent, and at boot tells the parents of those that a  *)
(* kernel left running.  A pid is the lowest that no process directory     *)
(* has, so it comes back; who a child or a parent is, is found by pid.     *)
(***************************************************************************)
EXTENDS Naturals, FiniteSets

CONSTANTS Kids,       \* slugs: each is spawned once
          Kept,       \* those spawned with --suicide-allowed no
          KidLives,   \* bound: lives of the kernel
          KidMishaps  \* bound: interrupts, and commands that a timeout kills

ASSUME KidAssumption == IsFiniteSet(Kids) /\ Kept \subseteq Kids
                        /\ KidLives \in Nat \ {0} /\ KidMishaps \in Nat

VARIABLES
    sub,        \* sub[k]: its directory and status
    pidOf, dad, \* its pid, and the pid it has as parent; 0 before
    at,         \* at[k]: new (no first message yet), idle, turn, done (in `subagent done`)
    aim,        \* aim[k]: {whom its `subagent done` is about to resolve}
    ending,     \* ending[k]: how far a kill, or the boot, has come with k
    letters,    \* events in the spool
    heard,      \* heard[k]: completions of k that its parent was woken for; 2 is many
    announced,  \* kids whose end some event told
    stopped,    \* kids that the owner or a shutdown ended
    cut,        \* kids whose `subagent done` died, or lost its turn, half way
    hushed,     \* kids whose kill, or mark at boot, died before the word to the parent
    mistaken,      \* kids that the `subagent done` of another took for its own
    kidKernel,  \* up, down, or cleaning (the boot phase)
    kidLife,
    accidents     \* of the bound

kidVars == <<sub, pidOf, dad, at, aim, ending, letters, heard, announced, stopped, cut, hushed,
             mistaken, kidKernel, kidLife, accidents>>

Top == 2        \* the PAI that the owner talks to
PidRange == 0..(Top + Cardinality(Kids))
\* An event: to whom, and {whose completion it is}, if it is one.
Letters == [to : PidRange, done : SUBSET Kids]
Word(p) == [to |-> p, done |-> {}]

SubTypeOK ==
    /\ sub \in [Kids -> {"none", "numbered", "running", "failed", "gone"}]
    /\ pidOf \in [Kids -> PidRange] /\ dad \in [Kids -> PidRange]
    /\ at \in [Kids -> {"new", "idle", "turn", "done"}] /\ aim \in [Kids -> SUBSET Kids]
    /\ letters \subseteq Letters /\ heard \in [Kids -> 0..2]
    /\ ending \in [Kids -> {"no", "marked", "told"}]
    /\ announced \subseteq Kids /\ stopped \subseteq Kids /\ cut \subseteq Kids /\ hushed \subseteq Kids
    /\ mistaken \subseteq Kids /\ accidents \in 0..KidMishaps
    /\ kidKernel \in {"up", "down", "cleaning"} /\ kidLife \in 1..KidLives

SubInit ==
    /\ sub = [k \in Kids |-> "none"]
    /\ pidOf = [k \in Kids |-> 0] /\ dad = [k \in Kids |-> 0]
    /\ at = [k \in Kids |-> "new"] /\ aim = [k \in Kids |-> {}]
    /\ letters = {} /\ heard = [k \in Kids |-> 0]
    /\ ending = [k \in Kids |-> "no"]
    /\ announced = {} /\ stopped = {} /\ cut = {} /\ hushed = {} /\ mistaken = {}
    /\ kidKernel = "up" /\ kidLife = 1 /\ accidents = 0

-----------------------------------------------------------------------------
OnDisk == {k \in Kids : sub[k] \in {"running", "failed"}}
HasPid(p) == {k \in OnDisk : pidOf[k] = p}
Used == {1, Top} \cup {pidOf[k] : k \in OnDisk}
FreePid == CHOOSE p \in 1..(Top + Cardinality(Kids)) : p \notin Used /\ \A q \in 1..(p - 1) : q \in Used

\* What `subagent done` takes for its own slug, and whether that may end.
OwnSlug(k) == HasPid(pidOf[k])
MayFinish(j) == j \notin Kept

\* Whose commands run with $PAI_PID = p: a killed child's turn goes on.  The
\* commands of one pid run one after the other.
NotKilling(p) == \A k \in Kids : dad[k] = p => ending[k] = "no"
Acts(p) == NotKilling(p) /\ (p = Top \/ \E k \in Kids : at[k] = "turn" /\ pidOf[k] = p)
Stages == <<aim, ending, announced, stopped, cut, hushed, mistaken, heard>>
KillState == <<ending, stopped, hushed>>
Numbers == <<pidOf, dad>>
Life == <<kidKernel, kidLife, accidents>>
Up == kidKernel = "up"

\* cmd_spawn: the pid first, ...
Numbered(k, p) ==
    /\ Up /\ sub[k] = "none" /\ Acts(p)
    /\ sub' = [sub EXCEPT ![k] = "numbered"]
    /\ pidOf' = [pidOf EXCEPT ![k] = FreePid] /\ dad' = [dad EXCEPT ![k] = p]
    /\ UNCHANGED <<at, letters, Stages, Life>>

\* ... then the directory, ...
Spawned(k) ==
    /\ Up /\ sub[k] = "numbered" /\ sub' = [sub EXCEPT ![k] = "running"]
    /\ UNCHANGED <<at, letters, Numbers, Stages, Life>>

\* ... then the first message.
KickedOff(k) ==
    /\ Up /\ sub[k] = "running" /\ at[k] = "new" /\ at' = [at EXCEPT ![k] = "idle"]
    /\ letters' = letters \cup {Word(pidOf[k])}
    /\ UNCHANGED <<sub, Numbers, Stages, Life>>

Messages(p, k) ==
    /\ Up /\ Acts(p) /\ at[k] # "new"
    /\ letters' = letters \cup {Word(pidOf[k])}
    /\ UNCHANGED <<sub, at, Numbers, Stages, Life>>

\* The kernel takes a letter: the PAI with that pid gets a turn, or has it
\* injected; a letter to no PAI is dropped.
Delivered(e) ==
    /\ Up /\ e \in letters /\ letters' = letters \ {e}
    /\ heard' = [k \in Kids |-> IF k \in e.done /\ (e.to = Top \/ HasPid(e.to) # {})
                                THEN IF heard[k] = 0 THEN 1 ELSE 2 ELSE heard[k]]
    /\ IF \E k \in HasPid(e.to) : at[k] = "idle"
       THEN \E k \in HasPid(e.to) : at[k] = "idle" /\ at' = [at EXCEPT ![k] = "turn"]
       ELSE UNCHANGED at
    /\ UNCHANGED <<sub, Numbers, KillState, aim, announced, cut, mistaken, Life>>

Completion(k) == [to |-> dad[k], done |-> {k}]

\* cmd_done looks its own slug up by $PAI_PID, ...
DoneEmits(k, j) ==
    /\ Up /\ at[k] = "turn" /\ NotKilling(pidOf[k]) /\ aim[k] = {} /\ j \in OwnSlug(k) /\ MayFinish(j)
    /\ letters' = letters \cup {Completion(k)} /\ announced' = announced \cup {k}
    /\ at' = [at EXCEPT ![k] = "done"] /\ aim' = [aim EXCEPT ![k] = {j}]
    /\ mistaken' = mistaken \cup ({j} \ {k})
    /\ UNCHANGED <<sub, Numbers, KillState, cut, heard, Life>>

Mishap == accidents < KidMishaps /\ accidents' = accidents + 1

\* ... tells the parent and then resolves what it found.
Aimed(k, status) == [j \in Kids |-> IF j \in aim[k] /\ j \in OnDisk THEN status ELSE sub[j]]
DoneReturns(k) ==
    /\ Up /\ aim[k] # {} /\ aim' = [aim EXCEPT ![k] = {}]
    /\ at' = [at EXCEPT ![k] = IF @ = "done" THEN "turn" ELSE @]
    /\ UNCHANGED <<letters, Numbers, KillState, announced, mistaken, heard, kidKernel, kidLife>>

DoneResolves(k) == DoneReturns(k) /\ sub' = Aimed(k, "gone") /\ UNCHANGED <<cut, accidents>>

\* The command is killed by its tool's timeout, before the status or after it.
DoneDies(k) ==
    /\ DoneReturns(k) /\ Mishap /\ cut' = cut \cup {k}
    /\ sub' = sub \/ sub' = Aimed(k, "failed")

\* A turn that ends without words, or by an error.
QuietEnd(k) ==
    /\ Up /\ at[k] = "turn" /\ NotKilling(pidOf[k]) /\ at' = [at EXCEPT ![k] = "idle"]
    /\ UNCHANGED <<sub, letters, Numbers, Stages, Life>>

HasParent(k) == dad[k] = Top \/ HasPid(dad[k]) # {}

Relays(k) ==
    /\ letters' = letters \cup {Word(dad[k])} /\ UNCHANGED <<sub, announced>>

AutoFinishes(k) ==
    IF HasParent(k)
    THEN /\ letters' = letters \cup {Completion(k)} /\ announced' = announced \cup {k}
         /\ sub' = [sub EXCEPT ![k] = "gone"]
    ELSE UNCHANGED <<sub, letters, announced>>

\* Mutant of PlainEnd: the status at the start of the turn decides.
PlainEndStale(k) ==
    /\ Up /\ at[k] = "turn" /\ NotKilling(pidOf[k]) /\ at' = [at EXCEPT ![k] = "idle"]
    /\ IF k \in Kept THEN Relays(k) ELSE AutoFinishes(k)
    /\ UNCHANGED <<Numbers, KillState, aim, cut, mistaken, heard, Life>>

\* A turn that ends in plain text, unless its child is resolved by then.
PlainEnd(k) ==
    /\ Up /\ at[k] = "turn" /\ NotKilling(pidOf[k]) /\ at' = [at EXCEPT ![k] = "idle"]
    /\ CASE sub[k] # "running" -> UNCHANGED <<sub, letters, announced>>
         [] sub[k] = "running" /\ k \in Kept -> Relays(k)
         [] OTHER -> AutoFinishes(k)
    /\ UNCHANGED <<Numbers, KillState, aim, cut, mistaken, heard, Life>>

\* cmd_kill: the status, ...
KillMarks(p, k) ==
    /\ Up /\ Acts(p) /\ k \in OnDisk /\ dad[k] = p /\ ending[k] = "no"
    /\ sub' = [sub EXCEPT ![k] = "failed"] /\ ending' = [ending EXCEPT ![k] = "marked"]
    /\ UNCHANGED <<at, letters, Numbers, aim, announced, stopped, cut, hushed, mistaken, heard, Life>>

\* Mutant of KillTells: notify_parent=False, as in the other callers of resolve.
KillTellsNobody(k) ==
    /\ Up /\ ending[k] = "marked" /\ ending' = [ending EXCEPT ![k] = "told"]
    /\ UNCHANGED <<sub, at, letters, Numbers, aim, announced, stopped, cut, hushed, mistaken, heard, Life>>

\* ... the word to the parent, if the directory is still there, ...
KillTells(k) ==
    /\ Up /\ ending[k] = "marked"
    /\ IF sub[k] = "failed"
       THEN /\ ending' = [ending EXCEPT ![k] = "told"]
            /\ letters' = letters \cup {Word(dad[k])} /\ announced' = announced \cup {k}
       ELSE ending' = [ending EXCEPT ![k] = "no"] /\ UNCHANGED <<letters, announced>>
    /\ UNCHANGED <<sub, at, Numbers, aim, stopped, cut, hushed, mistaken, heard, Life>>

\* ... and the directory goes.  A turn of the child that runs goes on.
RmTree(k) ==
    /\ ending[k] = "told" /\ ending' = [ending EXCEPT ![k] = "no"]
    /\ sub' = [sub EXCEPT ![k] = "gone"]
    /\ UNCHANGED <<at, letters, Numbers, aim, announced, stopped, cut, hushed, mistaken, heard, Life>>

\* The command is killed by its tool's timeout.
KillDies(k) ==
    /\ Up /\ Mishap /\ ending[k] # "no" /\ ending' = [ending EXCEPT ![k] = "no"]
    /\ hushed' = IF ending[k] = "marked" THEN hushed \cup {k} ELSE hushed
    /\ UNCHANGED <<sub, at, letters, Numbers, aim, announced, stopped, cut, mistaken, heard,
                   kidKernel, kidLife>>

\* Running descendants, found by pid.
Running == {k \in Kids : sub[k] = "running"}
Under(p) ==
    LET below[n \in 0..Cardinality(Kids)] ==
            IF n = 0 THEN {}
            ELSE {k \in Running : dad[k] = p \/ \E j \in below[n - 1] : dad[k] = pidOf[j]}
    IN  below[Cardinality(Kids)]
Unborn == {k \in Kids : sub[k] = "numbered"}
Halted(K) == [k \in Kids |-> IF k \in K /\ at[k] \in {"turn", "done"} THEN "idle" ELSE at[k]]

\* Some turns end, and with them the commands of bash_tool.  What was typed
\* into a persistent shell goes on: nothing calls shell_tool.interrupt.
TurnsEnd(hit, dying) ==
    /\ sub' = [k \in Kids |-> IF k \in dying THEN "gone" ELSE sub[k]]
    /\ stopped' = stopped \cup dying /\ at' = Halted(hit)
    /\ cut' = cut \cup {k \in hit : aim[k] # {}}
    /\ UNCHANGED <<letters, Numbers, announced, mistaken, heard>>
CommandsEnd(hit, kills) ==
    /\ aim' = [k \in Kids |-> IF k \in hit THEN {} ELSE aim[k]]
    /\ ending' = [k \in Kids |-> IF k \in kills THEN "no" ELSE ending[k]]
    /\ hushed' = hushed \cup {k \in kills : ending[k] = "marked"}

\* The owner interrupts pid p: its turns end, and every descendant with its
\* turns; a circle of parents makes the cascade raise.
Interrupts(p, persistent) ==
    LET below == Under(p)
        pids == {p} \cup {pidOf[j] : j \in below}
        hit == {k \in Kids : pidOf[k] \in pids}
        kids == {k \in Kids : dad[k] \in pids}
    IN  /\ Up /\ Mishap /\ \A k \in below : k \notin Under(pidOf[k])
        /\ TurnsEnd(hit, below \cup (Unborn \cap kids))
        /\ IF persistent THEN UNCHANGED <<aim, ending, hushed>> ELSE CommandsEnd(hit, kids)
        /\ UNCHANGED <<kidKernel, kidLife>>

-----------------------------------------------------------------------------
KernelEnds(dying) ==
    /\ kidKernel # "down" /\ kidKernel' = "down"
    /\ TurnsEnd(Kids, dying) /\ CommandsEnd(Kids, Kids) /\ UNCHANGED <<kidLife, accidents>>

\* run()'s finally: subagents are kept for kernel:restart only.
StopsAll == Up /\ KernelEnds(Running \cup Unborn)
RestartsAll == Up /\ KernelEnds(Unborn)
CrashesAll == KernelEnds(Unborn)

\* clean.run: the spool is wiped, ...
CleanBegins ==
    /\ kidKernel = "down" /\ kidLife < KidLives
    /\ kidKernel' = "cleaning" /\ kidLife' = kidLife + 1 /\ letters' = {}
    /\ UNCHANGED <<sub, at, Numbers, Stages, accidents>>

\* ... what still runs is marked failed, ...
CleanMarks(k) ==
    /\ kidKernel = "cleaning" /\ sub[k] = "running" /\ \A j \in Kids : ending[j] = "no"
    /\ sub' = [sub EXCEPT ![k] = "failed"] /\ ending' = [ending EXCEPT ![k] = "marked"]
    /\ UNCHANGED <<at, letters, Numbers, aim, announced, stopped, cut, hushed, mistaken, heard, Life>>

\* ... its parent is told, and its directory is removed (RmTree).
CleanTells(k) ==
    /\ kidKernel = "cleaning" /\ ending[k] = "marked" /\ ending' = [ending EXCEPT ![k] = "told"]
    /\ letters' = letters \cup {Completion(k)} /\ announced' = announced \cup {k}
    /\ UNCHANGED <<sub, at, Numbers, aim, stopped, cut, hushed, mistaken, heard, Life>>

CleanEnds ==
    /\ kidKernel = "cleaning" /\ Running = {} /\ \A k \in Kids : ending[k] = "no"
    /\ kidKernel' = "up"
    /\ UNCHANGED <<sub, at, letters, Numbers, Stages, kidLife, accidents>>

-----------------------------------------------------------------------------
SubNext ==
    \/ \E k \in Kids, p \in PidRange : Numbered(k, p) \/ KillMarks(p, k) \/ Messages(p, k)
    \/ \E k \in Kids : Spawned(k) \/ KickedOff(k) \/ DoneResolves(k) \/ DoneDies(k)
                       \/ QuietEnd(k) \/ PlainEnd(k) \/ KillTells(k) \/ KillDies(k)
                       \/ RmTree(k) \/ CleanMarks(k) \/ CleanTells(k)
    \/ \E k, j \in Kids : DoneEmits(k, j)
    \/ \E e \in letters : Delivered(e)
    \/ \E p \in PidRange, persistent \in BOOLEAN : Interrupts(p, persistent)
    \/ StopsAll \/ RestartsAll \/ CrashesAll \/ CleanBegins \/ CleanEnds

SubSpec == SubInit /\ [][SubNext]_kidVars

-----------------------------------------------------------------------------
(* Properties. *)

\* subagent.py:648: children "end via `subagent done --result`": a `done`
\* ends the child that runs it.  The code does not keep this: the pid by
\* which cmd_done finds its own slug may be another child's by then.
EndsItself == mistaken = {}

\* nudge.py:101: the kernel's own ending of a child that answers in plain
\* text must not repeat the completion that `subagent done`, or a boot, has
\* already sent: while no two children share a pid, a parent is woken for a
\* completion once, unless between event and resolution the command died, or the
\* owner interrupted the turn that had typed it into a persistent shell.
HeardOnce == EndsItself => \A k \in Kids \ cut : heard[k] <= 1

\* subagent.py:22-25, clean.py:141-148: no child comes to an end in silence.  Of one
\* whose status says that it is over, once what ended it is past its event, its
\* own parent has been sent the word -- whatever kills, timeouts, interrupts,
\* crashes and boots came in between -- with three exceptions: the owner or a
\* shutdown ended it; a kill, or the boot, died between its status and the event
\* (nobody tells of a child that is not "running"); and the `done` of another
\* child took it for its own, by a pid that had come back: then it is of the other
\* that the other's parent hears, and the child's own parent hears nothing.
HasEnded(k) == sub[k] = "gone" \/ (sub[k] = "failed" /\ ending[k] # "marked")
EndIsTold ==
    \A k \in Kids : HasEnded(k) =>
        k \in announced \cup stopped \cup hushed \cup mistaken
=============================================================================
