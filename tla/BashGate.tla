------------------------------ MODULE BashGate ------------------------------
(***************************************************************************)
(* The owner's approval of a shell command: a record in                    *)
(* var/spool/approvals that the kernel stages and waits for, and that the  *)
(* console decides.  Both load the record, test that it is pending, write  *)
(* <record>.yaml.tmp -- the same name for both -- and rename it.  No lock  *)
(* is shared.  Then the command runs in a process group of its own.        *)
(***************************************************************************)
EXTENDS Naturals

CONSTANTS Commands,   \* tool calls that ask to run a command
          Tabs,       \* requests to the web backend that may be in flight
          Stubborn,   \* commands that do not end on SIGTERM
          GateBoots   \* bound: lives of the kernel

ASSUME GateAssumption == Stubborn \subseteq Commands /\ GateBoots \in Nat \ {0}

VARIABLES
    record,    \* record[c]: status and text of its approval record
    draft,     \* draft[c]: {what the record's tmp file holds}, or {}
    call,      \* call[c]: where the kernel's tool call is
    seen,      \* seen[c]: the text that the kernel's load returned
    clicks,    \* decisions that the web backend is about to write
    mode,      \* capabilities.bash_exec
    rules,     \* commands that bash_allowlist allows
    free,      \* calls that clear() let pass without asking
    granted,   \* <<command, text>> that the owner has approved
    ran,       \* ran[c]: the text that ran, or "none"
    tree,      \* tree[c]: whether its process group is alive
    gate,      \* the kernel: booting (sweep_stale), up, down
    gateLives

gateVars == <<record, draft, call, seen, clicks, mode, rules, free, granted, ran, tree, gate, gateLives>>

Texts == {"asked", "edited"}
Decided == {"approved", "rejected", "expired"}
Records == [status : {"none", "pending"} \cup Decided, text : Texts]
Clicks == [tab : Tabs, at : {"read", "written"}, c : Commands, to : Records]

Waits == {"waiting", "late"}
\* Code without an await: no other coroutine of the kernel runs meanwhile.
Expiring == {"expire", "expired", "cancel", "cancelled", "sweep", "swept"}
Ended == {"returned", "refused", "raised", "interrupted", "gone"}

GateTypeOK ==
    /\ record \in [Commands -> Records]
    /\ draft \in [Commands -> SUBSET Records]
    /\ call \in [Commands -> {"idle", "running", "grace"} \cup Waits \cup Expiring \cup Ended]
    /\ seen \in [Commands -> Texts]
    /\ clicks \subseteq Clicks
    /\ mode \in {"yes", "ask", "no"} /\ rules \subseteq Commands /\ free \subseteq Commands
    /\ granted \subseteq Commands \X Texts
    /\ ran \in [Commands -> Texts \cup {"none"}]
    /\ tree \in [Commands -> BOOLEAN]
    /\ gate \in {"booting", "up", "down"} /\ gateLives \in 1..GateBoots

GateInit ==
    /\ record = [c \in Commands |-> [status |-> "none", text |-> "asked"]]
    /\ draft = [c \in Commands |-> {}]
    /\ call = [c \in Commands |-> "idle"] /\ seen = [c \in Commands |-> "asked"]
    /\ clicks = {}
    /\ mode = "ask" /\ rules = {} /\ free = {} /\ granted = {}
    /\ ran = [c \in Commands |-> "none"] /\ tree = [c \in Commands |-> FALSE]
    /\ gate = "up" /\ gateLives = 1

-----------------------------------------------------------------------------
(* The kernel. *)

Idle == \A c \in Commands : call[c] \notin Expiring
Owner == <<clicks, mode, rules, granted>>

\* bash_tool.run: start_new_session, so the group outlives the kernel.
StartsRun(c, text) ==
    /\ call' = [call EXCEPT ![c] = "running"]
    /\ ran' = [ran EXCEPT ![c] = text] /\ tree' = [tree EXCEPT ![c] = TRUE]

\* clear(): the mode, then the allowlist, then a staged record.
ClearPasses(c) ==
    /\ gate = "up" /\ Idle /\ call[c] = "idle"
    /\ mode = "yes" \/ (mode = "ask" /\ c \in rules)
    /\ free' = free \cup {c} /\ StartsRun(c, "asked")
    /\ UNCHANGED <<record, draft, seen, Owner, gate, gateLives>>

ClearRefuses(c) ==
    /\ gate = "up" /\ Idle /\ call[c] = "idle" /\ mode = "no"
    /\ call' = [call EXCEPT ![c] = "refused"]
    /\ UNCHANGED <<record, draft, seen, Owner, free, ran, tree, gate, gateLives>>

ClearStages(c) ==
    /\ gate = "up" /\ Idle /\ call[c] = "idle" /\ mode = "ask" /\ c \notin rules
    /\ record' = [record EXCEPT ![c].status = "pending"]
    /\ call' = [call EXCEPT ![c] = "waiting"]
    /\ UNCHANGED <<draft, seen, Owner, free, ran, tree, gate, gateLives>>

DeadlinePasses(c) ==
    /\ gate = "up" /\ Idle /\ call[c] = "waiting" /\ call' = [call EXCEPT ![c] = "late"]
    /\ UNCHANGED <<record, draft, seen, Owner, free, ran, tree, gate, gateLives>>

\* The observer or the two-second slice wakes the waiter, which re-reads.
SeesDecision(c) ==
    /\ gate = "up" /\ Idle /\ call[c] \in Waits /\ record[c].status \in Decided
    /\ IF record[c].status = "approved" THEN StartsRun(c, record[c].text)
       ELSE call' = [call EXCEPT ![c] = "refused"] /\ UNCHANGED <<ran, tree>>
    /\ UNCHANGED <<record, draft, seen, Owner, free, gate, gateLives>>

\* _load returns a record that is pending.
Loads(c, to) ==
    /\ Idle /\ record[c].status = "pending"
    /\ call' = [call EXCEPT ![c] = to] /\ seen' = [seen EXCEPT ![c] = record[c].text]
    /\ UNCHANGED <<record, draft, Owner, free, ran, tree, gate, gateLives>>

WaiterExpires(c) == gate = "up" /\ call[c] = "late" /\ Loads(c, "expire")

Interrupted(c) ==
    /\ call' = [call EXCEPT ![c] = "interrupted"]
    /\ UNCHANGED <<record, draft, seen, Owner, free, ran, tree, gate, gateLives>>

\* Mutant of CancelExpires: the waiter goes and leaves its record.
CancelLeaves(c) == gate = "up" /\ Idle /\ call[c] \in Waits /\ Interrupted(c)

\* An interrupt of the turn takes the record out of the tray.
CancelExpires(c) == gate = "up" /\ call[c] \in Waits /\ Loads(c, "cancel")

CancelDecided(c) ==
    gate = "up" /\ Idle /\ call[c] \in Waits /\ record[c].status \in Decided /\ Interrupted(c)

\* sweep_stale, at boot: records whose waiter died with an earlier kernel.
SweepExpires(c) == gate = "booting" /\ call[c] = "gone" /\ Loads(c, "sweep")

\* _atomic_dump, first the tmp file ...
KernelWrites(c) ==
    /\ \E x \in {<<"expire", "expired">>, <<"cancel", "cancelled">>, <<"sweep", "swept">>} :
          call[c] = x[1] /\ call' = [call EXCEPT ![c] = x[2]]
    /\ draft' = [draft EXCEPT ![c] = {[status |-> "expired", text |-> seen[c]]}]
    /\ UNCHANGED <<record, seen, Owner, free, ran, tree, gate, gateLives>>

\* ... then the rename, ...
KernelRenames(c) ==
    /\ \E x \in {<<"expired", "refused">>, <<"cancelled", "interrupted">>, <<"swept", "gone">>} :
          call[c] = x[1] /\ call' = [call EXCEPT ![c] = x[2]]
    /\ \E r \in draft[c] : record' = [record EXCEPT ![c] = r]
    /\ draft' = [draft EXCEPT ![c] = {}]
    /\ UNCHANGED <<seen, Owner, free, ran, tree, gate, gateLives>>

\* ... which raises when the console has renamed the file away: into the
\* turn, or out of the boot.
KernelRaises(c) ==
    /\ draft[c] = {} /\ call[c] \in {"expired", "cancelled", "swept"}
    /\ call' = [call EXCEPT ![c] = IF @ = "swept" THEN "gone" ELSE "raised"]
    /\ gate' = IF call[c] = "swept" THEN "down" ELSE gate
    /\ UNCHANGED <<record, draft, seen, Owner, free, ran, tree, gateLives>>

SweepDone ==
    /\ gate = "booting" /\ Idle /\ \A c \in Commands : call[c] = "gone" => record[c].status # "pending"
    /\ gate' = "up"
    /\ UNCHANGED <<record, draft, call, seen, Owner, free, ran, tree, gateLives>>

GateStops ==
    /\ gate # "down" /\ gate' = "down"
    /\ call' = [c \in Commands |-> IF call[c] \in {"idle"} \cup Ended THEN call[c] ELSE "gone"]
    /\ UNCHANGED <<record, draft, seen, Owner, free, ran, tree, gateLives>>

GateStarts ==
    /\ gate = "down" /\ gateLives < GateBoots
    /\ gate' = "booting" /\ gateLives' = gateLives + 1
    /\ UNCHANGED <<record, draft, call, seen, Owner, free, ran, tree>>

-----------------------------------------------------------------------------
(* bash_tool.run, once it has a process group. *)

RunMoves(c, from, to) ==
    /\ gate = "up" /\ Idle /\ call[c] = from /\ call' = [call EXCEPT ![c] = to]
    /\ UNCHANGED <<record, draft, seen, Owner, free, ran, gate, gateLives>>

CommandEnds(c) == RunMoves(c, "running", "returned") /\ tree' = [tree EXCEPT ![c] = FALSE]

\* SIGTERM to the group, and half a second.
TimesOut(c) == RunMoves(c, "running", "grace") /\ tree' = [tree EXCEPT ![c] = c \in Stubborn]

\* SIGKILL to what is left.
GraceEnds(c) == RunMoves(c, "grace", "returned") /\ tree' = [tree EXCEPT ![c] = FALSE]

CancelsRun(c) == RunMoves(c, "running", "interrupted") /\ tree' = [tree EXCEPT ![c] = FALSE]

\* The handler of CancelledError does not cover the wait after SIGTERM.
CancelsGrace(c) == RunMoves(c, "grace", "interrupted") /\ UNCHANGED tree

-----------------------------------------------------------------------------
(* The console: actions._decide, in a thread of the web backend. *)

Kernel == <<call, seen, free, ran, tree, gate, gateLives>>

Clicking(w, c, status, text) ==
    /\ \A k \in clicks : k.tab # w
    /\ record[c].status = "pending" /\ (text = "edited" \/ text = record[c].text)
    /\ granted' = IF status = "approved" THEN granted \cup {<<c, text>>} ELSE granted
    /\ UNCHANGED <<record, draft, mode, rules, Kernel>>

\* Mutant of DecisionLoads: the edited text is not merged into the record.
LoadsUnmerged(w, c, status, text) ==
    /\ Clicking(w, c, status, text)
    /\ clicks' = clicks \cup {[tab |-> w, at |-> "read", c |-> c,
                               to |-> [status |-> status, text |-> record[c].text]]}

\* The owner decides on what a tab shows, edited or not; the record is
\* loaded once more and is still pending.
DecisionLoads(w, c, status, text) ==
    /\ Clicking(w, c, status, text)
    /\ clicks' = clicks \cup {[tab |-> w, at |-> "read", c |-> c,
                               to |-> [status |-> status, text |-> text]]}

DecisionWrites(k) ==
    /\ k.at = "read" /\ clicks' = (clicks \ {k}) \cup {[k EXCEPT !.at = "written"]}
    /\ draft' = [draft EXCEPT ![k.c] = {k.to}]
    /\ UNCHANGED <<record, mode, rules, granted, Kernel>>

\* The rename fails, in the web backend, when the tmp file is gone.
DecisionRenames(k) ==
    /\ k.at = "written" /\ clicks' = clicks \ {k}
    /\ record' = [c \in Commands |-> IF c = k.c /\ draft[c] # {}
                                     THEN CHOOSE r \in draft[c] : TRUE ELSE record[c]]
    /\ draft' = [draft EXCEPT ![k.c] = {}]
    /\ UNCHANGED <<mode, rules, granted, Kernel>>

\* "Approve & always allow", before the decision itself.
AlwaysAllows(c) ==
    /\ record[c].status = "pending" /\ rules' = rules \cup {c}
    /\ UNCHANGED <<record, draft, clicks, mode, granted, Kernel>>

SetsMode(m) == mode' = m /\ UNCHANGED <<record, draft, clicks, rules, granted, Kernel>>

-----------------------------------------------------------------------------
KernelOf(c) ==
    \/ ClearPasses(c) \/ ClearRefuses(c) \/ ClearStages(c)
    \/ DeadlinePasses(c) \/ SeesDecision(c) \/ WaiterExpires(c)
    \/ CancelExpires(c) \/ CancelDecided(c) \/ SweepExpires(c)
    \/ KernelWrites(c) \/ KernelRenames(c) \/ KernelRaises(c)
    \/ CommandEnds(c) \/ TimesOut(c) \/ GraceEnds(c) \/ CancelsRun(c) \/ CancelsGrace(c)

Console ==
    \/ \E k \in clicks : DecisionWrites(k) \/ DecisionRenames(k)
    \/ \E w \in Tabs, c \in Commands, text \in Texts :
          DecisionLoads(w, c, "approved", text) \/ DecisionLoads(w, c, "rejected", text)
    \/ \E c \in Commands : AlwaysAllows(c)
    \/ \E m \in {"yes", "ask", "no"} \ {mode} : SetsMode(m)

GateNext ==
    \/ \E c \in Commands : KernelOf(c)
    \/ SweepDone \/ GateStops \/ GateStarts
    \/ Console

GateSpec == GateInit /\ [][GateNext]_gateVars

-----------------------------------------------------------------------------
(* Properties. *)

\* bash_gate.py:230-235: a command runs as the owner approved it, edited or not,
\* unless the mode or the allowlist let it pass -- although the kernel, the
\* sweep and several tabs write the same tmp file.
RunsApproved ==
    \A c \in Commands : ran[c] # "none" => c \in free \/ <<c, ran[c]>> \in granted

\* bash_gate.py:185: "so it leaves the approval tray instead of ghosting
\* there": while the kernel is up, whatever the console still offers has a
\* waiter, through interrupts, deadlines, kills and restarts.
NoGhost ==
    gate = "up" => \A c \in Commands :
        record[c].status = "pending" => call[c] \in Waits \cup Expiring

(* A statement of the source that the code does not keep. *)

\* actions.py:1023: "a record already decided is left untouched so we can't
\* approve something twice".
DecidedOnce ==
    [][\A c \in Commands : record[c].status \in Decided => record'[c] = record[c]]_gateVars
=============================================================================
