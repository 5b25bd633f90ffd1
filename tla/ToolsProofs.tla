----------------------------- MODULE ToolsProofs -----------------------------
(***************************************************************************)
(* Proofs about what a turn of a PAI works with, each part by itself, for  *)
(* any bounds: the bash gate, with any commands, tabs and lives of the     *)
(* kernel; the subagents, with any children and lives; and the shell, with *)
(* any calls and keys.  The end puts the types of all five parts together: *)
(* those of the files and of the history have proof modules of their own.  *)
(***************************************************************************)
EXTENDS Tools, FileToolsProofs, HistoryProofs, FiniteSetTheorems, TLAPS

-----------------------------------------------------------------------------
(* The bash gate. *)

\* What may be put in the place of c's record: a decision, and an approval
\* only if it is the owner's.
Rightful(c, r) == r.status \in Decided /\ (r.status = "approved" => <<c, r.text>> \in granted)

RecordInv ==
    \A c \in Commands : record[c].status = "approved" => <<c, record[c].text>> \in granted

DraftInv == \A c \in Commands : \A r \in draft[c] : Rightful(c, r)

ClickInv == \A k \in clicks : Rightful(k.c, k.to)

ApprovalInv == RecordInv /\ DraftInv /\ ClickInv /\ RunsApproved

\* A pending record has a waiter, or is left for the next boot's sweep.
TrayInv ==
    \A c \in Commands : record[c].status = "pending" =>
        call[c] \in Waits \cup Expiring \/ (gate # "up" /\ call[c] = "gone")

\* The kernel's tmp file disappears only into the record.
LostInv ==
    \A c \in Commands : call[c] \in {"expired", "cancelled", "swept"} /\ draft[c] = {} =>
        record[c].status # "pending"

GateInv == GateTypeOK /\ ApprovalInv /\ TrayInv /\ LostInv

-----------------------------------------------------------------------------
(* Steps of the kernel for one command. *)

\* The kernel's steps keep every variable in its type.
LEMMA TypeKernel ==
    ASSUME GateTypeOK, NEW c \in Commands, KernelOf(c)
    PROVE  GateTypeOK'
<1> USE DEF GateTypeOK, Records, Texts, Decided, Waits, Expiring, Ended, Owner
<1>1. CASE ClearPasses(c)
  BY <1>1 DEF ClearPasses, StartsRun
<1>2. CASE ClearRefuses(c)
  BY <1>2 DEF ClearRefuses
<1>3. CASE ClearStages(c)
  BY <1>3 DEF ClearStages
<1>4. CASE DeadlinePasses(c)
  BY <1>4 DEF DeadlinePasses
<1>5. CASE SeesDecision(c)
  <2>1. record[c].text \in Texts
    OBVIOUS
  <2>2. CASE record[c].status = "approved"
    BY <1>5, <2>1, <2>2 DEF SeesDecision, StartsRun
  <2>3. CASE record[c].status # "approved"
    BY <1>5, <2>3 DEF SeesDecision
  <2> QED
    BY <2>2, <2>3
<1>6. CASE WaiterExpires(c) \/ CancelExpires(c) \/ SweepExpires(c)
  BY <1>6 DEF WaiterExpires, CancelExpires, SweepExpires, Loads
<1>7. CASE CancelDecided(c)
  BY <1>7 DEF CancelDecided, Interrupted
<1>8. CASE KernelWrites(c)
  BY <1>8 DEF KernelWrites
<1>9. CASE KernelRenames(c)
  BY <1>9 DEF KernelRenames
<1>10. CASE KernelRaises(c)
  BY <1>10 DEF KernelRaises
<1>11. CASE CommandEnds(c) \/ TimesOut(c) \/ GraceEnds(c) \/ CancelsRun(c) \/ CancelsGrace(c)
  <2>1. /\ call' \in [Commands -> {"idle", "running", "grace"} \cup Waits \cup Expiring \cup Ended]
        /\ UNCHANGED <<record, draft, seen, Owner, free, ran, gate, gateLives>>
    BY <1>11 DEF CommandEnds, TimesOut, GraceEnds, CancelsRun, CancelsGrace, RunMoves
  <2>2. tree' \in [Commands -> BOOLEAN]
    <3>1. CASE TimesOut(c)
      <4>1. (c \in Stubborn) \in BOOLEAN
        OBVIOUS
      <4>2. tree' = [tree EXCEPT ![c] = c \in Stubborn]
        BY <3>1, Zenon DEF TimesOut
      <4> QED
        BY <4>1, <4>2, Zenon
    <3>2. CASE CommandEnds(c) \/ GraceEnds(c) \/ CancelsRun(c) \/ CancelsGrace(c)
      BY <3>2 DEF CommandEnds, GraceEnds, CancelsRun, CancelsGrace
    <3> QED
      BY <1>11, <3>1, <3>2
  <2> QED
    BY <2>1, <2>2
<1> QED
  BY <1>1, <1>2, <1>3, <1>4, <1>5, <1>6, <1>7, <1>8, <1>9, <1>10, <1>11 DEF KernelOf

\* The kernel approves nothing itself, and runs the text of the record that
\* it has seen approved.
LEMMA ApprovalKernel ==
    ASSUME GateTypeOK, ApprovalInv, NEW c \in Commands, KernelOf(c)
    PROVE  ApprovalInv'
<1> USE DEF ApprovalInv, RecordInv, DraftInv, ClickInv, RunsApproved, Rightful,
            GateTypeOK, Records, Texts, Decided, Owner
<1>1. CASE ClearPasses(c)
  BY <1>1 DEF ClearPasses, StartsRun
<1>2. CASE ClearRefuses(c)
  BY <1>2 DEF ClearRefuses
<1>3. CASE ClearStages(c)
  BY <1>3 DEF ClearStages
<1>4. CASE DeadlinePasses(c)
  BY <1>4 DEF DeadlinePasses
<1>5. CASE SeesDecision(c)
  BY <1>5 DEF SeesDecision, StartsRun
<1>6. CASE WaiterExpires(c) \/ CancelExpires(c) \/ SweepExpires(c)
  BY <1>6 DEF WaiterExpires, CancelExpires, SweepExpires, Loads
<1>7. CASE CancelDecided(c)
  BY <1>7 DEF CancelDecided, Interrupted
<1>8. CASE KernelWrites(c)
  BY <1>8 DEF KernelWrites
<1>9. CASE KernelRenames(c)
  BY <1>9 DEF KernelRenames
<1>10. CASE KernelRaises(c)
  BY <1>10 DEF KernelRaises
<1>11. CASE CommandEnds(c) \/ TimesOut(c) \/ GraceEnds(c) \/ CancelsRun(c) \/ CancelsGrace(c)
  BY <1>11 DEF CommandEnds, TimesOut, GraceEnds, CancelsRun, CancelsGrace, RunMoves
<1> QED
  BY <1>1, <1>2, <1>3, <1>4, <1>5, <1>6, <1>7, <1>8, <1>9, <1>10, <1>11 DEF KernelOf

\* The kernel leaves a wait only when its record is decided: it saw that, or
\* it has put its own decision there, or the file it wrote became one.
LEMMA TrayKernel ==
    ASSUME GateInv, NEW c \in Commands, KernelOf(c)
    PROVE  TrayInv' /\ LostInv'
<1> USE DEF GateInv, TrayInv, LostInv, GateTypeOK, Records, Waits, Expiring, Ended, Decided, Owner
<1>1. CASE ClearPasses(c)
  BY <1>1 DEF ClearPasses, StartsRun
<1>2. CASE ClearRefuses(c)
  BY <1>2 DEF ClearRefuses
<1>3. CASE ClearStages(c)
  BY <1>3 DEF ClearStages
<1>4. CASE DeadlinePasses(c)
  BY <1>4 DEF DeadlinePasses
<1>5. CASE SeesDecision(c)
  BY <1>5 DEF SeesDecision, StartsRun
<1>6. CASE WaiterExpires(c) \/ CancelExpires(c) \/ SweepExpires(c)
  <2>1. CASE WaiterExpires(c)
    BY <2>1 DEF WaiterExpires, Loads
  <2>2. CASE CancelExpires(c)
    BY <2>2 DEF CancelExpires, Loads
  <2>3. CASE SweepExpires(c)
    BY <2>3 DEF SweepExpires, Loads
  <2> QED
    BY <1>6, <2>1, <2>2, <2>3
<1>7. CASE CancelDecided(c)
  BY <1>7 DEF CancelDecided, Interrupted
<1>8. CASE KernelWrites(c)
  <2>1. PICK x \in {<<"expire", "expired">>, <<"cancel", "cancelled">>, <<"sweep", "swept">>} :
           call[c] = x[1] /\ call' = [call EXCEPT ![c] = x[2]]
    BY <1>8, Zenon DEF KernelWrites
  <2>2. x[1] \in Expiring /\ x[2] \in Expiring
    OBVIOUS
  <2>3. draft'[c] # {} /\ \A d \in Commands \ {c} : draft'[d] = draft[d]
    BY <1>8 DEF KernelWrites
  <2>4. UNCHANGED <<record, gate>>
    BY <1>8 DEF KernelWrites
  <2> QED
    BY <2>1, <2>2, <2>3, <2>4
<1>9. CASE KernelRenames(c)
  <2>1. PICK r \in draft[c] : record' = [record EXCEPT ![c] = r]
    BY <1>9 DEF KernelRenames
  <2>2. r.status # "pending"
    BY <2>1 DEF ApprovalInv, DraftInv, Rightful
  <2>3. record'[c] = r /\ \A d \in Commands \ {c} : record'[d] = record[d]
    BY <2>1
  <2>4. /\ call'[c] \notin {"expired", "cancelled", "swept"}
        /\ \A d \in Commands \ {c} : call'[d] = call[d]
        /\ draft' = [draft EXCEPT ![c] = {}] /\ UNCHANGED gate
    BY <1>9 DEF KernelRenames
  <2>5. TrayInv'
    BY <2>2, <2>3, <2>4
  <2>6. LostInv'
    BY <2>2, <2>3, <2>4
  <2> QED
    BY <2>5, <2>6
<1>10. CASE KernelRaises(c)
  BY <1>10 DEF KernelRaises
<1>11. CASE CommandEnds(c) \/ TimesOut(c) \/ GraceEnds(c) \/ CancelsRun(c) \/ CancelsGrace(c)
  BY <1>11 DEF CommandEnds, TimesOut, GraceEnds, CancelsRun, CancelsGrace, RunMoves
<1> QED
  BY <1>1, <1>2, <1>3, <1>4, <1>5, <1>6, <1>7, <1>8, <1>9, <1>10, <1>11 DEF KernelOf

-----------------------------------------------------------------------------
(* The kernel's life. *)

\* A boot goes up when the sweep has left no pending record; a kernel that
\* stops turns its waits into records for the next sweep.
LEMMA LifeNext ==
    ASSUME GateInv, SweepDone \/ GateStops \/ GateStarts
    PROVE  GateInv'
<1> USE DEF GateInv, Owner
<1>1. GateTypeOK'
  <2>1. CASE SweepDone
    BY <2>1 DEF SweepDone, GateTypeOK
  <2>2. CASE GateStops
    BY <2>2 DEF GateStops, GateTypeOK, Ended
  <2>3. CASE GateStarts
    BY <2>3, GateAssumption DEF GateStarts, GateTypeOK
  <2> QED
    BY <2>1, <2>2, <2>3
<1>2. ApprovalInv'
  BY DEF SweepDone, GateStops, GateStarts, ApprovalInv, RecordInv, DraftInv, ClickInv,
         RunsApproved, Rightful
<1>3. TrayInv'
  <2>1. CASE SweepDone
    BY <2>1 DEF SweepDone, TrayInv
  <2>2. CASE GateStops
    BY <2>2 DEF GateStops, TrayInv, GateTypeOK, Waits, Expiring, Ended
  <2>3. CASE GateStarts
    BY <2>3 DEF GateStarts, TrayInv
  <2> QED
    BY <2>1, <2>2, <2>3
<1>4. LostInv'
  BY DEF SweepDone, GateStops, GateStarts, LostInv, GateTypeOK, Ended
<1> QED
  BY <1>1, <1>2, <1>3, <1>4

-----------------------------------------------------------------------------
(* The console. *)

\* A decision is the owner's from the click on.
LEMMA LoadsNext ==
    ASSUME GateInv, NEW w \in Tabs, NEW c \in Commands, NEW text \in Texts,
           NEW status \in {"approved", "rejected"}, DecisionLoads(w, c, status, text)
    PROVE  GateInv'
<1> USE DEF GateInv, DecisionLoads, Clicking, Kernel
<1> DEFINE k == [tab |-> w, at |-> "read", c |-> c, to |-> [status |-> status, text |-> text]]
<1>1. clicks' = clicks \cup {k} /\ granted \subseteq granted'
  OBVIOUS
<1>2. k \in Clicks /\ Rightful(c, k.to)'
  BY DEF Clicks, Records, Decided, Rightful
<1>3. GateTypeOK'
  BY <1>1, <1>2 DEF GateTypeOK
<1>4. ApprovalInv'
  <2>1. RecordInv' /\ DraftInv' /\ RunsApproved'
    BY <1>1 DEF ApprovalInv, RecordInv, DraftInv, RunsApproved, Rightful
  <2>2. ASSUME NEW x \in clicks' PROVE Rightful(x.c, x.to)'
    <3>1. CASE x = k
      BY <1>2, <3>1
    <3>2. CASE x \in clicks
      BY <1>1, <3>2 DEF ApprovalInv, ClickInv, Rightful
    <3> QED
      BY <1>1, <3>1, <3>2
  <2> QED
    BY <2>1, <2>2 DEF ApprovalInv, ClickInv
<1>5. TrayInv' /\ LostInv'
  BY DEF TrayInv, LostInv
<1> QED
  BY <1>3, <1>4, <1>5

\* Written, it replaces whatever another writer had in the tmp file.
LEMMA WritesNext ==
    ASSUME GateInv, NEW k \in clicks, DecisionWrites(k)
    PROVE  GateInv'
<1> USE DEF GateInv, DecisionWrites, Kernel
<1> DEFINE j == [k EXCEPT !.at = "written"]
<1>1. k \in Clicks /\ j \in Clicks /\ j.c = k.c /\ j.to = k.to
  BY DEF GateTypeOK, Clicks
<1>2. Rightful(k.c, k.to)
  BY DEF ApprovalInv, ClickInv
<1>3. GateTypeOK'
  BY <1>1 DEF GateTypeOK, Clicks
<1>4. ApprovalInv'
  <2>1. RecordInv' /\ RunsApproved'
    BY DEF ApprovalInv, RecordInv, RunsApproved
  <2>2. ClickInv'
    BY <1>1, <1>2 DEF ApprovalInv, ClickInv, Rightful
  <2>3. DraftInv'
    BY <1>1, <1>2 DEF ApprovalInv, DraftInv, Rightful, GateTypeOK
  <2> QED
    BY <2>1, <2>2, <2>3 DEF ApprovalInv
<1>5. TrayInv' /\ LostInv'
  BY <1>1 DEF TrayInv, LostInv, GateTypeOK
<1> QED
  BY <1>3, <1>4, <1>5

\* The rename moves what is in the tmp file, anyone's, into the record.
LEMMA RenamesNext ==
    ASSUME GateInv, NEW k \in clicks, DecisionRenames(k)
    PROVE  GateInv'
<1> USE DEF GateInv, DecisionRenames, Kernel
<1> DEFINE moved == CHOOSE r \in draft[k.c] : TRUE
<1>1. k.c \in Commands
  BY DEF GateTypeOK, Clicks
<1>2. draft[k.c] # {} => moved \in draft[k.c]
  OBVIOUS
<1>3. draft[k.c] # {} => moved \in Records /\ Rightful(k.c, moved)
  BY <1>1, <1>2 DEF GateTypeOK, ApprovalInv, DraftInv
<1>4. \A c \in Commands : record'[c] = record[c] \/ (c = k.c /\ draft[c] # {} /\ record'[c] = moved)
  BY <1>1 DEF GateTypeOK
<1>5. GateTypeOK'
  <2>1. record' \in [Commands -> Records]
    BY <1>3, <1>4 DEF GateTypeOK
  <2>2. draft' \in [Commands -> SUBSET Records] /\ clicks' \subseteq Clicks
    BY <1>1 DEF GateTypeOK
  <2> QED
    BY <2>1, <2>2 DEF GateTypeOK
<1>6. ApprovalInv'
  <2>1. RecordInv'
    <3>1. ASSUME NEW c \in Commands, record'[c] = record[c]
          PROVE  record'[c].status = "approved" => <<c, record'[c].text>> \in granted
      BY <3>1 DEF ApprovalInv, RecordInv
    <3>2. ASSUME NEW c \in Commands, c = k.c, draft[c] # {}, record'[c] = moved
          PROVE  record'[c].status = "approved" => <<c, record'[c].text>> \in granted
      BY <1>3, <3>2 DEF Rightful
    <3> QED
      BY <1>4, <3>1, <3>2 DEF RecordInv
  <2>2. DraftInv' /\ ClickInv' /\ RunsApproved'
    BY <1>1 DEF ApprovalInv, DraftInv, ClickInv, RunsApproved, Rightful, GateTypeOK
  <2> QED
    BY <2>1, <2>2 DEF ApprovalInv
<1>7. \A c \in Commands : record'[c].status = "pending" => record[c].status = "pending" /\ (c = k.c => draft[c] = {})
  BY <1>1, <1>3 DEF GateTypeOK, Rightful, Decided
<1>8. TrayInv' /\ LostInv'
  BY <1>1, <1>7 DEF TrayInv, LostInv, GateTypeOK
<1> QED
  BY <1>5, <1>6, <1>8

\* Rules and modes touch no record.
LEMMA SettingsNext ==
    ASSUME GateInv, \/ \E c \in Commands : AlwaysAllows(c)
                 \/ \E m \in {"yes", "ask", "no"} \ {mode} : SetsMode(m)
    PROVE  GateInv'
<1> USE DEF AlwaysAllows, SetsMode, Kernel
<1>1. GateTypeOK'
  BY DEF GateInv, GateTypeOK
<1>2. ApprovalInv' /\ TrayInv' /\ LostInv'
  BY DEF GateInv, ApprovalInv, RecordInv, DraftInv, ClickInv, RunsApproved, Rightful, TrayInv, LostInv
<1> QED
  BY <1>1, <1>2 DEF GateInv

-----------------------------------------------------------------------------
(* The theorems. *)

\* No record, tmp file, decision or call exists yet.
LEMMA GateInvInit == GateInit => GateInv
BY GateAssumption DEF GateInit, GateInv, GateTypeOK, ApprovalInv, RecordInv, DraftInv, ClickInv,
   RunsApproved, TrayInv, LostInv, Records, Texts, Decided, Waits, Expiring, Ended

\* Every step of the kernel and of the console keeps the invariant.
LEMMA GateInvNext == GateInv /\ [GateNext]_gateVars => GateInv'
<1> SUFFICES ASSUME GateInv, [GateNext]_gateVars PROVE GateInv'
  OBVIOUS
<1>1. ASSUME NEW c \in Commands, KernelOf(c) PROVE GateInv'
  BY <1>1, TypeKernel, ApprovalKernel, TrayKernel DEF GateInv
<1>2. CASE SweepDone \/ GateStops \/ GateStarts
  BY <1>2, LifeNext
<1>3. CASE Console
  BY <1>3, LoadsNext, WritesNext, RenamesNext, SettingsNext DEF Console
<1>4. CASE UNCHANGED gateVars
  BY <1>4 DEF gateVars, GateInv, GateTypeOK, ApprovalInv, RecordInv, DraftInv, ClickInv,
     RunsApproved, Rightful, TrayInv, LostInv
<1> QED
  BY <1>1, <1>2, <1>3, <1>4 DEF GateNext

\* bash_gate.py, actions.py: the invariant the next three follow from.
THEOREM GateInvCorrect == GateSpec => []GateInv
BY GateInvInit, GateInvNext, PTL DEF GateSpec

\* bash_gate.py: records, drafts and calls stay in their sets.
THEOREM GateTypeCorrect == GateSpec => []GateTypeOK
<1>1. GateInv => GateTypeOK
  BY DEF GateInv
<1> QED
  BY <1>1, GateInvCorrect, PTL

\* bash_gate.py:230-235, actions.py:1020-1039: a command runs with the text that
\* the owner approved, unless the mode or the allowlist let it pass, for any
\* number of tabs that share a tmp file with the kernel.
THEOREM ApprovalCorrect == GateSpec => []RunsApproved
<1>1. GateInv => RunsApproved
  BY DEF GateInv, ApprovalInv
<1> QED
  BY <1>1, GateInvCorrect, PTL

\* bash_gate.py:185: while the kernel is up no record is pending without a
\* waiter, for any number of restarts.
THEOREM TrayCorrect == GateSpec => []NoGhost
<1>1. GateInv => NoGhost
  BY DEF GateInv, TrayInv, NoGhost
<1> QED
  BY <1>1, GateInvCorrect, PTL

-----------------------------------------------------------------------------
(* The subagents. *)

KidTypes ==
    /\ sub \in [Kids -> {"none", "numbered", "running", "failed", "gone"}]
    /\ at \in [Kids -> {"new", "idle", "turn", "done"}] /\ aim \in [Kids -> SUBSET Kids]
    /\ ending \in [Kids -> {"no", "marked", "told"}] /\ heard \in [Kids -> 0..2]
    /\ dad = [k \in Kids |-> dad[k]]
    /\ announced \subseteq Kids /\ cut \subseteq Kids /\ hushed \subseteq Kids
    /\ mistaken \subseteq Kids
    /\ kidKernel \in {"up", "down", "cleaning"}

\* Whoever is about to resolve by `subagent done` has told a parent of its own
\* end; what it will resolve is itself or one that it mistakes for itself.
AimInv ==
    \A k \in Kids :
        /\ at[k] # "new" => sub[k] \notin {"none", "numbered"}
        /\ at[k] = "done" => aim[k] # {}
        /\ aim[k] # {} => kidKernel = "up" /\ k \in announced
        /\ aim[k] \subseteq {k} \cup mistaken

\* A kill, or the boot, has written the status; once it has told, it has told.
EndingInv ==
    \A k \in Kids :
        /\ ending[k] # "no" => kidKernel # "down" /\ sub[k] \in {"failed", "gone"}
        /\ ending[k] # "no" /\ kidKernel = "cleaning" => sub[k] = "failed"
        /\ ending[k] = "told" => k \in announced

\* A completion is about one child, and goes to its parent.
LetterInv ==
    \A e \in letters, k \in Kids : k \in e.done => e = Completion(k) /\ sub[k] \notin {"none", "numbered"}

\* The boot has told the parent, and not yet removed the directory.
BootTold(k) == sub[k] = "failed" /\ (kidKernel = "down" \/ (kidKernel = "cleaning" /\ ending[k] = "told"))

\* A completion waits or has been heard, not both, and the child that it is
\* about has ended or is about to.
OnceInv ==
    EndsItself => \A k \in Kids \ cut :
        /\ heard[k] <= 1
        /\ heard[k] = 1 => Completion(k) \notin letters /\ (at[k] = "done" \/ sub[k] = "gone")
        /\ Completion(k) \in letters => at[k] = "done" \/ sub[k] = "gone" \/ BootTold(k)

KidInv == KidTypes /\ AimInv /\ EndingInv /\ LetterInv /\ EndIsTold /\ OnceInv

LEMMA KidInit == SubInit => KidInv
  BY DEF SubInit, KidInv, KidTypes, AimInv, EndingInv, LetterInv, EndIsTold, HasEnded, OnceInv

\* Steps that only ask: pids and directories, messages, turns that end.
LEMMA AskStep ==
    ASSUME KidInv, NEW k \in Kids, NEW p,
           Numbered(k, p) \/ Spawned(k) \/ KickedOff(k) \/ Messages(p, k) \/ QuietEnd(k)
    PROVE  KidInv'
<1>1. /\ UNCHANGED <<aim, ending, announced, stopped, cut, hushed, mistaken, heard, kidKernel>>
      /\ \A j \in Kids : sub[j] \notin {"none", "numbered"} => sub'[j] = sub[j] /\ dad'[j] = dad[j]
      /\ \A j \in Kids : sub[j] \in {"none", "numbered"} => sub'[j] \notin {"gone", "failed"}
  <2>1. UNCHANGED <<aim, ending, announced, stopped, cut, hushed, mistaken, heard, kidKernel>>
    BY DEF Numbered, Spawned, KickedOff, Messages, QuietEnd, Stages, Life
  <2>2. \/ UNCHANGED <<sub, dad>>
        \/ sub[k] = "none" /\ sub' = [sub EXCEPT ![k] = "numbered"] /\ dad' = [dad EXCEPT ![k] = p]
        \/ sub[k] = "numbered" /\ sub' = [sub EXCEPT ![k] = "running"] /\ UNCHANGED dad
    BY DEF Numbered, Spawned, KickedOff, Messages, QuietEnd, Numbers
  <2> QED
    BY <2>1, <2>2 DEF KidInv, KidTypes
<1>2. /\ \A j \in Kids : at'[j] = "done" <=> at[j] = "done"
      /\ \A j \in Kids : at'[j] # "new" => sub[j] \notin {"none", "numbered"}
  BY DEF Numbered, Spawned, KickedOff, Messages, QuietEnd, Stages, Numbers, Life, KidInv, KidTypes,
         AimInv
<1>3. letters' = letters \/ \E to : letters' = letters \cup {Word(to)}
  BY DEF Numbered, Spawned, KickedOff, Messages, QuietEnd
<1>4. KidTypes'
  BY <1>1 DEF Numbered, Spawned, KickedOff, Messages, QuietEnd, Stages, Numbers, Life, KidInv, KidTypes
<1>5. AimInv' /\ EndingInv' /\ EndIsTold'
  BY <1>1, <1>2 DEF KidInv, KidTypes, AimInv, EndingInv, EndIsTold, HasEnded
<1>6. \A e \in letters' : e \in letters \/ e.done = {}
  BY <1>3 DEF Word
<1>7. LetterInv'
  BY <1>1, <1>6 DEF KidInv, LetterInv, Completion
<1>8. OnceInv'
  <2>1. ASSUME NEW j \in Kids, Completion(j)' \in letters'
        PROVE  Completion(j) \in letters
    <3>1. j \in Completion(j)'.done
      BY DEF Completion
    <3>2. Completion(j)' \in letters
      BY <1>6, <2>1, <3>1
    <3>3. Completion(j)' = Completion(j)
      BY <3>1, <3>2 DEF KidInv, LetterInv
    <3> QED
      BY <3>2, <3>3
  <2>2. \A j \in Kids : Completion(j) \in letters => sub[j] \notin {"none", "numbered"} /\ sub'[j] = sub[j]
    <3>1. ASSUME NEW j \in Kids, Completion(j) \in letters PROVE sub[j] \notin {"none", "numbered"}
      <4>1. j \in Completion(j).done
        BY DEF Completion
      <4> QED
        BY <3>1, <4>1 DEF KidInv, LetterInv
    <3> QED
      BY <1>1, <3>1
  <2>3. \A j \in Kids : sub[j] = "gone" => sub'[j] = "gone"
    BY <1>1
  <2>4. \A j \in Kids : Completion(j) \in letters /\ BootTold(j) => BootTold(j)'
    BY <1>1, <2>2 DEF BootTold
  <2> QED
    BY <1>1, <1>2, <2>1, <2>3, <2>4 DEF KidInv, KidTypes, OnceInv, EndsItself
<1> QED
  BY <1>4, <1>5, <1>7, <1>8 DEF KidInv

\* A letter is taken.
LEMMA DeliveredStep ==
    ASSUME KidInv, NEW e \in letters, Delivered(e)
    PROVE  KidInv'
<1>1. /\ UNCHANGED <<sub, dad, aim, ending, announced, stopped, cut, hushed, mistaken, kidKernel>>
      /\ letters' = letters \ {e} /\ kidKernel = "up"
  BY DEF Delivered, Numbers, Life, KillState, Up
<1>2. /\ \A j \in Kids : at'[j] = "done" <=> at[j] = "done"
      /\ \A j \in Kids : at'[j] = "new" <=> at[j] = "new"
      /\ at' \in [Kids -> {"new", "idle", "turn", "done"}]
  BY DEF Delivered, HasPid, OnDisk, KidInv, KidTypes
<1>3. heard' \in [Kids -> 0..2]
  BY DEF Delivered, KidInv, KidTypes
<1>4. ASSUME NEW k \in Kids
      PROVE  heard'[k] = heard[k] \/ (k \in e.done /\ (heard[k] = 0 => heard'[k] = 1))
  BY <1>4 DEF Delivered
<1>5. \A k \in Kids : k \in e.done => e = Completion(k)
  BY DEF KidInv, LetterInv
<1>6. OnceInv'
  <2>1. ASSUME EndsItself', NEW k \in Kids \ cut
        PROVE  /\ heard'[k] <= 1
               /\ heard'[k] = 1 => Completion(k) \notin letters' /\ (at[k] = "done" \/ sub[k] = "gone")
               /\ Completion(k) \in letters' => at[k] = "done" \/ sub[k] = "gone" \/ BootTold(k)
    <3>1. /\ heard[k] <= 1
          /\ heard[k] = 1 => Completion(k) \notin letters /\ (at[k] = "done" \/ sub[k] = "gone")
          /\ Completion(k) \in letters => at[k] = "done" \/ sub[k] = "gone" \/ BootTold(k)
      BY <1>1, <2>1 DEF KidInv, OnceInv, EndsItself
    <3>2. CASE heard'[k] = heard[k]
      BY <1>1, <3>1, <3>2
    <3>3. CASE heard'[k] # heard[k]
      <4>1. e = Completion(k) /\ (heard[k] = 0 => heard'[k] = 1)
        BY <1>4, <1>5, <3>3
      <4>2. heard[k] = 0
        BY <3>1, <4>1 DEF KidInv, KidTypes
      <4>3. ~BootTold(k)
        BY <1>1 DEF BootTold
      <4> QED
        BY <1>1, <3>1, <4>1, <4>2, <4>3
    <3> QED
      BY <3>2, <3>3
  <2> QED
    BY <1>1, <1>2, <2>1 DEF OnceInv, Completion, BootTold
<1> QED
  BY <1>1, <1>2, <1>3, <1>6 DEF KidInv, KidTypes, AimInv, EndingInv, LetterInv, EndIsTold, HasEnded,
                                Completion

\* A word to some PAI, or the completion of a child that has a directory.
LEMMA LetterStep ==
    ASSUME KidInv, NEW k \in Kids, NEW e, sub[k] \notin {"none", "numbered"},
           letters' = letters \cup {e}, UNCHANGED dad, e = Completion(k) \/ e.done = {},
           \A j \in Kids : sub[j] \notin {"none", "numbered"} => sub'[j] \notin {"none", "numbered"}
    PROVE  /\ LetterInv'
           /\ \A j \in Kids : Completion(j)' = Completion(j)
           /\ \A j \in Kids : Completion(j) \in letters' <=>
                  Completion(j) \in letters \/ (j = k /\ e = Completion(k))
<1>1. \A j \in Kids : Completion(j)' = Completion(j) /\ Completion(j).done = {j}
  BY DEF Completion
<1>2. LetterInv'
  BY <1>1 DEF KidInv, LetterInv
<1>3. ASSUME NEW j \in Kids
      PROVE  Completion(j) \in letters' <=> Completion(j) \in letters \/ (j = k /\ e = Completion(k))
  <2>1. Completion(j).done = {j} /\ Completion(k).done = {k}
    BY <1>1
  <2>2. {j} = {k} => j = k
    OBVIOUS
  <2> QED
    BY <2>1, <2>2
<1> QED
  BY <1>1, <1>2, <1>3

\* `subagent done`.
LEMMA DoneStep ==
    ASSUME KidInv, NEW k \in Kids,
           (\E j \in Kids : DoneEmits(k, j)) \/ DoneResolves(k) \/ DoneDies(k)
    PROVE  KidInv'
<1>1. ASSUME NEW j \in Kids, DoneEmits(k, j) PROVE KidInv'
  <2>1. /\ UNCHANGED <<sub, dad, ending, stopped, cut, hushed, heard, kidKernel>>
        /\ kidKernel = "up" /\ at[k] = "turn" /\ sub[j] \in {"running", "failed"}
        /\ letters' = letters \cup {Completion(k)} /\ announced' = announced \cup {k}
        /\ at' = [at EXCEPT ![k] = "done"] /\ aim' = [aim EXCEPT ![k] = {j}]
        /\ mistaken' = mistaken \cup ({j} \ {k})
    BY <1>1 DEF DoneEmits, Up, OwnSlug, HasPid, OnDisk, Numbers, Life, KillState
  <2>2. sub[k] \notin {"none", "numbered"}
    BY <2>1 DEF KidInv, AimInv
  <2>3. /\ LetterInv'
        /\ \A i \in Kids : Completion(i)' = Completion(i)
        /\ \A i \in Kids : Completion(i) \in letters' <=> Completion(i) \in letters \/ i = k
    BY <2>1, <2>2, LetterStep
  <2>4. KidTypes'
    BY <2>1 DEF KidInv, KidTypes
  <2>5. AimInv' /\ EndingInv'
    BY <2>1 DEF KidInv, KidTypes, AimInv, EndingInv
  <2>6. EndIsTold'
    BY <2>1 DEF KidInv, EndIsTold, HasEnded
  <2>7. OnceInv'
    <3>1. EndsItself' => EndsItself /\ j = k
      BY <2>1 DEF EndsItself
    <3>2. at'[k] = "done" /\ \A i \in Kids : i # k => at'[i] = at[i]
      BY <2>1 DEF KidInv, KidTypes
    <3>3. \A i \in Kids : BootTold(i)' <=> BootTold(i)
      BY <2>1 DEF BootTold
    <3> QED
      BY <2>1, <2>3, <3>1, <3>2, <3>3 DEF KidInv, KidTypes, OnceInv
  <2> QED
    BY <2>3, <2>4, <2>5, <2>6, <2>7 DEF KidInv
<1>2. ASSUME DoneReturns(k), NEW status \in {"gone", "failed"}, sub' = Aimed(k, status) \/ sub' = sub,
             cut \subseteq cut', cut' \subseteq Kids,
             k \in cut' \/ (cut' = cut /\ status = "gone" /\ sub' = Aimed(k, status))
      PROVE  KidInv'
  <2>1. /\ UNCHANGED <<letters, dad, ending, announced, stopped, hushed, mistaken, heard, kidKernel>>
        /\ kidKernel = "up" /\ aim[k] # {}
        /\ at' = [at EXCEPT ![k] = IF at[k] = "done" THEN "turn" ELSE at[k]]
        /\ aim' = [aim EXCEPT ![k] = {}]
    BY <1>2 DEF DoneReturns, Up, Numbers, KillState, KidInv, KidTypes
  <2>2. \A i \in Kids : \/ sub'[i] = sub[i]
                        \/ i \in aim[k] /\ sub[i] \in {"running", "failed"} /\ sub'[i] = status
    BY <1>2 DEF Aimed, OnDisk
  <2>3. KidTypes'
    <3>1. sub' \in [Kids -> {"none", "numbered", "running", "failed", "gone"}]
      BY <1>2 DEF Aimed, KidInv, KidTypes
    <3> QED
      BY <1>2, <2>1, <3>1 DEF KidInv, KidTypes
  <2>4. AimInv' /\ EndingInv'
    BY <1>2, <2>1, <2>2, <2>3 DEF KidInv, KidTypes, AimInv, EndingInv
  <2>5. LetterInv'
    BY <1>2, <2>1, <2>2 DEF KidInv, LetterInv, Completion
  <2>6. EndIsTold'
    <3>1. ASSUME NEW i \in Kids, sub'[i] # sub[i] PROVE i \in announced \cup mistaken
      BY <2>1, <2>2, <3>1 DEF KidInv, AimInv
    <3> QED
      BY <2>1, <3>1 DEF KidInv, EndIsTold, HasEnded
  <2>7. OnceInv'
    <3>1. EndsItself' => EndsItself /\ aim[k] = {k}
      BY <2>1 DEF KidInv, KidTypes, AimInv, EndsItself
    <3>2. \A i \in Kids \ cut' : i # k => at'[i] = at[i]
      BY <2>1 DEF KidInv, KidTypes
    <3>3. \A i \in Kids : (sub[i] = "gone" => sub'[i] = "gone") /\ ~BootTold(i) /\ Completion(i)' = Completion(i)
      BY <2>1, <2>2 DEF BootTold, Completion
    <3>4. EndsItself' /\ k \notin cut' => sub'[k] = "gone" \/ sub[k] \notin {"running", "failed"}
      BY <1>2, <3>1 DEF Aimed, OnDisk
    <3>5. at[k] = "done" /\ sub[k] \notin {"running", "failed"} => sub[k] = "gone"
      BY DEF KidInv, KidTypes, AimInv
    <3> QED
      BY <1>2, <2>1, <3>1, <3>2, <3>3, <3>4, <3>5 DEF KidInv, OnceInv
  <2> QED
    BY <2>3, <2>4, <2>5, <2>6, <2>7 DEF KidInv
<1>3. ASSUME DoneResolves(k) PROVE KidInv'
  <2>1. cut \subseteq Kids
    BY DEF KidInv, KidTypes
  <2> QED
    BY <1>2, <1>3, <2>1 DEF DoneResolves
<1>4. ASSUME DoneDies(k) PROVE KidInv'
  <2>1. cut' = cut \cup {k} /\ cut \subseteq Kids
    BY <1>4 DEF DoneDies, KidInv, KidTypes
  <2> QED
    BY <1>2, <1>4, <2>1 DEF DoneDies
<1> QED
  BY <1>1, <1>3, <1>4

\* The kernel ends, or relays, a turn that ends in plain text.
LEMMA PlainStep ==
    ASSUME KidInv, NEW k \in Kids, PlainEnd(k)
    PROVE  KidInv'
<1>1. /\ UNCHANGED <<dad, aim, ending, stopped, cut, hushed, mistaken, heard, kidKernel>>
      /\ kidKernel = "up" /\ at[k] = "turn" /\ at' = [at EXCEPT ![k] = "idle"]
      /\ \/ UNCHANGED <<sub, letters, announced>>
         \/ sub[k] = "running" /\ Relays(k)
         \/ /\ sub[k] = "running" /\ letters' = letters \cup {Completion(k)}
            /\ announced' = announced \cup {k} /\ sub' = [sub EXCEPT ![k] = "gone"]
  BY DEF PlainEnd, AutoFinishes, Up, Numbers, Life, KillState
<1>2. /\ \A i \in Kids : i # k => at'[i] = at[i]
      /\ at'[k] = "idle"
  BY <1>1 DEF KidInv, KidTypes
<1>3. CASE UNCHANGED <<sub, letters, announced>>
  <2>1. KidTypes' /\ AimInv' /\ EndingInv'
    BY <1>1, <1>3 DEF KidInv, KidTypes, AimInv, EndingInv
  <2>2. LetterInv' /\ EndIsTold'
    BY <1>1, <1>3 DEF KidInv, LetterInv, EndIsTold, HasEnded, Completion
  <2>3. OnceInv'
    BY <1>1, <1>2, <1>3 DEF KidInv, OnceInv, EndsItself, Completion, BootTold
  <2> QED
    BY <2>1, <2>2, <2>3 DEF KidInv
<1>4. CASE sub[k] = "running" /\ Relays(k)
  <2>1. UNCHANGED <<sub, announced>> /\ letters' = letters \cup {Word(dad[k])} /\ Word(dad[k]).done = {}
    BY <1>4 DEF Relays, Word
  <2>2. Word(dad[k]) # Completion(k)
    <3>1. Completion(k).done = {k}
      BY DEF Completion
    <3> QED
      BY <2>1, <3>1
  <2>3. /\ LetterInv'
        /\ \A i \in Kids : Completion(i)' = Completion(i)
        /\ \A i \in Kids : Completion(i) \in letters' <=> Completion(i) \in letters
    BY <1>1, <1>4, <2>1, <2>2, LetterStep
  <2>4. KidTypes' /\ AimInv' /\ EndingInv'
    BY <1>1, <2>1 DEF KidInv, KidTypes, AimInv, EndingInv
  <2>5. EndIsTold'
    BY <1>1, <2>1 DEF KidInv, EndIsTold, HasEnded
  <2>6. OnceInv'
    BY <1>1, <1>2, <2>1, <2>3 DEF KidInv, OnceInv, EndsItself, BootTold
  <2> QED
    BY <2>3, <2>4, <2>5, <2>6 DEF KidInv
<1>5. CASE /\ sub[k] = "running" /\ letters' = letters \cup {Completion(k)}
           /\ announced' = announced \cup {k} /\ sub' = [sub EXCEPT ![k] = "gone"]
  <2>1. sub'[k] = "gone" /\ \A i \in Kids : i # k => sub'[i] = sub[i]
    BY <1>5 DEF KidInv, KidTypes
  <2>2. /\ LetterInv'
        /\ \A i \in Kids : Completion(i)' = Completion(i)
        /\ \A i \in Kids : Completion(i) \in letters' <=> Completion(i) \in letters \/ i = k
    BY <1>1, <1>5, <2>1, LetterStep
  <2>3. ending[k] = "no"
    BY <1>5 DEF KidInv, KidTypes, EndingInv
  <2>4. KidTypes' /\ AimInv' /\ EndingInv'
    BY <1>1, <1>5, <2>3 DEF KidInv, KidTypes, AimInv, EndingInv
  <2>5. EndIsTold'
    BY <1>1, <1>5, <2>1 DEF KidInv, EndIsTold, HasEnded
  <2>6. OnceInv'
    <3>1. \A i \in Kids : ~BootTold(i)
      BY <1>1 DEF BootTold
    <3> QED
      BY <1>1, <1>2, <1>5, <2>1, <2>2, <3>1 DEF KidInv, KidTypes, OnceInv, EndsItself
  <2> QED
    BY <2>2, <2>4, <2>5, <2>6 DEF KidInv
<1> QED
  BY <1>1, <1>3, <1>4, <1>5

\* A child is being killed by whoever has its parent's pid.
LEMMA KillStep ==
    ASSUME KidInv, NEW k \in Kids, (\E p : KillMarks(p, k)) \/ KillTells(k) \/ KillDies(k) \/ RmTree(k)
    PROVE  KidInv'
<1>1. ASSUME NEW p, KillMarks(p, k) PROVE KidInv'
  <2>1. /\ UNCHANGED <<at, letters, dad, aim, announced, stopped, cut, hushed, mistaken, heard, kidKernel>>
        /\ sub[k] \in {"running", "failed"} /\ kidKernel = "up"
        /\ sub' = [sub EXCEPT ![k] = "failed"] /\ ending' = [ending EXCEPT ![k] = "marked"]
    BY <1>1 DEF KillMarks, Up, OnDisk, Numbers, Life
  <2>2. /\ sub'[k] = "failed" /\ ending'[k] = "marked"
        /\ \A i \in Kids : i # k => sub'[i] = sub[i] /\ ending'[i] = ending[i]
    BY <2>1 DEF KidInv, KidTypes
  <2>3. KidTypes' /\ AimInv' /\ EndingInv'
    BY <2>1, <2>2 DEF KidInv, KidTypes, AimInv, EndingInv
  <2>4. LetterInv' /\ EndIsTold'
    BY <2>1, <2>2 DEF KidInv, LetterInv, EndIsTold, HasEnded, Completion
  <2>5. OnceInv'
    BY <2>1, <2>2 DEF KidInv, OnceInv, EndsItself, Completion, BootTold
  <2> QED
    BY <2>3, <2>4, <2>5 DEF KidInv
<1>2. ASSUME KillTells(k), sub[k] = "failed" PROVE KidInv'
  <2>1. /\ UNCHANGED <<sub, at, dad, aim, stopped, cut, hushed, mistaken, heard, kidKernel>>
        /\ kidKernel = "up" /\ ending[k] = "marked" /\ ending' = [ending EXCEPT ![k] = "told"]
        /\ letters' = letters \cup {Word(dad[k])} /\ announced' = announced \cup {k}
        /\ Word(dad[k]).done = {}
    BY <1>2 DEF KillTells, Up, Numbers, Life, Word
  <2>2. Word(dad[k]) # Completion(k)
    <3>1. Completion(k).done = {k}
      BY DEF Completion
    <3> QED
      BY <2>1, <3>1
  <2>3. /\ LetterInv'
        /\ \A i \in Kids : Completion(i)' = Completion(i)
        /\ \A i \in Kids : Completion(i) \in letters' <=> Completion(i) \in letters
    BY <1>2, <2>1, <2>2, LetterStep
  <2>4. KidTypes' /\ AimInv' /\ EndingInv'
    BY <1>2, <2>1 DEF KidInv, KidTypes, AimInv, EndingInv
  <2>5. EndIsTold'
    BY <2>1 DEF KidInv, KidTypes, EndIsTold, HasEnded
  <2>6. OnceInv'
    BY <2>1, <2>3 DEF KidInv, OnceInv, EndsItself, BootTold
  <2> QED
    BY <2>3, <2>4, <2>5, <2>6 DEF KidInv
<1>3. ASSUME (KillTells(k) /\ sub[k] # "failed") \/ KillDies(k) PROVE KidInv'
  <2>1. /\ UNCHANGED <<sub, at, letters, dad, aim, announced, stopped, cut, mistaken, heard, kidKernel>>
        /\ kidKernel = "up" /\ ending[k] # "no" /\ ending' = [ending EXCEPT ![k] = "no"]
        /\ hushed \subseteq hushed' /\ hushed' \subseteq hushed \cup {k}
        /\ ending[k] = "marked" /\ sub[k] = "failed" => k \in hushed'
    BY <1>3 DEF KillTells, KillDies, Up, Numbers, Life
  <2>2. KidTypes' /\ AimInv' /\ EndingInv'
    BY <2>1 DEF KidInv, KidTypes, AimInv, EndingInv
  <2>3. LetterInv'
    BY <2>1 DEF KidInv, LetterInv, Completion
  <2>4. EndIsTold'
    BY <2>1 DEF KidInv, KidTypes, EndIsTold, HasEnded
  <2>5. OnceInv'
    BY <2>1 DEF KidInv, OnceInv, EndsItself, Completion, BootTold
  <2> QED
    BY <2>2, <2>3, <2>4, <2>5 DEF KidInv
<1>4. ASSUME RmTree(k) PROVE KidInv'
  <2>1. /\ UNCHANGED <<at, letters, dad, aim, announced, stopped, cut, hushed, mistaken, heard, kidKernel>>
        /\ ending[k] = "told" /\ ending' = [ending EXCEPT ![k] = "no"]
        /\ sub' = [sub EXCEPT ![k] = "gone"]
    BY <1>4 DEF RmTree, Numbers, Life
  <2>2. /\ sub'[k] = "gone" /\ ending'[k] = "no" /\ k \in announced
        /\ \A i \in Kids : i # k => sub'[i] = sub[i] /\ ending'[i] = ending[i]
    BY <2>1 DEF KidInv, KidTypes, EndingInv
  <2>3. KidTypes' /\ AimInv' /\ EndingInv'
    BY <2>1, <2>2 DEF KidInv, KidTypes, AimInv, EndingInv
  <2>4. LetterInv' /\ EndIsTold'
    BY <2>1, <2>2 DEF KidInv, LetterInv, EndIsTold, HasEnded, Completion
  <2>5. OnceInv'
    BY <2>1, <2>2 DEF KidInv, OnceInv, EndsItself, Completion, BootTold
  <2> QED
    BY <2>3, <2>4, <2>5 DEF KidInv
<1> QED
  BY <1>1, <1>2, <1>3, <1>4

\* An interrupt, or the kernel's end, stops some children and ends the turns
\* of some, and their commands unless these run in a persistent shell.
LEMMA StopStep ==
    ASSUME KidInv, NEW dying, NEW hit \in SUBSET Kids, NEW kills \in SUBSET Kids,
           TurnsEnd(hit, dying),
           CommandsEnd(hit, kills) \/ UNCHANGED <<aim, ending, hushed>>,
           \/ kidKernel = "up" /\ UNCHANGED kidKernel
           \/ kidKernel' = "down" /\ hit = Kids /\ kills = Kids /\ CommandsEnd(hit, kills)
    PROVE  KidInv'
<1>1. /\ UNCHANGED <<letters, dad, announced, mistaken, heard>>
      /\ stopped' = stopped \cup dying /\ cut' = cut \cup {k \in hit : aim[k] # {}}
      /\ hushed \subseteq hushed' /\ hushed' \subseteq hushed \cup kills
  BY DEF TurnsEnd, CommandsEnd, Numbers
<1>2. \A k \in Kids : /\ sub'[k] = IF k \in dying THEN "gone" ELSE sub[k]
                      /\ at'[k] = IF k \in hit /\ at[k] \in {"turn", "done"} THEN "idle" ELSE at[k]
                      /\ aim'[k] = aim[k] \/ (k \in hit /\ aim'[k] = {})
                      /\ \/ ending'[k] = ending[k]
                         \/ ending'[k] = "no" /\ (ending[k] = "marked" => k \in hushed')
  BY DEF TurnsEnd, CommandsEnd, Halted
<1>3. kidKernel' = "down" => \A k \in Kids : aim'[k] = {} /\ ending'[k] = "no"
  BY DEF CommandsEnd
<1>4. KidTypes'
  <2>1. at' \in [Kids -> {"new", "idle", "turn", "done"}]
    BY DEF KidInv, KidTypes, Halted, TurnsEnd
  <2>2. sub' \in [Kids -> {"none", "numbered", "running", "failed", "gone"}]
    BY DEF KidInv, KidTypes, TurnsEnd
  <2>3. aim' \in [Kids -> SUBSET Kids] /\ ending' \in [Kids -> {"no", "marked", "told"}]
    BY DEF KidInv, KidTypes, CommandsEnd
  <2> QED
    BY <1>1, <2>1, <2>2, <2>3 DEF KidInv, KidTypes
<1>5. AimInv'
  BY <1>1, <1>2, <1>3 DEF KidInv, KidTypes, AimInv
<1>6. EndingInv'
  <2>1. ASSUME NEW k \in Kids, ending'[k] # "no"
        PROVE  kidKernel = "up" /\ kidKernel' = "up" /\ ending'[k] = ending[k]
    BY <1>2, <1>3, <2>1
  <2> QED
    BY <1>1, <1>2, <2>1 DEF KidInv, EndingInv
<1>7. LetterInv'
  BY <1>1, <1>2 DEF KidInv, LetterInv, Completion
<1>8. EndIsTold'
  BY <1>1, <1>2 DEF KidInv, EndIsTold, HasEnded
<1>9. OnceInv'
  <2>1. ASSUME NEW k \in Kids \ cut', at[k] = "done" \/ sub[k] = "gone"
        PROVE  at'[k] = "done" \/ sub'[k] = "gone"
    BY <1>1, <1>2, <2>1 DEF KidInv, AimInv
  <2>2. ASSUME NEW k \in Kids, BootTold(k)
        PROVE  BootTold(k)' \/ sub'[k] = "gone"
    BY <1>2, <2>2 DEF BootTold
  <2>3. \A k \in Kids : Completion(k)' = Completion(k)
    BY <1>1 DEF Completion
  <2> QED
    BY <1>1, <2>1, <2>2, <2>3 DEF KidInv, OnceInv, EndsItself
<1> QED
  BY <1>4, <1>5, <1>6, <1>7, <1>8, <1>9 DEF KidInv

LEMMA StopsStep ==
    ASSUME KidInv, (\E p, persistent : Interrupts(p, persistent)) \/ StopsAll \/ RestartsAll \/ CrashesAll
    PROVE  KidInv'
<1>1. ASSUME NEW p, NEW persistent, Interrupts(p, persistent) PROVE KidInv'
  <2>1. PICK below, pids : below = Under(p) /\ pids = {p} \cup {pidOf[j] : j \in below}
    OBVIOUS
  <2>2. PICK hit, kids : /\ hit = {k \in Kids : pidOf[k] \in pids}
                         /\ kids = {k \in Kids : dad[k] \in pids}
    OBVIOUS
  <2>3. hit \in SUBSET Kids /\ kids \in SUBSET Kids
    BY <2>2
  <2>4. /\ kidKernel = "up" /\ UNCHANGED kidKernel
        /\ TurnsEnd(hit, below \cup (Unborn \cap kids))
        /\ CommandsEnd(hit, kids) \/ UNCHANGED <<aim, ending, hushed>>
    BY <1>1, <2>1, <2>2 DEF Interrupts, Up
  <2> QED
    BY <2>3, <2>4, StopStep
<1>2. ASSUME NEW dying, KernelEnds(dying) PROVE KidInv'
  <2>1. Kids \in SUBSET Kids
    OBVIOUS
  <2>2. kidKernel' = "down" /\ TurnsEnd(Kids, dying) /\ CommandsEnd(Kids, Kids)
    BY <1>2 DEF KernelEnds
  <2> QED
    BY <2>1, <2>2, StopStep
<1> QED
  BY <1>1, <1>2 DEF StopsAll, RestartsAll, CrashesAll

\* The boot: the spool is wiped, and what was left running is told and removed.
LEMMA CleanStep ==
    ASSUME KidInv, CleanBegins \/ CleanEnds \/ \E k \in Kids : CleanMarks(k) \/ CleanTells(k)
    PROVE  KidInv'
<1>1. ASSUME CleanBegins \/ CleanEnds PROVE KidInv'
  <2>1. /\ UNCHANGED <<sub, at, dad, aim, ending, announced, stopped, cut, hushed, mistaken, heard>>
        /\ \/ letters' = {} /\ kidKernel = "down" /\ kidKernel' = "cleaning"
           \/ /\ letters' = letters /\ kidKernel = "cleaning" /\ kidKernel' = "up"
              /\ \A k \in Kids : ending[k] = "no"
    BY <1>1 DEF CleanBegins, CleanEnds, Numbers, Stages
  <2>2. KidTypes' /\ AimInv' /\ EndingInv'
    BY <2>1 DEF KidInv, KidTypes, AimInv, EndingInv
  <2>3. LetterInv' /\ EndIsTold'
    BY <2>1 DEF KidInv, LetterInv, EndIsTold, HasEnded, Completion
  <2>4. OnceInv'
    BY <2>1 DEF KidInv, OnceInv, EndsItself, Completion, BootTold
  <2> QED
    BY <2>2, <2>3, <2>4 DEF KidInv
<1>2. ASSUME NEW k \in Kids, CleanMarks(k) PROVE KidInv'
  <2>1. /\ UNCHANGED <<at, letters, dad, aim, announced, stopped, cut, hushed, mistaken, heard, kidKernel>>
        /\ sub[k] = "running" /\ kidKernel = "cleaning"
        /\ sub' = [sub EXCEPT ![k] = "failed"] /\ ending' = [ending EXCEPT ![k] = "marked"]
    BY <1>2 DEF CleanMarks, Numbers, Life
  <2>2. /\ sub'[k] = "failed" /\ ending'[k] = "marked"
        /\ \A i \in Kids : i # k => sub'[i] = sub[i] /\ ending'[i] = ending[i]
    BY <2>1 DEF KidInv, KidTypes
  <2>3. KidTypes' /\ AimInv' /\ EndingInv'
    BY <2>1, <2>2 DEF KidInv, KidTypes, AimInv, EndingInv
  <2>4. LetterInv' /\ EndIsTold'
    BY <2>1, <2>2 DEF KidInv, LetterInv, EndIsTold, HasEnded, Completion
  <2>5. OnceInv'
    <3>1. at[k] # "done"
      BY <2>1 DEF KidInv, AimInv
    <3> QED
      BY <2>1, <2>2, <3>1 DEF KidInv, OnceInv, EndsItself, Completion, BootTold
  <2> QED
    BY <2>3, <2>4, <2>5 DEF KidInv
<1>3. ASSUME NEW k \in Kids, CleanTells(k) PROVE KidInv'
  <2>1. /\ UNCHANGED <<sub, at, dad, aim, stopped, cut, hushed, mistaken, heard, kidKernel>>
        /\ kidKernel = "cleaning" /\ ending[k] = "marked" /\ ending' = [ending EXCEPT ![k] = "told"]
        /\ letters' = letters \cup {Completion(k)} /\ announced' = announced \cup {k}
    BY <1>3 DEF CleanTells, Numbers, Life
  <2>2. sub[k] = "failed" /\ at[k] # "done"
    BY <2>1 DEF KidInv, AimInv, EndingInv
  <2>3. ending'[k] = "told" /\ \A i \in Kids : i # k => ending'[i] = ending[i]
    BY <2>1 DEF KidInv, KidTypes
  <2>4. /\ LetterInv'
        /\ \A i \in Kids : Completion(i)' = Completion(i)
        /\ \A i \in Kids : Completion(i) \in letters' <=> Completion(i) \in letters \/ i = k
    BY <2>1, <2>2, LetterStep
  <2>5. KidTypes' /\ AimInv' /\ EndingInv'
    BY <2>1, <2>2, <2>3 DEF KidInv, KidTypes, AimInv, EndingInv
  <2>6. EndIsTold'
    BY <2>1, <2>3 DEF KidInv, EndIsTold, HasEnded
  <2>7. OnceInv'
    BY <2>1, <2>2, <2>3, <2>4 DEF KidInv, KidTypes, OnceInv, EndsItself, BootTold
  <2> QED
    BY <2>4, <2>5, <2>6, <2>7 DEF KidInv
<1> QED
  BY <1>1, <1>2, <1>3

LEMMA KidNext == KidInv /\ [SubNext]_kidVars => KidInv'
<1>1. ASSUME KidInv, NEW k \in Kids, NEW p \in PidRange,
             Numbered(k, p) \/ KillMarks(p, k) \/ Messages(p, k)
      PROVE  KidInv'
  BY <1>1, AskStep, KillStep
<1>2. ASSUME KidInv, NEW k \in Kids, Spawned(k) \/ KickedOff(k) \/ QuietEnd(k)
      PROVE  KidInv'
  BY <1>2, AskStep
<1>3. ASSUME KidInv, NEW k \in Kids,
             DoneResolves(k) \/ DoneDies(k) \/ PlainEnd(k) \/ CleanMarks(k) \/ CleanTells(k)
             \/ KillTells(k) \/ KillDies(k) \/ RmTree(k)
      PROVE  KidInv'
  BY <1>3, DoneStep, PlainStep, CleanStep, KillStep
<1>4. ASSUME KidInv, NEW k \in Kids, NEW j \in Kids, DoneEmits(k, j)
      PROVE  KidInv'
  BY <1>4, DoneStep
<1>5. ASSUME KidInv, NEW e \in letters, Delivered(e)
      PROVE  KidInv'
  BY <1>5, DeliveredStep
<1>6. ASSUME KidInv,
             \/ \E p \in PidRange, persistent \in BOOLEAN : Interrupts(p, persistent)
             \/ StopsAll \/ RestartsAll \/ CrashesAll \/ CleanBegins \/ CleanEnds
      PROVE  KidInv'
  BY <1>6, StopsStep, CleanStep
<1>7. ASSUME KidInv, UNCHANGED kidVars PROVE KidInv'
  BY <1>7 DEF KidInv, KidTypes, AimInv, EndingInv, LetterInv, EndIsTold, HasEnded, OnceInv, EndsItself,
              Completion, BootTold, kidVars
<1> QED
  BY <1>1, <1>2, <1>3, <1>4, <1>5, <1>6, <1>7 DEF SubNext

\* The invariant of the subagents: of children, of those about to resolve
\* them, and of the letters to their parents.
THEOREM KidInvCorrect == SubSpec => []KidInv
  BY KidInit, KidNext, PTL DEF SubSpec

\* While no child has ended another by a pid that came back, no parent hears
\* twice of one completion: nudge.py's plain end, cmd_done, clean.py.
THEOREM HeardOnceCorrect == SubSpec => []HeardOnce
<1>1. KidInv => HeardOnce
  BY DEF KidInv, OnceInv, HeardOnce
<1> QED
  BY <1>1, KidInvCorrect, PTL

\* No child comes to an end without a word to its own parent, unless the owner,
\* or a shutdown, ended it, a kill or a boot died between status and event, or
\* the `done` of another took it for its own, by a pid that had come back:
\* cmd_done, cmd_kill, nudge.py, clean.py.
THEOREM EndIsToldCorrect == SubSpec => []EndIsTold
<1>1. KidInv => EndIsTold
  BY DEF KidInv
<1> QED
  BY <1>1, KidInvCorrect, PTL

(* The pids. *)

\* While some child has no directory, there is a pid that no directory has.
LEMMA FreePidExists ==
    ASSUME pidOf \in [Kids -> PidRange], NEW k \in Kids, k \notin OnDisk
    PROVE  FreePid \in PidRange /\ FreePid \notin Used
<1> DEFINE c == Cardinality(Kids)
           pid == [j \in OnDisk |-> pidOf[j]]
           pids == {pidOf[j] : j \in OnDisk}
           unused == {p \in 1..(Top + c) : p \notin Used}
<1>1. IsFiniteSet(OnDisk) /\ Cardinality(OnDisk) < c /\ c \in Nat /\ Cardinality(OnDisk) \in Nat
  <2>1. OnDisk \in SUBSET Kids /\ OnDisk # Kids
    BY DEF OnDisk
  <2> QED
    BY <2>1, KidAssumption, FS_Subset, FS_CardinalityType
<1>2. IsFiniteSet(pids) /\ Cardinality(pids) <= Cardinality(OnDisk)
  <2>1. pid \in Surjection(OnDisk, pids)
    BY DEF Surjection
  <2> HIDE DEF pid, pids
  <2> QED
    BY <1>1, <2>1, FS_Surjection
<1>3. IsFiniteSet(Used) /\ Cardinality(Used) <= c + 1
  <2> HIDE DEF pids
  <2>1. Cardinality(pids) \in Nat /\ Cardinality(pids) < c
    BY <1>1, <1>2, FS_CardinalityType
  <2>2. IsFiniteSet(pids \cup {1}) /\ Cardinality(pids \cup {1}) \in Nat
        /\ Cardinality(pids \cup {1}) <= c
    <3>1. /\ IsFiniteSet(pids \cup {1})
          /\ Cardinality(pids \cup {1}) = IF 1 \in pids THEN Cardinality(pids) ELSE Cardinality(pids) + 1
      BY <1>2, FS_AddElement, Zenon
    <3> HIDE DEF c
    <3> QED
      BY <1>1, <2>1, <3>1
  <2>3. IsFiniteSet((pids \cup {1}) \cup {Top}) /\ Cardinality((pids \cup {1}) \cup {Top}) <= c + 1
    <3> DEFINE some == pids \cup {1}
    <3> HIDE DEF some, c
    <3>1. /\ IsFiniteSet(some \cup {Top})
          /\ Cardinality(some \cup {Top}) = IF Top \in some THEN Cardinality(some) ELSE Cardinality(some) + 1
      BY <2>2, FS_AddElement, Zenon DEF some
    <3> QED
      BY <1>1, <2>2, <3>1 DEF some
  <2>4. Used = (pids \cup {1}) \cup {Top}
    BY DEF Used, pids
  <2> QED
    BY <2>3, <2>4
<1>4. unused # {}
  <2>1. IsFiniteSet(1..(Top + c)) /\ Cardinality(1..(Top + c)) = c + 2
    <3>1. c + 2 \in Int /\ 1 \in Int /\ ~(1 > c + 2) /\ (c + 2) - 1 + 1 = c + 2 /\ Top + c = c + 2
      BY <1>1 DEF Top
    <3>2. IsFiniteSet(1..(c + 2)) /\ Cardinality(1..(c + 2)) = (c + 2) - 1 + 1
      BY <3>1, FS_Interval, Zenon
    <3> QED
      BY <3>1, <3>2
  <2>2. ~((1..(Top + c)) \in SUBSET Used)
    <3>1. ASSUME (1..(Top + c)) \in SUBSET Used PROVE c + 2 <= Cardinality(Used)
      <4>1. Cardinality(1..(Top + c)) <= Cardinality(Used)
        BY <1>3, <3>1, FS_Subset, Zenon
      <4> QED
        BY <2>1, <4>1
    <3>2. Cardinality(Used) \in Nat
      BY <1>3, FS_CardinalityType
    <3> HIDE DEF c
    <3> QED
      BY <1>1, <1>3, <3>1, <3>2
  <2> QED
    BY <2>2
<1>5. PICK p \in unused : \A q \in unused : p <= q
  <2>1. unused \in SUBSET Nat
    OBVIOUS
  <2> HIDE DEF unused
  <2> QED
    BY <1>4, <2>1, LeastNat
<1>6. \A q \in 1..(p - 1) : q \in Used
  <2> SUFFICES ASSUME NEW q \in 1..(p - 1), q \notin Used PROVE FALSE
    OBVIOUS
  <2>1. q \in unused /\ q < p /\ q \in Nat /\ p \in Nat
    BY <1>1 DEF Top
  <2>2. p <= q
    BY <1>5, <2>1
  <2> QED
    BY <2>1, <2>2
<1>7. FreePid \in 1..(Top + c) /\ FreePid \notin Used
  BY <1>5, <1>6 DEF FreePid
<1> QED
  BY <1>1, <1>7 DEF PidRange, Top

\* The descendants found from a pid: the rounds of the walk exist, each one is
\* of running children, and so is what the last one finds.
LEMMA UnderRunning ==
    ASSUME NEW p
    PROVE  Under(p) \subseteq Running
<1> DEFINE c == Cardinality(Kids)
           Round(S) == {k \in Running : dad[k] = p \/ \E j \in S : dad[k] = pidOf[j]}
           Walks(f, m) == f = [n \in 0..m |-> IF n = 0 THEN {} ELSE Round(f[n - 1])]
           late == {m \in Nat : ~\E f : Walks(f, m)}
<1>1. c \in Nat
  BY KidAssumption, FS_CardinalityType
<1>2. \E f : Walks(f, 0)
  <2>1. [n \in 0..0 |-> {}] = [n \in 0..0 |-> IF n = 0 THEN {} ELSE Round([i \in 0..0 |-> {}][n - 1])]
    OBVIOUS
  <2> QED
    BY <2>1
<1>3. ASSUME NEW m \in Nat, NEW f, Walks(f, m) PROVE \E g : Walks(g, m + 1)
  <2> DEFINE g == [n \in 0..(m + 1) |-> IF n = m + 1 THEN Round(f[m]) ELSE f[n]]
             h == [n \in 0..(m + 1) |-> IF n = 0 THEN {} ELSE Round(g[n - 1])]
  <2> HIDE DEF Round
  <2>1. \A n \in 0..m : f[n] = IF n = 0 THEN {} ELSE Round(f[n - 1])
    BY <1>3
  <2>2. ASSUME NEW n \in 0..(m + 1) PROVE g[n] = IF n = 0 THEN {} ELSE Round(g[n - 1])
    <3>1. CASE n = m + 1
      <4>1. n # 0 /\ n - 1 = m /\ m \in 0..(m + 1) /\ m # m + 1
        BY <3>1
      <4> QED
        BY <3>1, <4>1
    <3>2. CASE n \in 0..m /\ n # m + 1
      <4>1. n # 0 => n - 1 \in 0..(m + 1) /\ n - 1 # m + 1
        BY <3>2
      <4> QED
        BY <2>1, <3>2, <4>1
    <3> QED
      BY <3>1, <3>2
  <2>3. g = h
    BY <2>2
  <2> QED
    BY <2>3
<1>4. late = {}
  <2> HIDE DEF Walks
  <2> SUFFICES ASSUME late # {} PROVE FALSE
    OBVIOUS
  <2>1. PICK m \in late : \A i \in late : m <= i
    <3>1. late \in SUBSET Nat
      OBVIOUS
    <3> HIDE DEF late
    <3> QED
      BY <3>1, LeastNat
  <2>2. m # 0 /\ m \in Nat
    BY <1>2
  <2>3. m - 1 \in Nat /\ m - 1 \notin late /\ (m - 1) + 1 = m
    BY <2>1, <2>2
  <2>4. PICK f : Walks(f, m - 1)
    BY <2>3
  <2> QED
    BY <1>3, <2>1, <2>3, <2>4
<1>5. PICK f : Walks(f, c)
  <2> HIDE DEF Walks
  <2> QED
    BY <1>1, <1>4
<1>6. Walks(CHOOSE g : Walks(g, c), c)
  <2> HIDE DEF Walks
  <2> QED
    BY <1>5
<1>7. Under(p) = (CHOOSE g : Walks(g, c))[c]
  BY DEF Under
<1>8. PICK below : Walks(below, c) /\ Under(p) = below[c]
  <2> HIDE DEF Walks
  <2> QED
    BY <1>6, <1>7
<1>9. below[c] = IF c = 0 THEN {} ELSE Round(below[c - 1])
  <2> HIDE DEF Round
  <2>1. c \in 0..c
    BY <1>1
  <2> HIDE DEF c
  <2> QED
    BY <1>8, <2>1
<1> QED
  BY <1>8, <1>9

PidTypes ==
    /\ pidOf \in [Kids -> PidRange] /\ dad \in [Kids -> PidRange]
    /\ letters \subseteq Letters /\ stopped \subseteq Kids
    /\ kidLife \in 1..KidLives /\ accidents \in 0..KidMishaps

LEMMA PidTypesInit == SubInit => PidTypes
<1> SUFFICES ASSUME SubInit PROVE PidTypes
  OBVIOUS
<1>1. 0 \in PidRange
  BY KidAssumption, FS_CardinalityType DEF PidRange, Top
<1> QED
  BY <1>1, KidAssumption DEF SubInit, PidTypes

\* Letters go to the pids of children and parents.
LEMMA PidTypesNext == KidTypes /\ PidTypes /\ [SubNext]_kidVars => PidTypes'
<1> SUFFICES ASSUME KidTypes, PidTypes, [SubNext]_kidVars PROVE PidTypes'
  OBVIOUS
<1>1. ASSUME NEW k \in Kids
      PROVE  Completion(k) \in Letters /\ Word(dad[k]) \in Letters /\ Word(pidOf[k]) \in Letters
  BY DEF Completion, Word, Letters, PidTypes
<1>2. ASSUME NEW k \in Kids, NEW p \in PidRange, Numbered(k, p) PROVE PidTypes'
  <2>1. FreePid \in PidRange
    BY <1>2, FreePidExists DEF PidTypes, Numbered, OnDisk
  <2> QED
    BY <1>2, <2>1 DEF PidTypes, Numbered, Stages, Life
<1>3. ASSUME NEW k \in Kids, NEW p \in PidRange, KillMarks(p, k) \/ Messages(p, k) PROVE PidTypes'
  BY <1>1, <1>3 DEF PidTypes, KillMarks, Messages, Stages, Numbers, Life
<1>4. ASSUME NEW k \in Kids,
             Spawned(k) \/ KickedOff(k) \/ QuietEnd(k) \/ KillTells(k) \/ RmTree(k)
             \/ CleanMarks(k) \/ CleanTells(k)
      PROVE  PidTypes'
  BY <1>1, <1>4 DEF PidTypes, Spawned, KickedOff, QuietEnd, KillTells, RmTree, CleanMarks, CleanTells,
                    Stages, Numbers, Life
<1>5. ASSUME NEW k \in Kids, DoneResolves(k) \/ DoneDies(k) \/ KillDies(k) PROVE PidTypes'
  <2>1. UNCHANGED <<letters, pidOf, dad, stopped, kidLife>>
    BY <1>5 DEF DoneResolves, DoneDies, DoneReturns, KillDies, Numbers, KillState
  <2>2. accidents' = accidents \/ (accidents < KidMishaps /\ accidents' = accidents + 1)
    BY <1>5 DEF DoneResolves, DoneDies, KillDies, Mishap
  <2> QED
    BY <2>1, <2>2, KidAssumption DEF PidTypes
<1>6. ASSUME NEW k \in Kids, PlainEnd(k) PROVE PidTypes'
  <2>1. UNCHANGED <<pidOf, dad, stopped, kidLife, accidents>>
    BY <1>6 DEF PlainEnd, Numbers, Life, KillState
  <2>2. letters' = letters \/ letters' = letters \cup {Word(dad[k])}
        \/ letters' = letters \cup {Completion(k)}
    BY <1>6 DEF PlainEnd, Relays, AutoFinishes
  <2> QED
    BY <1>1, <2>1, <2>2 DEF PidTypes
<1>7. ASSUME NEW k \in Kids, NEW j \in Kids, DoneEmits(k, j) PROVE PidTypes'
  BY <1>1, <1>7 DEF PidTypes, DoneEmits, Numbers, Life, KillState
<1>8. ASSUME NEW e \in letters, Delivered(e) PROVE PidTypes'
  BY <1>8 DEF PidTypes, Delivered, Numbers, Life, KillState
<1>9. ASSUME NEW p \in PidRange, NEW persistent \in BOOLEAN, Interrupts(p, persistent) PROVE PidTypes'
  <2>1. Under(p) \subseteq Kids /\ Unborn \subseteq Kids
    BY UnderRunning DEF Running, Unborn
  <2>2. UNCHANGED <<letters, pidOf, dad, kidLife>>
    BY <1>9 DEF Interrupts, TurnsEnd, Numbers
  <2>3. stopped' \subseteq stopped \cup Under(p) \cup Unborn
    BY <1>9 DEF Interrupts, TurnsEnd
  <2>4. accidents < KidMishaps /\ accidents' = accidents + 1
    BY <1>9 DEF Interrupts, Mishap
  <2> QED
    BY <2>1, <2>2, <2>3, <2>4, KidAssumption DEF PidTypes
<1>10. CASE StopsAll \/ RestartsAll \/ CrashesAll
  BY <1>10 DEF PidTypes, StopsAll, RestartsAll, CrashesAll, KernelEnds, TurnsEnd, Running, Unborn, Numbers
<1>11. CASE CleanBegins \/ CleanEnds
  BY <1>11, KidAssumption DEF PidTypes, CleanBegins, CleanEnds, Stages, Numbers
<1>12. CASE UNCHANGED kidVars
  BY <1>12 DEF PidTypes, kidVars
<1>13. CASE SubNext
  BY <1>2, <1>3, <1>4, <1>5, <1>6, <1>7, <1>8, <1>9, <1>10, <1>11, <1>13 DEF SubNext
<1> QED
  BY <1>12, <1>13

LEMMA SubTyped == KidTypes /\ PidTypes => SubTypeOK
  BY DEF KidTypes, PidTypes, SubTypeOK

\* Children and their parents have pids that were free (alloc_pai_pid), letters
\* go to such pids, and the kernel's lives are counted.
THEOREM SubTypeCorrect == SubSpec => []SubTypeOK
<1>1. KidTypes /\ PidTypes => SubTypeOK
  BY SubTyped
<1>2. KidInv => KidTypes
  BY DEF KidInv
<1> QED
  BY <1>1, <1>2, KidInvCorrect, PidTypesInit, PidTypesNext, PTL DEF SubSpec

-----------------------------------------------------------------------------
(* The shell. *)

ShellTypes ==
    /\ tty \in Seq(Runs) /\ exitPipe \in Seq(Runs) /\ exitBuf \in Seq(Runs)
    /\ front \subseteq Runs /\ \A d, e \in front : d = e
    /\ outPipe \subseteq Runs /\ outBuf \subseteq Runs /\ printed \subseteq Runs
    /\ abandoned \subseteq Runs
    /\ shellCall \in [Runs -> {"idle", "test", "write", "wait", "grace", "done"}]
    /\ result \in [Runs -> [code : SUBSET Runs, out : SUBSET Runs]]

Waiting == {"wait", "grace"}
Busy(c) == shellCall[c] \notin {"idle", "done"}

\* One call at a time; the self-test is inside the one that it is for.
TurnInv ==
    /\ \A c, d \in Calls : Busy(c) /\ Busy(d) => c = d
    /\ shellCall[SelfTest] # "test"
    /\ Busy(SelfTest) => \E c \in Calls : shellCall[c] = "test"

Has(q, d) == \E i \in DOMAIN q : q[i] = d
Once(q, d) == \A i, j \in DOMAIN q : q[i] = d /\ q[j] = d => i = j

\* The way of a command that nobody gave up, from the terminal to exit_buf: it
\* is in one place, in the terminal or the pipes only while its call waits, and
\* in the buffers while another call waits never.
PlaceOf(d) ==
    /\ Has(tty, d) \/ d \in front \/ Has(exitPipe, d) \/ d \in outPipe => shellCall[d] \in Waiting
    /\ Has(exitBuf, d) \/ d \in outBuf => \A c \in Runs : shellCall[c] \in Waiting => c = d
    /\ Once(tty, d) /\ Once(exitPipe, d)
    /\ Has(tty, d) => d \notin front /\ ~Has(exitPipe, d) /\ ~Has(exitBuf, d)
    /\ d \in front => ~Has(exitPipe, d) /\ ~Has(exitBuf, d)
    /\ Has(exitPipe, d) => ~Has(exitBuf, d)

PlaceInv == \A d \in Runs \ abandoned : PlaceOf(d)

\* What a command has printed is on its way to its call, and was on its way to
\* no earlier one.
PrintInv ==
    \A c \in Calls :
        /\ shellCall[c] # "done" => c \notin abandoned
        /\ shellCall[c] \in {"idle", "test", "write"} => c \notin printed
        /\ shellCall[c] \in Waiting /\ c \in printed => c \in outPipe \cup outBuf
        /\ c \in result[c].code => shellCall[c] = "done" /\ c \notin abandoned

ShellInv == ShellTypes /\ TurnInv /\ PlaceInv /\ PrintInv /\ OwnAnswer

\* What a queue has after its end or its head has changed.
LEMMA AppendHas ==
    ASSUME NEW S, NEW q \in Seq(S), NEW e \in S, NEW d
    PROVE  /\ Append(q, e) \in Seq(S)
           /\ Has(Append(q, e), d) <=> Has(q, d) \/ d = e
           /\ Once(q, d) /\ (d = e => ~Has(q, d)) => Once(Append(q, e), d)
<1>1. /\ DOMAIN Append(q, e) = 1..(Len(q) + 1) /\ Append(q, e)[Len(q) + 1] = e
      /\ DOMAIN q = 1..Len(q) /\ Len(q) \in Nat
      /\ \A i \in 1..Len(q) : Append(q, e)[i] = q[i]
  OBVIOUS
<1>2. Has(Append(q, e), d) <=> Has(q, d) \/ d = e
  BY <1>1 DEF Has
<1>3. ASSUME Once(q, d), d = e => ~Has(q, d) PROVE Once(Append(q, e), d)
  BY <1>1, <1>3 DEF Has, Once
<1> QED
  BY <1>2, <1>3

LEMMA TailHas ==
    ASSUME NEW S, NEW q \in Seq(S), q # << >>, NEW d
    PROVE  /\ Tail(q) \in Seq(S) /\ Head(q) \in S
           /\ Has(q, d) <=> Has(Tail(q), d) \/ d = Head(q)
           /\ Once(q, d) => Once(Tail(q), d) /\ (d = Head(q) => ~Has(Tail(q), d))
<1>1. /\ DOMAIN Tail(q) = 1..(Len(q) - 1) /\ Head(q) = q[1]
      /\ DOMAIN q = 1..Len(q) /\ Len(q) \in Nat \ {0}
      /\ \A i \in 1..(Len(q) - 1) : Tail(q)[i] = q[i + 1]
  OBVIOUS
<1>2. ASSUME NEW i \in DOMAIN q, i # 1 PROVE i - 1 \in DOMAIN Tail(q) /\ Tail(q)[i - 1] = q[i]
  BY <1>1, <1>2
<1>3. \A i \in DOMAIN Tail(q) : i + 1 \in DOMAIN q /\ i + 1 # 1 /\ Tail(q)[i] = q[i + 1]
  BY <1>1
<1>4. 1 \in DOMAIN q
  BY <1>1
<1>5. Has(q, d) <=> Has(Tail(q), d) \/ d = Head(q)
  <2>1. ASSUME Has(q, d) PROVE Has(Tail(q), d) \/ d = Head(q)
    <3>1. PICK i \in DOMAIN q : q[i] = d
      BY <2>1 DEF Has
    <3> QED
      BY <1>1, <1>2, <3>1 DEF Has
  <2>2. ASSUME Has(Tail(q), d) PROVE Has(q, d)
    <3>1. PICK i \in DOMAIN Tail(q) : Tail(q)[i] = d
      BY <2>2 DEF Has
    <3> QED
      BY <1>3, <3>1 DEF Has
  <2>3. d = Head(q) => Has(q, d)
    BY <1>1, <1>4 DEF Has
  <2> QED
    BY <2>1, <2>2, <2>3
<1>6. ASSUME Once(q, d) PROVE Once(Tail(q), d) /\ (d = Head(q) => ~Has(Tail(q), d))
  <2>1. Once(Tail(q), d)
    <3>1. \A i, j \in DOMAIN Tail(q) : i + 1 = j + 1 => i = j
      BY <1>1
    <3> QED
      BY <1>3, <1>6, <3>1 DEF Once
  <2>2. d = Head(q) => ~Has(Tail(q), d)
    BY <1>1, <1>3, <1>4, <1>6 DEF Once, Has
  <2> QED
    BY <2>1, <2>2
<1> QED
  BY <1>5, <1>6

LEMMA NoneHas == \A d : ~Has(<< >>, d) /\ Once(<< >>, d)
  BY DEF Has, Once

LEMMA ShellInvInit == ShellInit => ShellInv
<1> SUFFICES ASSUME ShellInit PROVE ShellInv
  OBVIOUS
<1>1. ShellTypes
  <2>1. << >> \in Seq(Runs)
    OBVIOUS
  <2>2. NoAnswer \in [code : SUBSET Runs, out : SUBSET Runs]
    BY DEF NoAnswer
  <2> QED
    BY <2>1, <2>2 DEF ShellInit, ShellTypes
<1>2. TurnInv /\ PrintInv /\ OwnAnswer
  BY DEF ShellInit, TurnInv, Busy, PrintInv, OwnAnswer, NoAnswer, Runs
<1>3. PlaceInv
  BY NoneHas DEF ShellInit, PlaceInv, PlaceOf
<1> QED
  BY <1>1, <1>2, <1>3 DEF ShellInv

\* Who is who: the one that waits, and that it is no other's turn.
LEMMA TurnFacts ==
    ASSUME ShellInv, NEW c \in Runs, NEW d \in Runs,
           shellCall[c] \in {"write", "wait", "grace"}, shellCall[d] \in {"write", "wait", "grace"}
    PROVE  c = d
<1>1. c \in Calls \/ c = SelfTest
  BY DEF Runs
<1>2. d \in Calls \/ d = SelfTest
  BY DEF Runs
<1>3. Busy(c) /\ Busy(d)
  BY DEF Busy
<1>4. \A e \in Calls : shellCall[e] = "test" => Busy(e)
  BY DEF Busy
<1> QED
  BY <1>1, <1>2, <1>3, <1>4 DEF ShellInv, TurnInv

\* Steps that take commands off their way, or none.
LEMMA PlaceKept ==
    ASSUME ShellInv, abandoned \subseteq abandoned',
           tty' \in {tty, << >>}, front' \subseteq front, exitPipe' \in {exitPipe, << >>},
           exitBuf' \in {exitBuf, << >>}, outPipe' \subseteq outPipe, outBuf' \subseteq outBuf,
           \A d \in Runs \ abandoned' : shellCall[d] \in Waiting => shellCall'[d] \in Waiting,
           \A d \in Runs : shellCall'[d] \in Waiting => shellCall[d] \in Waiting
    PROVE  PlaceInv'
<1> SUFFICES ASSUME NEW d \in Runs \ abandoned' PROVE PlaceOf(d)'
  BY DEF PlaceInv
<1>1. PlaceOf(d)
  BY DEF ShellInv, PlaceInv
<1>2. /\ (Has(tty', d) => Has(tty, d)) /\ (Once(tty, d) => Once(tty', d))
      /\ (Has(exitPipe', d) => Has(exitPipe, d)) /\ (Once(exitPipe, d) => Once(exitPipe', d))
      /\ Has(exitBuf', d) => Has(exitBuf, d)
  BY NoneHas
<1> QED
  BY <1>1, <1>2 DEF PlaceOf

LEMMA PrintKept ==
    ASSUME ShellInv, printed' = printed, abandoned \subseteq abandoned',
           \A c \in Calls :
              /\ result'[c] = result[c] \/ (result'[c].code = {} /\ shellCall[c] # "done")
              /\ shellCall[c] = "done" => shellCall'[c] = "done"
              /\ c \in abandoned' => c \in abandoned \/ (shellCall[c] # "done" /\ shellCall'[c] = "done")
              /\ shellCall'[c] \in {"idle", "test", "write"} => shellCall[c] \in {"idle", "test", "write"}
              /\ shellCall'[c] \in Waiting =>
                    shellCall[c] \in Waiting /\ UNCHANGED <<outPipe, outBuf>>
    PROVE  PrintInv' /\ OwnAnswer'
<1>1. PrintInv'
  BY DEF ShellInv, PrintInv, Waiting
<1>2. OwnAnswer'
  BY DEF ShellInv, OwnAnswer, Runs
<1> QED
  BY <1>1, <1>2

\* The calls: they ask, and end without an answer.
LEMMA CallStep ==
    ASSUME ShellInv, NEW c \in Runs,
           \/ c \in Calls /\ (Asks(c) \/ Refuses(c) \/ Cancelled(c))
           \/ WriteFails(c) \/ GivesUp(c)
    PROVE  ShellInv'
<1>1. /\ UNCHANGED <<tty, front, exitPipe, outPipe, printed>>
      /\ exitBuf' \in {exitBuf, << >>} /\ outBuf' \in {outBuf, {}}
      /\ abandoned' \in {abandoned, abandoned \cup {c}, abandoned \cup {c, SelfTest}}
  BY DEF Asks, Refuses, Cancelled, WriteFails, GivesUp, Terminal, Pipes, Buffers
<1>2. /\ shellCall' \in [Runs -> {"idle", "test", "write", "wait", "grace", "done"}]
      /\ result' \in [Runs -> [code : SUBSET Runs, out : SUBSET Runs]]
  <2>1. SelfTest \in Runs
    BY DEF Runs
  <2>2. CASE c \in Calls /\ (Asks(c) \/ Refuses(c))
    BY <2>2 DEF Asks, Refuses, ShellInv, ShellTypes
  <2>3. CASE c \in Calls /\ Cancelled(c)
    BY <2>1, <2>3 DEF Cancelled, ShellInv, ShellTypes
  <2>4. CASE WriteFails(c)
    BY <2>4 DEF WriteFails, ShellInv, ShellTypes
  <2>5. CASE GivesUp(c)
    BY <2>5 DEF GivesUp, Answer, ShellInv, ShellTypes
  <2> QED
    BY <2>2, <2>3, <2>4, <2>5
<1>3. ShellTypes'
  <2>1. << >> \in Seq(Runs) /\ SelfTest \in Runs
    BY DEF Runs
  <2> QED
    BY <1>1, <1>2, <2>1 DEF ShellInv, ShellTypes
<1>4. TurnInv'
  <2>1. CASE c \in Calls /\ Asks(c)
    BY <2>1, ShellAssumption DEF Asks, Between, Busy, Runs, ShellInv, ShellTypes, TurnInv
  <2>2. CASE c \in Calls /\ (Refuses(c) \/ Cancelled(c))
    BY <2>2, ShellAssumption DEF Refuses, Cancelled, Busy, Runs, ShellInv, ShellTypes, TurnInv
  <2>3. CASE WriteFails(c) \/ GivesUp(c)
    BY <2>3, ShellAssumption DEF WriteFails, GivesUp, Answer, Busy, Runs, ShellInv, ShellTypes, TurnInv
  <2> QED
    BY <2>1, <2>2, <2>3
<1>5. \A d \in Runs : shellCall'[d] \in Waiting => shellCall[d] \in Waiting
  BY DEF Asks, Refuses, Cancelled, WriteFails, GivesUp, Answer, Waiting, Runs, ShellInv, ShellTypes
<1>6. ASSUME NEW d \in Runs \ abandoned', shellCall[d] \in Waiting PROVE shellCall'[d] \in Waiting
  <2>1. CASE c \in Calls /\ Cancelled(c)
    <3>1. d = SelfTest => shellCall[c] = "test"
      <4>1. Busy(SelfTest) <=> shellCall[SelfTest] \notin {"idle", "done"}
        BY DEF Busy
      <4>2. \A e \in Calls : shellCall[e] = "test" => e = c
        BY <2>1 DEF Cancelled, Busy, ShellInv, TurnInv
      <4> QED
        BY <1>6, <4>1, <4>2 DEF Waiting, ShellInv, TurnInv
    <3> QED
      BY <1>6, <2>1, <3>1 DEF Cancelled, Waiting, ShellInv, ShellTypes
  <2>2. CASE c \in Calls /\ (Asks(c) \/ Refuses(c))
    BY <1>6, <2>2 DEF Asks, Refuses, Waiting, ShellInv, ShellTypes
  <2>3. CASE WriteFails(c) \/ GivesUp(c)
    BY <1>6, <2>3 DEF WriteFails, GivesUp, Answer, Waiting, ShellInv, ShellTypes
  <2> QED
    BY <2>1, <2>2, <2>3
<1>7. PlaceInv'
  BY <1>1, <1>5, <1>6, PlaceKept DEF Runs
<1>8. ASSUME NEW d \in Calls
      PROVE  /\ result'[d] = result[d] \/ (result'[d].code = {} /\ shellCall[d] # "done")
             /\ shellCall[d] = "done" => shellCall'[d] = "done"
             /\ d \in abandoned' => d \in abandoned \/ (shellCall[d] # "done" /\ shellCall'[d] = "done")
             /\ shellCall'[d] \in {"idle", "test", "write"} => shellCall[d] \in {"idle", "test", "write"}
             /\ shellCall'[d] \in Waiting => shellCall[d] \in Waiting /\ UNCHANGED <<outPipe, outBuf>>
  <2>1. d \in Runs /\ d # SelfTest
    BY ShellAssumption DEF Runs
  <2>2. CASE c \in Calls /\ (Asks(c) \/ Refuses(c) \/ Cancelled(c))
    BY <2>1, <2>2 DEF Asks, Refuses, Cancelled, Buffers, Pipes, Waiting, ShellInv, ShellTypes
  <2>3. CASE WriteFails(c)
    <3>1. shellCall[d] \in Waiting => FALSE
      BY <2>1, <2>3, TurnFacts DEF WriteFails, Waiting
    <3> QED
      BY <1>5, <2>1, <2>3, <3>1 DEF WriteFails, Waiting, ShellInv, ShellTypes
  <2>4. CASE GivesUp(c)
    BY <2>1, <2>4 DEF GivesUp, Answer, Buffers, Pipes, Waiting, ShellInv, ShellTypes
  <2> QED
    BY <2>2, <2>3, <2>4
<1>9. PrintInv' /\ OwnAnswer'
  BY <1>1, <1>8, PrintKept
<1> QED
  BY <1>3, <1>4, <1>7, <1>9 DEF ShellInv

\* Sessions begin and end between the calls, or when their self-test fails.
LEMMA SessionStep ==
    ASSUME ShellInv,
           \/ \E c \in Calls : SpawnsBash(c) \/ SpawnRaises(c) \/ SelfTested(c)
           \/ ShutsDown
    PROVE  ShellInv'
<1>1. << >> \in Seq(Runs) /\ SelfTest \in Runs /\ (\A c \in Calls : c \in Runs /\ c # SelfTest)
  BY ShellAssumption DEF Runs
<1>2. \/ NewSession
      \/ UNCHANGED <<tty, front, exitPipe, outPipe, exitBuf, outBuf>>
  BY DEF SpawnsBash, SpawnRaises, SelfTested, ShutsDown, Terminal, Pipes, Buffers
<1>3. /\ abandoned' = abandoned /\ printed' = printed
      /\ tty' \in {tty, << >>} /\ exitPipe' \in {exitPipe, << >>} /\ exitBuf' \in {exitBuf, << >>}
      /\ front' \in {front, {}} /\ outPipe' \in {outPipe, {}} /\ outBuf' \in {outBuf, {}}
  BY <1>2 DEF NewSession, SpawnsBash, SpawnRaises, SelfTested, ShutsDown
<1>4. \A d \in Runs : shellCall[d] \notin Waiting
  <2>1. ASSUME NEW c \in Calls, SelfTested(c), NEW d \in Runs PROVE shellCall[d] \notin Waiting
    <3>1. Busy(c) /\ (shellCall[d] \in Waiting => Busy(d)) /\ shellCall[SelfTest] \notin Waiting
      BY <2>1 DEF SelfTested, Busy, Waiting
    <3> QED
      BY <2>1, <3>1 DEF SelfTested, Waiting, Runs, ShellInv, TurnInv
  <2>2. Between => \A d \in Runs : shellCall[d] \notin Waiting
    BY DEF Between, Waiting
  <2> QED
    BY <2>1, <2>2 DEF SpawnsBash, SpawnRaises, ShutsDown
<1>5. ASSUME NEW c \in Calls, SpawnsBash(c) \/ SpawnRaises(c) \/ SelfTested(c)
      PROVE  /\ shellCall' \in [Runs -> {"idle", "test", "write", "wait", "grace", "done"}]
             /\ result' \in [Runs -> [code : SUBSET Runs, out : SUBSET Runs]]
             /\ TurnInv'
             /\ \A d \in Runs : shellCall'[d] \notin Waiting
             /\ \A d \in Calls :
                  /\ result'[d] = result[d] /\ (shellCall[d] = "done" => shellCall'[d] = "done")
                  /\ shellCall'[d] \in {"idle", "test", "write"} => shellCall[d] \in {"idle", "test", "write"}
  <2>1. NoAnswer \in [code : SUBSET Runs, out : SUBSET Runs]
    BY DEF NoAnswer
  <2>2. CASE SpawnsBash(c)
    <3>1. /\ shellCall' \in [Runs -> {"idle", "test", "write", "wait", "grace", "done"}]
          /\ result' \in [Runs -> [code : SUBSET Runs, out : SUBSET Runs]]
      BY <1>1, <2>1, <2>2 DEF SpawnsBash, ShellInv, ShellTypes
    <3>2. /\ shellCall'[c] = "test" /\ shellCall'[SelfTest] = "write"
          /\ \A d \in Runs \ {c, SelfTest} : shellCall'[d] = shellCall[d]
          /\ \A d \in Calls : result'[d] = result[d]
      BY <1>1, <2>2 DEF SpawnsBash, ShellInv, ShellTypes
    <3>3. \A d \in Runs : shellCall[d] \in {"idle", "done"}
      BY <2>2 DEF SpawnsBash, Between
    <3> QED
      BY <1>1, <2>2, <3>1, <3>2, <3>3 DEF SpawnsBash, Busy, TurnInv, Waiting
  <2>3. CASE SpawnRaises(c)
    <3>1. /\ shellCall' \in [Runs -> {"idle", "test", "write", "wait", "grace", "done"}]
          /\ result' = result
      BY <1>1, <2>3 DEF SpawnRaises, ShellInv, ShellTypes
    <3>2. shellCall'[c] = "done" /\ \A d \in Runs \ {c} : shellCall'[d] = shellCall[d]
      BY <1>1, <2>3 DEF SpawnRaises, ShellInv, ShellTypes
    <3>3. \A d \in Runs : shellCall[d] \in {"idle", "done"}
      BY <2>3 DEF SpawnRaises, Between
    <3> QED
      BY <1>1, <2>3, <3>1, <3>2, <3>3 DEF SpawnRaises, Busy, TurnInv, Waiting, ShellInv, ShellTypes
  <2>4. CASE SelfTested(c)
    <3>1. /\ shellCall' \in [Runs -> {"idle", "test", "write", "wait", "grace", "done"}]
          /\ result' = result
      BY <1>1, <2>4 DEF SelfTested, ShellInv, ShellTypes
    <3>2. /\ shellCall'[c] \in {"write", "done"} /\ shellCall'[SelfTest] = "idle"
          /\ \A d \in Runs \ {c, SelfTest} : shellCall'[d] = shellCall[d]
      BY <1>1, <2>4 DEF SelfTested, ShellInv, ShellTypes
    <3>3. \A d \in Calls \ {c} : ~Busy(d)
      BY <2>4 DEF SelfTested, Busy, ShellInv, TurnInv
    <3>4. shellCall[c] = "test"
      BY <2>4 DEF SelfTested
    <3>5. TurnInv'
      BY <1>1, <3>2, <3>3 DEF Busy, TurnInv
    <3>6. \A d \in Runs : shellCall'[d] \notin Waiting
      BY <1>4, <3>2 DEF Waiting
    <3> QED
      BY <1>1, <3>1, <3>2, <3>4, <3>5, <3>6 DEF ShellInv, ShellTypes
  <2> QED
    BY <1>5, <2>2, <2>3, <2>4
<1>6. CASE \E c \in Calls : SpawnsBash(c) \/ SpawnRaises(c) \/ SelfTested(c)
  <2>1. ShellTypes' /\ TurnInv'
    BY <1>1, <1>3, <1>5, <1>6 DEF ShellInv, ShellTypes
  <2>2. PlaceInv'
    BY <1>3, <1>4, <1>5, <1>6, PlaceKept
  <2>3. PrintInv' /\ OwnAnswer'
    BY <1>1, <1>3, <1>5, <1>6, PrintKept
  <2> QED
    BY <2>1, <2>2, <2>3 DEF ShellInv
<1>7. CASE ShutsDown
  <2>1. UNCHANGED <<shellCall, result>>
    BY <1>7 DEF ShutsDown
  <2>2. ShellTypes' /\ TurnInv'
    BY <1>1, <1>3, <2>1 DEF ShellInv, ShellTypes, TurnInv, Busy
  <2>3. PlaceInv'
    BY <1>3, <2>1, PlaceKept
  <2>4. PrintInv' /\ OwnAnswer'
    BY <1>1, <1>3, <1>4, <2>1, PrintKept
  <2> QED
    BY <2>2, <2>3, <2>4 DEF ShellInv
<1> QED
  BY <1>6, <1>7

\* A call writes its line into a session that holds nothing of the others'.
LEMMA WriteStep ==
    ASSUME ShellInv, NEW c \in Runs, WritesLine(c)
    PROVE  ShellInv'
<1>1. \A d \in Runs : shellCall[d] \notin Waiting
  <2>1. SUFFICES ASSUME NEW d \in Runs, shellCall[d] \in Waiting PROVE FALSE
    OBVIOUS
  <2> QED
    BY <2>1, TurnFacts DEF WritesLine, Waiting
<1>2. /\ shellCall' \in [Runs -> {"idle", "test", "write", "wait", "grace", "done"}]
      /\ shellCall'[c] = "wait" /\ \A d \in Runs \ {c} : shellCall'[d] = shellCall[d]
  BY DEF WritesLine, ShellInv, ShellTypes
<1>3. /\ UNCHANGED <<front, exitPipe, outPipe, result, printed, abandoned>>
      /\ exitBuf' = << >> /\ outBuf' = {} /\ tty' \in {tty, Append(tty, c)}
  BY DEF WritesLine, Line, Pipes
<1>4. ShellTypes'
  <2>1. << >> \in Seq(Runs) /\ Append(tty, c) \in Seq(Runs)
    BY AppendHas DEF ShellInv, ShellTypes
  <2> QED
    BY <1>2, <1>3, <2>1 DEF ShellInv, ShellTypes
<1>5. TurnInv'
  BY <1>2, ShellAssumption DEF WritesLine, Busy, Runs, ShellInv, TurnInv
<1>6. PlaceInv'
  <2> SUFFICES ASSUME NEW d \in Runs \ abandoned' PROVE PlaceOf(d)'
    BY DEF PlaceInv
  <2>1. ~Has(tty, d) /\ d \notin front /\ ~Has(exitPipe, d) /\ d \notin outPipe /\ Once(exitPipe, d)
    BY <1>1, <1>3 DEF ShellInv, PlaceInv, PlaceOf
  <2>2. (Has(tty', d) => d = c) /\ Once(tty', d)
    <3>1. Once(tty, d)
      BY <1>3 DEF ShellInv, PlaceInv, PlaceOf
    <3>2. (Has(Append(tty, c), d) => d = c) /\ Once(Append(tty, c), d)
      BY <2>1, <3>1, AppendHas DEF ShellInv, ShellTypes
    <3> QED
      BY <1>3, <2>1, <3>1, <3>2
  <2>3. ~Has(exitBuf', d)
    BY <1>3, NoneHas
  <2> QED
    BY <1>2, <1>3, <2>1, <2>2, <2>3 DEF PlaceOf, Waiting
<1>7. PrintInv' /\ OwnAnswer'
  <2>1. PrintInv'
    BY <1>1, <1>2, <1>3 DEF WritesLine, Runs, Waiting, ShellInv, PrintInv
  <2>2. OwnAnswer'
    BY <1>3 DEF ShellInv, OwnAnswer
  <2> QED
    BY <2>1, <2>2
<1> QED
  BY <1>4, <1>5, <1>6, <1>7 DEF ShellInv

\* Bash reads a line: a command of it comes to the front.
LEMMA BashReadsStep == ShellInv /\ BashReads => ShellInv'
<1> SUFFICES ASSUME ShellInv, BashReads PROVE ShellInv'
  OBVIOUS
<1>1. /\ UNCHANGED <<exitPipe, outPipe, exitBuf, outBuf, shellCall, result, printed, abandoned>>
      /\ tty # << >> /\ tty' = Tail(tty) /\ front = {} /\ front' \in {{}, {Head(tty)}}
  BY DEF BashReads, Pipes, Buffers
<1>2. tty' \in Seq(Runs) /\ Head(tty) \in Runs
  BY <1>1, TailHas DEF ShellInv, ShellTypes
<1>3. ShellTypes'
  BY <1>1, <1>2 DEF ShellInv, ShellTypes
<1>4. PlaceInv'
  <2> SUFFICES ASSUME NEW d \in Runs \ abandoned' PROVE PlaceOf(d)'
    BY DEF PlaceInv
  <2>1. PlaceOf(d)
    BY <1>1 DEF ShellInv, PlaceInv
  <2>2. /\ Has(tty, d) <=> Has(tty', d) \/ d = Head(tty)
        /\ Once(tty, d) => Once(tty', d) /\ (d = Head(tty) => ~Has(tty', d))
    BY <1>1, TailHas DEF ShellInv, ShellTypes
  <2> QED
    BY <1>1, <2>1, <2>2 DEF PlaceOf
<1>5. TurnInv' /\ PrintInv' /\ OwnAnswer'
  BY <1>1 DEF ShellInv, TurnInv, Busy, PrintInv, OwnAnswer
<1> QED
  BY <1>3, <1>4, <1>5 DEF ShellInv

\* The foreground command prints.
LEMMA PrintsStep ==
    ASSUME ShellInv, NEW d \in Runs, Prints(d)
    PROVE  ShellInv'
<1>1. /\ UNCHANGED <<tty, front, exitPipe, exitBuf, outBuf, shellCall, result, abandoned>>
      /\ d \in front /\ d # SelfTest /\ outPipe' = outPipe \cup {d} /\ printed' = printed \cup {d}
  BY DEF Prints, Terminal, Buffers
<1>2. d \notin abandoned => shellCall[d] \in Waiting
  BY <1>1 DEF ShellInv, PlaceInv, PlaceOf
<1>3. ShellTypes' /\ TurnInv'
  BY <1>1 DEF ShellInv, ShellTypes, TurnInv, Busy
<1>4. PlaceInv'
  <2> SUFFICES ASSUME NEW e \in Runs \ abandoned' PROVE PlaceOf(e)'
    BY DEF PlaceInv
  <2>1. PlaceOf(e)
    BY <1>1 DEF ShellInv, PlaceInv
  <2> QED
    BY <1>1, <1>2, <2>1 DEF PlaceOf
<1>5. PrintInv'
  BY <1>1, <1>2 DEF ShellInv, PrintInv, Waiting
<1>6. OwnAnswer'
  <2>1. \A c \in Calls : c \in result[c].code => c # d
    BY <1>2 DEF ShellInv, PrintInv, Waiting
  <2> QED
    BY <1>1, <2>1 DEF ShellInv, OwnAnswer
<1> QED
  BY <1>3, <1>4, <1>5, <1>6 DEF ShellInv

\* It ends, and its exit line is on the pipe.
LEMMA EndsStep ==
    ASSUME ShellInv, NEW d \in Runs, Ends(d)
    PROVE  ShellInv'
<1>1. /\ UNCHANGED <<tty, outPipe, exitBuf, outBuf, shellCall, result, printed, abandoned>>
      /\ d \in front /\ front' = {} /\ exitPipe' = Append(exitPipe, d)
  BY DEF Ends, Buffers
<1>2. ShellTypes'
  BY <1>1, AppendHas DEF ShellInv, ShellTypes
<1>3. PlaceInv'
  <2> SUFFICES ASSUME NEW e \in Runs \ abandoned' PROVE PlaceOf(e)'
    BY DEF PlaceInv
  <2>1. PlaceOf(e)
    BY <1>1 DEF ShellInv, PlaceInv
  <2>2. /\ Has(exitPipe', e) <=> Has(exitPipe, e) \/ e = d
        /\ Once(exitPipe, e) /\ (e = d => ~Has(exitPipe, e)) => Once(exitPipe', e)
    BY <1>1, AppendHas DEF ShellInv, ShellTypes
  <2> QED
    BY <1>1, <2>1, <2>2 DEF PlaceOf
<1>4. TurnInv' /\ PrintInv' /\ OwnAnswer'
  BY <1>1 DEF ShellInv, TurnInv, Busy, PrintInv, OwnAnswer
<1> QED
  BY <1>2, <1>3, <1>4 DEF ShellInv

\* A ^C, a key, the end of bash: lines and commands are gone, none is added.
LEMMA LosesStep ==
    ASSUME ShellInv,
           \/ BashExits \/ \E c \in Runs : CallTimesOut(c)
           \/ \E keys \in {"C-c", "Enter", "word", "quote"} : SendsKeys(keys)
    PROVE  ShellInv'
<1>1. /\ tty' \in {tty, << >>} /\ front' \in {front, {}}
      /\ UNCHANGED <<exitPipe, outPipe, exitBuf, outBuf, result, printed, abandoned>>
  <2>1. CASE BashExits
    BY <2>1 DEF BashExits, Pipes, Buffers
  <2>2. CASE \E c \in Runs : CallTimesOut(c)
    BY <2>2 DEF CallTimesOut, Interrupt, Terminal, Pipes, Buffers
  <2>3. CASE \E keys \in {"C-c", "Enter", "word", "quote"} : SendsKeys(keys)
    BY <2>3 DEF SendsKeys, Interrupt, Pipes, Buffers
  <2> QED
    BY <2>1, <2>2, <2>3
<1>2. /\ shellCall' \in [Runs -> {"idle", "test", "write", "wait", "grace", "done"}]
      /\ \A d \in Runs : \/ shellCall'[d] = shellCall[d]
                         \/ shellCall[d] \in Waiting /\ shellCall'[d] \in Waiting
  BY DEF BashExits, CallTimesOut, SendsKeys, Waiting, ShellInv, ShellTypes
<1>3. ShellTypes'
  <2>1. << >> \in Seq(Runs)
    OBVIOUS
  <2> QED
    BY <1>1, <1>2, <2>1 DEF ShellInv, ShellTypes
<1>4. TurnInv'
  BY <1>2, ShellAssumption DEF ShellInv, TurnInv, Busy, Waiting, Runs
<1>5. PlaceInv'
  BY <1>1, <1>2, PlaceKept
<1>6. PrintInv' /\ OwnAnswer'
  BY <1>1, <1>2, PrintKept DEF Runs, Waiting
<1> QED
  BY <1>3, <1>4, <1>5, <1>6 DEF ShellInv

\* The loop's reader takes one exit line.
LEMMA ReadExitStep == ShellInv /\ ReadExit => ShellInv'
<1> SUFFICES ASSUME ShellInv, ReadExit PROVE ShellInv'
  OBVIOUS
<1> DEFINE h == Head(exitPipe)
<1>1. /\ UNCHANGED <<tty, front, outPipe, outBuf, shellCall, result, printed, abandoned>>
      /\ exitPipe # << >> /\ exitPipe' = Tail(exitPipe) /\ exitBuf' = Append(exitBuf, h)
  BY DEF ReadExit, Terminal
<1>2. exitPipe' \in Seq(Runs) /\ h \in Runs
  BY <1>1, TailHas DEF ShellInv, ShellTypes
<1>3. exitBuf' \in Seq(Runs)
  BY <1>1, <1>2, AppendHas DEF ShellInv, ShellTypes
<1>4. ShellTypes'
  BY <1>1, <1>2, <1>3 DEF ShellInv, ShellTypes
<1>5. PlaceInv'
  <2> SUFFICES ASSUME NEW d \in Runs \ abandoned' PROVE PlaceOf(d)'
    BY DEF PlaceInv
  <2>1. PlaceOf(d)
    BY <1>1 DEF ShellInv, PlaceInv
  <2>2. /\ Has(exitPipe, d) <=> Has(exitPipe', d) \/ d = h
        /\ Once(exitPipe, d) => Once(exitPipe', d) /\ (d = h => ~Has(exitPipe', d))
    BY <1>1, TailHas DEF ShellInv, ShellTypes
  <2>3. Has(exitBuf', d) <=> Has(exitBuf, d) \/ d = h
    BY <1>1, <1>2, AppendHas DEF ShellInv, ShellTypes
  <2>4. d = h => \A c \in Runs : shellCall[c] \in Waiting => c = d
    BY <2>1, <2>2, TurnFacts DEF PlaceOf, Waiting
  <2> QED
    BY <1>1, <2>1, <2>2, <2>3, <2>4 DEF PlaceOf
<1>6. TurnInv' /\ PrintInv' /\ OwnAnswer'
  BY <1>1 DEF ShellInv, TurnInv, Busy, PrintInv, OwnAnswer
<1> QED
  BY <1>4, <1>5, <1>6 DEF ShellInv

\* The loop's reader takes what was printed.
LEMMA ReadOutStep == ShellInv /\ ReadOut => ShellInv'
<1> SUFFICES ASSUME ShellInv, ReadOut PROVE ShellInv'
  OBVIOUS
<1>1. /\ UNCHANGED <<tty, front, exitPipe, exitBuf, shellCall, result, printed, abandoned>>
      /\ outBuf' = outBuf \cup outPipe /\ outPipe' = {}
  BY DEF ReadOut, Terminal
<1>2. ShellTypes'
  BY <1>1 DEF ShellInv, ShellTypes
<1>3. PlaceInv'
  <2> SUFFICES ASSUME NEW d \in Runs \ abandoned' PROVE PlaceOf(d)'
    BY DEF PlaceInv
  <2>1. PlaceOf(d)
    BY <1>1 DEF ShellInv, PlaceInv
  <2>2. d \in outPipe => \A c \in Runs : shellCall[c] \in Waiting => c = d
    BY <2>1, TurnFacts DEF PlaceOf, Waiting
  <2> QED
    BY <1>1, <2>1, <2>2 DEF PlaceOf
<1>4. TurnInv' /\ PrintInv' /\ OwnAnswer'
  BY <1>1 DEF ShellInv, TurnInv, Busy, PrintInv, OwnAnswer
<1> QED
  BY <1>2, <1>3, <1>4 DEF ShellInv

\* A call takes the first exit line, and all the output there is.
LEMMA AnswersStep ==
    ASSUME ShellInv, NEW c \in Runs, Answers(c)
    PROVE  ShellInv'
<1> DEFINE h == Head(exitBuf)
           all == outBuf \cup outPipe
<1>1. /\ UNCHANGED <<tty, front, exitPipe, exitBuf, printed>>
      /\ shellCall[c] = "wait" /\ exitBuf # << >> /\ outBuf' = all /\ outPipe' = {}
      /\ abandoned' = (IF h = c THEN abandoned ELSE abandoned \cup {c})
      /\ shellCall' = [shellCall EXCEPT ![c] = "done"]
      /\ result' = [result EXCEPT ![c] = [code |-> {h}, out |-> all]]
  BY DEF Answers, Answer, Terminal
<1>2. h \in Runs /\ Has(exitBuf, h)
  BY <1>1, TailHas DEF ShellInv, ShellTypes
<1>3. all \subseteq Runs
  BY DEF ShellInv, ShellTypes
<1>4. ShellTypes'
  BY <1>1, <1>2, <1>3 DEF ShellInv, ShellTypes
<1>5. /\ shellCall'[c] = "done" /\ result'[c] = [code |-> {h}, out |-> all]
      /\ \A d \in Runs \ {c} : shellCall'[d] = shellCall[d] /\ result'[d] = result[d]
  BY <1>1 DEF ShellInv, ShellTypes
<1>6. \A d \in Runs : shellCall[d] \in Waiting => d = c
  BY <1>1, TurnFacts DEF Waiting
<1>7. \A d \in Runs : shellCall'[d] \notin Waiting
  BY <1>5, <1>6 DEF Waiting
<1>8. h \in {c} \cup abandoned /\ all \subseteq {c} \cup abandoned
  <2>1. shellCall[c] \in Waiting
    BY <1>1 DEF Waiting
  <2> QED
    BY <1>2, <1>3, <1>6, <2>1 DEF ShellInv, PlaceInv, PlaceOf
<1>9. TurnInv'
  BY <1>1, <1>5, ShellAssumption DEF ShellInv, TurnInv, Busy, Runs
<1>10. PlaceInv'
  <2> SUFFICES ASSUME NEW d \in Runs \ abandoned' PROVE PlaceOf(d)'
    BY DEF PlaceInv
  <2>1. PlaceOf(d)
    BY <1>1 DEF ShellInv, PlaceInv
  <2>2. ~Has(tty, d) /\ d \notin front /\ ~Has(exitPipe, d)
    <3>1. CASE d = c
      BY <1>1, <1>2, <2>1, <3>1 DEF PlaceOf
    <3>2. CASE d # c
      BY <1>6, <2>1, <3>2 DEF PlaceOf
    <3> QED
      BY <3>1, <3>2
  <2> QED
    BY <1>1, <1>7, <2>1, <2>2 DEF PlaceOf
<1>11. PrintInv'
  <2> SUFFICES ASSUME NEW d \in Calls
               PROVE  /\ shellCall'[d] # "done" => d \notin abandoned'
                      /\ shellCall'[d] \in {"idle", "test", "write"} => d \notin printed'
                      /\ shellCall'[d] \notin Waiting
                      /\ d \in result'[d].code => shellCall'[d] = "done" /\ d \notin abandoned'
    BY DEF PrintInv
  <2>1. d \in Runs
    BY DEF Runs
  <2>2. CASE d = c
    BY <1>1, <1>5, <1>7, <2>1, <2>2 DEF ShellInv, PrintInv
  <2>3. CASE d # c
    BY <1>1, <1>5, <1>7, <2>1, <2>3 DEF ShellInv, PrintInv
  <2> QED
    BY <2>2, <2>3
<1>12. OwnAnswer'
  <2> SUFFICES ASSUME NEW d \in Calls, result'[d].code # {}
               PROVE  /\ result'[d].code \subseteq {d} \cup abandoned'
                      /\ result'[d].out \subseteq {d} \cup abandoned'
                      /\ d \in result'[d].code /\ d \in printed' => d \in result'[d].out
    BY DEF OwnAnswer
  <2>1. d \in Runs
    BY DEF Runs
  <2>2. CASE d = c
    <3>1. d \in printed => d \in all
      BY <1>1, <2>2 DEF ShellInv, PrintInv, Waiting
    <3> QED
      BY <1>1, <1>5, <1>8, <2>2, <3>1
  <2>3. CASE d # c
    BY <1>1, <1>5, <2>1, <2>3 DEF ShellInv, OwnAnswer
  <2> QED
    BY <2>2, <2>3
<1> QED
  BY <1>4, <1>9, <1>10, <1>11, <1>12 DEF ShellInv

LEMMA ShellInvNext == ShellInv /\ [ShellNext]_shellVars => ShellInv'
<1>1. ASSUME ShellInv, UNCHANGED shellVars PROVE ShellInv'
  BY <1>1 DEF shellVars, ShellInv, ShellTypes, TurnInv, Busy, PlaceInv, PlaceOf, PrintInv, OwnAnswer
<1>2. ASSUME ShellInv, ShellNext PROVE ShellInv'
  <2>1. CASE \E c \in Calls : Asks(c) \/ Refuses(c) \/ Cancelled(c)
    BY <1>2, <2>1, CallStep DEF Runs
  <2>2. CASE \E c \in Calls : SpawnsBash(c) \/ SpawnRaises(c) \/ SelfTested(c)
    BY <1>2, <2>2, SessionStep
  <2>3. CASE \E c \in Runs : WriteFails(c) \/ GivesUp(c)
    BY <1>2, <2>3, CallStep
  <2>4. CASE \E c \in Runs : WritesLine(c) \/ Answers(c)
    BY <1>2, <2>4, WriteStep, AnswersStep
  <2>5. CASE \E d \in Runs : Prints(d) \/ Ends(d)
    BY <1>2, <2>5, PrintsStep, EndsStep
  <2>6. CASE \/ BashExits \/ \E c \in Runs : CallTimesOut(c)
             \/ \E keys \in {"C-c", "Enter", "word", "quote"} : SendsKeys(keys)
    BY <1>2, <2>6, LosesStep
  <2>7. CASE BashReads \/ ReadExit \/ ReadOut \/ ShutsDown
    BY <1>2, <2>7, BashReadsStep, ReadExitStep, ReadOutStep, SessionStep
  <2> QED
    BY <1>2, <2>1, <2>2, <2>3, <2>4, <2>5, <2>6, <2>7 DEF ShellNext
<1> QED
  BY <1>1, <1>2

\* The invariant of the shell: of its calls, and of the way of each command
\* from the terminal to the buffers that its call reads.
THEOREM ShellInvCorrect == ShellSpec => []ShellInv
  BY ShellInvInit, ShellInvNext, PTL DEF ShellSpec

\* What the invariant leaves out of the types.
ShellRest ==
    /\ bash \in {"none", "up", "dead"} /\ prompt \in {"", "word", "quote"}
    /\ keysUsed \in 0..ShellKeys

LEMMA ShellRestInit == ShellInit => ShellRest
<1>1. 0 \in 0..ShellKeys
  BY ShellAssumption
<1> QED
  BY <1>1 DEF ShellInit, ShellRest

LEMMA ShellRestNext ==
    ASSUME ShellRest, [ShellNext]_shellVars
    PROVE  ShellRest'
<1>1. CASE UNCHANGED shellVars
  BY <1>1 DEF ShellRest, shellVars
<1>2. ASSUME NEW c \in Calls,
             Asks(c) \/ SpawnsBash(c) \/ SpawnRaises(c) \/ SelfTested(c) \/ Refuses(c) \/ Cancelled(c)
      PROVE  ShellRest'
  BY <1>2 DEF ShellRest, Asks, SpawnsBash, SpawnRaises, SelfTested, Refuses, Cancelled, NewSession, Terminal
<1>3. ASSUME NEW c \in Runs,
             WritesLine(c) \/ WriteFails(c) \/ Answers(c) \/ CallTimesOut(c) \/ GivesUp(c)
      PROVE  ShellRest'
  BY <1>3 DEF ShellRest, WritesLine, WriteFails, Answers, CallTimesOut, GivesUp, Interrupt, Terminal
<1>4. ASSUME NEW d \in Runs, Prints(d) \/ Ends(d) PROVE ShellRest'
  BY <1>4 DEF ShellRest, Prints, Ends, Terminal
<1>5. CASE BashReads \/ BashExits \/ ReadExit \/ ReadOut \/ ShutsDown
  BY <1>5 DEF ShellRest, BashReads, BashExits, ReadExit, ReadOut, ShutsDown, NewSession, Terminal
<1>6. ASSUME NEW keys \in {"C-c", "Enter", "word", "quote"}, SendsKeys(keys) PROVE ShellRest'
  <2>1. bash' = bash /\ keysUsed < ShellKeys /\ keysUsed' = keysUsed + 1
    BY <1>6 DEF SendsKeys
  <2>2. keysUsed \in 0..ShellKeys
    BY DEF ShellRest
  <2>3. keysUsed' \in 0..ShellKeys
    BY <2>1, <2>2, ShellAssumption
  <2>4. prompt' \in {"", "word", "quote"}
    BY <1>6 DEF ShellRest, SendsKeys, Interrupt
  <2> QED
    BY <2>1, <2>3, <2>4 DEF ShellRest
<1> QED
  BY <1>1, <1>2, <1>3, <1>4, <1>5, <1>6 DEF ShellRest, ShellNext

LEMMA ShellTyped ==
    ASSUME ShellInv, ShellRest
    PROVE  ShellTypeOK
<1>1. Cardinality(front) <= 1
  <2>1. CASE front = {}
    BY <2>1, FS_EmptySet
  <2>2. CASE front # {}
    <3>1. PICK d \in front : TRUE
      BY <2>2
    <3>2. front = {d}
      BY <3>1 DEF ShellInv, ShellTypes
    <3>3. Cardinality({d}) = 1
      BY FS_Singleton
    <3> QED
      BY <3>2, <3>3
  <2> QED
    BY <2>1, <2>2
<1> QED
  BY <1>1 DEF ShellRest, ShellInv, ShellTypes, ShellTypeOK

\* Sessions, queues, calls and answers keep their types; one command at most is
\* in the foreground.
THEOREM ShellTypeCorrect == ShellSpec => []ShellTypeOK
  BY ShellRestInit, ShellRestNext, ShellTyped, ShellInvCorrect, PTL DEF ShellSpec

\* A call is answered with its own command's exit code and all that the command
\* printed, unless an earlier one was given up: shell_tool.py's buffers.
THEOREM OwnAnswerCorrect == ShellSpec => []OwnAnswer
<1>1. ShellInv => OwnAnswer
  BY DEF ShellInv
<1> QED
  BY <1>1, ShellInvCorrect, PTL

-----------------------------------------------------------------------------
(* All the parts. *)

ToolsInv ==
    /\ part \in Parts
    /\ GateInv /\ ShellInv /\ ShellRest /\ KidInv /\ PidTypes
    /\ FilesInv /\ ReadsInv /\ TailInv
    /\ HistoryInv /\ PlainTypes /\ FlagTypes

LEMMA ToolsInvInit == Init => ToolsInv
<1>1. FileToolsInit => TailInv
  BY DEF FileToolsInit, TailInv
<1> QED
  BY <1>1, ShellRestInit, HistoryTypesInit, GateInvInit, ShellInvInit, KidInit, PidTypesInit, FilesInvInit, ReadsInvInit,
     HistoryInvInit DEF Init, ToolsInv

\* A step of one part leaves the others' variables as they are.
LEMMA ToolsInvNext == ToolsInv /\ [Next]_toolsVars => ToolsInv'
<1> SUFFICES ASSUME ToolsInv, [Next]_toolsVars PROVE ToolsInv'
  OBVIOUS
<1>1. /\ [GateNext]_gateVars /\ [ShellNext]_shellVars /\ [FileToolsNext]_fileVars
      /\ [SubNext]_kidVars /\ [HistoryNext]_historyVars /\ part' = part
  BY DEF Next, toolsVars
<1>2. GateInv' /\ ShellInv' /\ ShellRest' /\ KidInv' /\ PidTypes'
  <2>1. KidTypes
    BY DEF ToolsInv, KidInv
  <2> QED
    BY <1>1, <2>1, GateInvNext, ShellInvNext, ShellRestNext, KidNext, PidTypesNext DEF ToolsInv
<1>3. FilesInv' /\ ReadsInv' /\ TailInv'
  BY <1>1, FilesInvNext, ReadsInvNext, TailInvNext DEF ToolsInv
<1>4. HistoryInv' /\ PlainTypes' /\ FlagTypes'
  BY <1>1, HistoryInvNext, PlainNext, FlagNext DEF ToolsInv
<1> QED
  BY <1>1, <1>2, <1>3, <1>4 DEF ToolsInv

\* The types of all parts, for any commands, calls, texts, children, thresholds
\* and bounds.
THEOREM ToolsTypeCorrect == Spec => []ToolsTypeOK
<1>1. ToolsInv => ToolsTypeOK
  <2> SUFFICES ASSUME ToolsInv PROVE ToolsTypeOK
    OBVIOUS
  <2>1. GateTypeOK /\ ShellTypeOK
    BY ShellTyped DEF ToolsInv, GateInv
  <2>2. SubTypeOK
    BY SubTyped DEF ToolsInv, KidInv
  <2>3. FileToolsTypeOK /\ HistoryTypeOK
    BY FileToolsTyped, HistoryTyped DEF ToolsInv
  <2> QED
    BY <2>1, <2>2, <2>3 DEF ToolsTypeOK, ToolsInv
<1> QED
  BY <1>1, ToolsInvInit, ToolsInvNext, PTL DEF Spec
=============================================================================
