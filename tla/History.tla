------------------------------- MODULE History -------------------------------
(***************************************************************************)
(* One PAI's conversation: messages.jsonl, the archives of what it held,   *)
(* the Claude session that stands for it under the claudecode backend, and *)
(* the window gauge that decides on compaction.  The kernel rewrites them  *)
(* between turns (a queued clear or compact, the thresholds, a provider's  *)
(* overflow, the end of onboarding); the web console rewrites them too,    *)
(* from another process, after a `!` command.  A reset is several writes,  *)
(* and the kernel may die between any two.                                 *)
(***************************************************************************)
EXTENDS Naturals, Sequences

CONSTANTS Soft,          \* compact_threshold
          Hard,          \* hard_compact_threshold
          HistoryTurns,  \* bound: turns of the PAI
          HistoryMishaps \* bound: crashes, and commands in the console

ASSUME HistoryAssumption ==
    /\ Soft \in Nat \ {0} /\ Hard \in Nat /\ Soft < Hard
    /\ HistoryTurns \in Nat /\ HistoryMishaps \in Nat

Turns == 1..HistoryTurns
Summary == 0
Writers == {"kernel", "console"}

VARIABLES
    claude,    \* the PAI's backend is claudecode
    live,      \* messages.jsonl: the turns it holds; a Summary may lead them
    archives,  \* turns in the history/ directory
    action,    \* .history-action: none, clear, compact
    session,   \* turns that the pinned Claude session knows
    gauge,     \* last_window_tokens
    cooled,    \* a compaction in the last thirty seconds
    turn,      \* the turn under way: phase, its kind, its number, what it loaded
    todo,      \* todo[w]: the writes of w's reset that are left
    lead,      \* lead[w]: whether that reset leaves a summary
    started,   \* turns begun, numbered
    mishaps,   \* of the bound
    saved,     \* history: turns that messages.jsonl has held
    forgot,    \* history: turns that a reset has taken out of it
    leaked,    \* history: forgotten turns that a later call was given
    torn,      \* history: a reset was cut, or skipped the session
    overlap    \* history: the console reset while a turn was under way

historyVars == <<claude, live, archives, action, session, gauge, cooled, turn, todo, lead,
                 started, mishaps, saved, forgot, leaked, torn, overlap>>

Rest == [phase |-> "idle", kind |-> "work", number |-> 0, base |-> {}, retried |-> FALSE]
Windows == {0, Soft, Hard}

\* Each way to reset has its own order of writes; what is left of one.
OfAction == <<"session", "archive", "replace", "gauge">>
OfKernel == <<"archive", "replace", "session", "gauge">>
OfOnboarding == <<"archive", "replace", "gauge">>
LeftOf(steps) == {SubSeq(steps, i, Len(steps)) : i \in 1..(Len(steps) + 1)}

HistoryTypeOK ==
    /\ claude \in BOOLEAN /\ live \subseteq Turns \cup {Summary} /\ archives \subseteq Turns
    /\ session \subseteq Turns /\ saved \subseteq Turns
    /\ forgot \subseteq Turns /\ leaked \subseteq Turns
    /\ action \in {"none", "clear", "compact"} /\ gauge \in Windows
    /\ cooled \in BOOLEAN /\ torn \in BOOLEAN /\ overlap \in BOOLEAN
    /\ turn.phase \in {"idle", "checked", "calling", "replied", "saved"}
    /\ turn.kind \in {"work", "compact"} /\ turn.base \subseteq Turns \cup {Summary}
    /\ turn.number \in 0..HistoryTurns /\ turn.retried \in BOOLEAN
    /\ todo["kernel"] \in LeftOf(OfAction) \cup LeftOf(OfKernel) \cup LeftOf(OfOnboarding)
    /\ todo["console"] \in LeftOf(OfAction)
    /\ lead \in [Writers -> BOOLEAN] /\ started \in 0..HistoryTurns /\ mishaps \in 0..HistoryMishaps

HistoryInit ==
    /\ claude \in BOOLEAN /\ live = {} /\ archives = {} /\ action = "none"
    /\ session = {} /\ gauge = 0 /\ cooled = FALSE /\ turn = Rest
    /\ todo = [w \in Writers |-> << >>] /\ lead = [w \in Writers |-> FALSE]
    /\ started = 0 /\ mishaps = 0 /\ saved = {} /\ forgot = {} /\ leaked = {}
    /\ torn = FALSE /\ overlap = FALSE

-----------------------------------------------------------------------------
(* Resets: archive, replace, forget the session, zero the gauge. *)

Files == <<claude, live, archives, action, session, gauge>>
History == <<saved, forgot, leaked, torn, overlap>>
Free(w) == todo[w] = << >>

Resets(w, steps, summary) ==
    todo' = [todo EXCEPT ![w] = steps] /\ lead' = [lead EXCEPT ![w] = summary]

Done(w) == todo' = [todo EXCEPT ![w] = Tail(@)] /\ UNCHANGED lead

\* Mutant of Archives: what is in the file is not copied.
ArchivesNothing(w) ==
    /\ ~Free(w) /\ Head(todo[w]) = "archive" /\ Done(w)
    /\ UNCHANGED <<claude, live, archives, action, session, gauge, cooled, turn, started, mishaps, History>>

Archives(w) ==
    /\ ~Free(w) /\ Head(todo[w]) = "archive" /\ Done(w)
    /\ archives' = archives \cup (live \cap Turns)
    /\ UNCHANGED <<claude, live, action, session, gauge, cooled, turn, started, mishaps, History>>

Replaces(w) ==
    /\ ~Free(w) /\ Head(todo[w]) = "replace" /\ Done(w)
    /\ live' = (IF lead[w] THEN {Summary} ELSE {}) /\ forgot' = forgot \cup (live \cap Turns)
    /\ UNCHANGED <<claude, archives, action, session, gauge, cooled, turn, started, mishaps,
                   saved, leaked, torn, overlap>>

\* Mutant of ClearsSession: the backend's transcript outlives the reset.
KeepsSession(w) ==
    /\ ~Free(w) /\ Head(todo[w]) = "session" /\ Done(w)
    /\ UNCHANGED <<Files, cooled, turn, started, mishaps, History>>

ClearsSession(w) ==
    /\ ~Free(w) /\ Head(todo[w]) = "session" /\ Done(w) /\ session' = {}
    /\ UNCHANGED <<claude, live, archives, action, gauge, cooled, turn, started, mishaps, History>>

ZeroesGauge(w) ==
    /\ ~Free(w) /\ Head(todo[w]) = "gauge" /\ Done(w) /\ gauge' = 0
    /\ UNCHANGED <<claude, live, archives, action, session, cooled, turn, started, mishaps, History>>

-----------------------------------------------------------------------------
(* A nudge: the thresholds, then the turn. *)

Phase(p) == turn.phase = p /\ Free("kernel")

\* _maybe_compact_locked.
StaysSmall ==
    /\ Phase("idle") /\ started < HistoryTurns /\ (gauge < Soft \/ (cooled /\ gauge < Hard))
    /\ started' = started + 1
    /\ turn' = [Rest EXCEPT !.phase = "checked", !.number = started + 1]
    /\ overlap' = (overlap \/ ~Free("console"))
    /\ UNCHANGED <<Files, cooled, todo, lead, mishaps, saved, forgot, leaked, torn>>

\* Beyond the hard threshold: at once, without a summary.
HardCompacts ==
    /\ Phase("idle") /\ started < HistoryTurns /\ gauge >= Hard /\ cooled' = TRUE
    /\ started' = started + 1
    /\ turn' = [Rest EXCEPT !.phase = "checked", !.number = started + 1]
    /\ Resets("kernel", OfKernel, FALSE) /\ overlap' = (overlap \/ ~Free("console"))
    /\ UNCHANGED <<Files, mishaps, saved, forgot, leaked, torn>>

\* Beyond the soft one: a turn that asks for the summary, then this nudge.
AsksForSummary ==
    /\ Phase("idle") /\ started + 1 < HistoryTurns /\ gauge \in Soft..(Hard - 1) /\ ~cooled
    /\ cooled' = TRUE /\ started' = started + 2
    /\ turn' = [Rest EXCEPT !.phase = "checked", !.kind = "compact", !.number = started + 1]
    /\ overlap' = (overlap \/ ~Free("console"))
    /\ UNCHANGED <<Files, todo, lead, mishaps, saved, forgot, leaked, torn>>

Cools == /\ cooled /\ cooled' = FALSE
         /\ UNCHANGED <<Files, turn, todo, lead, started, mishaps, History>>

\* _nudge_body loads the history once.
LoadsHistory ==
    /\ Phase("checked") /\ turn' = [turn EXCEPT !.phase = "calling", !.base = live]
    /\ UNCHANGED <<Files, cooled, todo, lead, started, mishaps, History>>

\* What a call's prompt holds: claudecode is handed the user turn only, and
\* resumes its session.
Context == (IF claude THEN session ELSE turn.base) \cup {turn.number}

\* One response; tokens.record keeps the prompt's size; a tool may have run
\* `clear` or `compact`.
CallsModel(grown, asked) ==
    /\ Phase("calling") /\ leaked' = leaked \cup (Context \cap forgot)
    /\ gauge' = grown /\ action' = IF asked = "none" THEN action ELSE asked
    /\ UNCHANGED <<claude, live, archives, session, cooled, turn, todo, lead, started, mishaps,
                   saved, forgot, torn, overlap>>

\* claudecode keeps the id of the session that it used.
Pins == session' = IF claude THEN session \cup {turn.number} ELSE session

\* run_turn returns.
Replies ==
    /\ Phase("calling") /\ turn' = [turn EXCEPT !.phase = "replied"]
    /\ Pins
    /\ leaked' = leaked \cup (Context \cap forgot)
    /\ UNCHANGED <<claude, live, archives, action, gauge, cooled, todo, lead, started, mishaps,
                   saved, forgot, torn, overlap>>

\* claudecode finds its session gone, and starts a new one.
SessionMissing ==
    /\ claude /\ Phase("calling") /\ session # {} /\ session' = {}
    /\ UNCHANGED <<claude, live, archives, action, gauge, cooled, turn, todo, lead, started, mishaps, History>>

Over == IF turn.kind = "compact" THEN [Rest EXCEPT !.phase = "checked", !.number = turn.number + 1]
                                 ELSE Rest

Writes(turns) == live' = turns /\ saved' = saved \cup (turns \cap Turns)

\* The provider refuses the prompt: the file is reset, the turn retried once.
Overflows ==
    /\ Phase("calling") /\ ~turn.retried
    /\ turn' = [turn EXCEPT !.retried = TRUE, !.base = {}]
    /\ Resets("kernel", OfKernel, FALSE)
    /\ UNCHANGED <<Files, cooled, started, mishaps, History>>

\* A transient error is retried on what was loaded.
Hiccups ==
    /\ Phase("calling") /\ ~turn.retried /\ turn' = [turn EXCEPT !.retried = TRUE]
    /\ UNCHANGED <<Files, cooled, todo, lead, started, mishaps, History>>

\* Any other error, or a second one, or a cancel in the review: nothing is saved.
TurnFails ==
    /\ turn.phase \in {"calling", "replied"} /\ Free("kernel") /\ turn' = Over
    /\ UNCHANGED <<Files, cooled, todo, lead, started, mishaps, History>>

\* TurnCancelled carries what there is; a queued action stays queued.
TurnIsCancelled ==
    /\ Phase("calling") /\ Writes(turn.base \cup {turn.number}) /\ turn' = Over
    /\ UNCHANGED <<claude, archives, action, session, gauge, cooled, todo, lead, started, mishaps,
                   forgot, leaked, torn, overlap>>

SavesHistory ==
    /\ Phase("replied") /\ Writes(turn.base \cup {turn.number})
    /\ turn' = [turn EXCEPT !.phase = "saved"]
    /\ UNCHANGED <<claude, archives, action, session, gauge, cooled, todo, lead, started, mishaps,
                   forgot, leaked, torn, overlap>>

\* The profile is there: the onboarding's exploration is archived.  The
\* Claude session is left.
Onboarded ==
    /\ Phase("saved") /\ turn.number = 1 /\ turn.kind = "work" /\ Resets("kernel", OfOnboarding, FALSE)
    /\ torn' = (torn \/ claude)
    /\ UNCHANGED <<Files, cooled, turn, started, mishaps, saved, forgot, leaked, overlap>>

\* _apply_history_action, by the kernel at the end of a turn or by the
\* console after its command: the file is read and unlinked, then the reset.
Applies(w) ==
    /\ action # "none" /\ action' = "none" /\ Resets(w, OfAction, action = "compact")
    /\ UNCHANGED <<claude, live, archives, session, gauge>>

KernelApplies ==
    /\ Phase("saved") /\ Applies("kernel") /\ turn' = Over
    /\ UNCHANGED <<cooled, started, mishaps, History>>

\* No action: the summary turn is the kernel's to apply.
KernelCompacts ==
    /\ Phase("saved") /\ action = "none" /\ turn' = Over
    /\ IF turn.kind = "compact" THEN Resets("kernel", OfKernel, TRUE) ELSE UNCHANGED <<todo, lead>>
    /\ UNCHANGED <<Files, cooled, started, mishaps, History>>

-----------------------------------------------------------------------------
(* From outside. *)

\* `!clear`, `clear all` or `!compact` writes the file ...
Queues(asked) ==
    /\ mishaps < HistoryMishaps /\ mishaps' = mishaps + 1 /\ action' = asked
    /\ UNCHANGED <<claude, live, archives, session, gauge, cooled, turn, todo, lead, started, History>>

\* ... and the console applies whatever is queued, without the kernel's lock.
ConsoleApplies ==
    /\ Free("console") /\ mishaps < HistoryMishaps /\ mishaps' = mishaps + 1 /\ Applies("console")
    /\ overlap' = (overlap \/ turn.phase # "idle" \/ ~Free("kernel"))
    /\ UNCHANGED <<cooled, turn, started, saved, forgot, leaked, torn>>

\* The kernel dies, and its successor starts from the files.
KernelDies ==
    /\ mishaps < HistoryMishaps /\ mishaps' = mishaps + 1 /\ turn' = Rest /\ cooled' = FALSE
    /\ todo' = [todo EXCEPT !["kernel"] = << >>] /\ torn' = (torn \/ ~Free("kernel"))
    /\ UNCHANGED <<Files, lead, started, saved, forgot, leaked, overlap>>

HistoryNext ==
    \/ \E w \in Writers : Archives(w) \/ Replaces(w) \/ ClearsSession(w) \/ ZeroesGauge(w)
    \/ StaysSmall \/ HardCompacts \/ AsksForSummary \/ Cools \/ LoadsHistory
    \/ \E grown \in Windows, asked \in {"none", "clear", "compact"} : CallsModel(grown, asked)
    \/ Replies \/ SessionMissing \/ Overflows \/ Hiccups \/ TurnFails \/ TurnIsCancelled
    \/ SavesHistory \/ Onboarded \/ KernelApplies \/ KernelCompacts
    \/ \E asked \in {"clear", "compact"} : Queues(asked)
    \/ ConsoleApplies \/ KernelDies

HistorySpec == HistoryInit /\ [][HistoryNext]_historyVars

-----------------------------------------------------------------------------
(* Correctness. *)

\* "archives the current messages.jsonl" (clear.py:4-6, nudge.py:388,504):
\* a turn that the transcript has held is in it or in an archive, whatever
\* resets it, and through a crash between any two of a reset's writes -
\* unless the console resets it while a turn is under way.
NothingLost == overlap \/ saved \subseteq live \cup archives

\* "so the two transcripts don't drift" (claude_backend.py:158): a turn that
\* a reset took out of the transcript is in no later prompt.  Three ways
\* remain: a crash between replacing the file and forgetting the session, the
\* end of onboarding under claudecode, and the console in the middle of a turn.
Forgotten == leaked # {} => torn \/ overlap

\* "so the next nudge starts with the distilled context" (compact.py:7-8;
\* nudge.py:544 "seeds the fresh history with the harvested `summary`"): a
\* summary that leads the transcript is in the prompts of the turns on it.
SummaryReaches ==
    Phase("calling") /\ Summary \in live /\ ~overlap => Summary \in Context
=============================================================================
