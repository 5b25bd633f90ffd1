----------------------------- MODULE NudgeTurns -----------------------------
(***************************************************************************)
(* Turns of the resident PAIs inside one life of the kernel: how a message *)
(* becomes a nudge, how nudges to one PAI are serialised, how a message    *)
(* that reaches a busy PAI is injected into the running turn, and how a    *)
(* turn ends by reply, provider failure, escalation to root or interrupt.  *)
(*                                                                         *)
(* The kernel is one asyncio loop: code between two awaits is one step.    *)
(* A nudge task is <<t, 0>>, the call of nudge() made by _dispatch_nudge;  *)
(* <<t, 1>> is the nested call nudge(to=1) that the same task makes when   *)
(* the turn of <<t, 0>> fails.  A frame that has just finished sits in     *)
(* "replied", "failed" or "unwind" until its callers have run; nothing     *)
(* else may step meanwhile (Quiet), for there is no await on the way out.  *)
(***************************************************************************)
EXTENDS Naturals, Sequences, FiniteSets

CONSTANTS PAIs,        \* resident PAIs (kind: pai procs that are running)
          Root,        \* pid 1, the one failures are escalated to
          Msgs,        \* message-shaped events, one per event file
          To,          \* To[m]: the PAI that m addresses (target_pid)
          Overclock,   \* messages whose context carries overclock: true
          Injectable,  \* PAIs whose turns run in llm.run_turn
          Beating,     \* PAIs with `heartbeat:` in their spec
          Reviewed,    \* PAIs with `debugger:` in their spec
          Reload,      \* the kernel itself, as a holder of per-PAI locks
          None

ASSUME NudgeAssumption ==
    /\ Root \in PAIs
    /\ To \in [Msgs -> PAIs]
    /\ Overclock \subseteq Msgs
    /\ Injectable \subseteq PAIs /\ Beating \subseteq PAIs /\ Reviewed \subseteq PAIs
    /\ Msgs \cap PAIs = {}
    /\ Reload \notin Msgs \cup PAIs
    /\ None \notin Msgs \cup PAIs \cup {Reload} \cup (Msgs \cup PAIs) \X {0, 1}

\* The heartbeat nudge of PAI p is the task named p.
Tasks == Msgs \cup Beating
Calls == Tasks \X {0, 1}

Home(t) == IF t \in Msgs THEN To[t] ELSE t
Target(c) == IF c[2] = 1 THEN Root ELSE Home(c[1])
Outer(c) == <<c[1], 0>>
Nested(c) == <<c[1], 1>>

\* What build_user_turn renders into the first user turn of the call.
Opening(c) == IF c[2] = 0 /\ c[1] \in Msgs THEN {c[1]} ELSE {}

VARIABLES
    sent,        \* messages whose sender has written them so far
    spool,       \* messages whose event file is in run/pai/events
    pc,          \* pc[c]: where call c is suspended
    kind,        \* kind[c]: "compact" or "main", the turn c is running
    attempt,     \* attempt[c]: loop variable of _nudge_body's retry loop
    conv,        \* conv[c]: messages in the conversation of c's attempt
    opener,      \* opener[p]: the call whose turn opened p's window, or None
    live,        \* live[p]: messages queued in inject._live[p]
    history,     \* history[p]: messages in p's messages.jsonl and archives
    holder,      \* holder[p]: task that holds main._pai_locks[p]
    waiting,     \* waiting[p]: FIFO of that lock's waiters
    slugHolder,  \* slugHolder[p]: call that holds nudge._pai_locks[p]
    slugWaiting, \* slugWaiting[p]: FIFO of that lock's waiters
    cancelled,   \* tasks with a cancel() not yet delivered
    interrupted, \* tasks that an interrupt has reached (Task.cancelling())
    beat,        \* beat[p]: p's heartbeat entry is in the timer heap
    kernel       \* "serving" events, or inside _handle_reload_config

calls == <<pc, kind, attempt, conv>>
window == <<opener, live>>
locks == <<holder, waiting, slugHolder, slugWaiting>>
vars == <<sent, spool, calls, window, history, locks, cancelled, interrupted, beat, kernel>>

\* Suspended inside run_turn, a retry delay, the failure handler or review:
\* the stretch of _nudge_locked during which the PAI's busy file exists.
Suspended == {"model", "backoff", "escalate", "review"}
Leaving == {"replied", "failed", "unwind"}
PCs == {"off", "kernel", "slug"} \cup Suspended \cup Leaving

TypeOK ==
    /\ sent \subseteq Msgs /\ spool \subseteq Msgs
    /\ pc \in [Calls -> PCs]
    /\ kind \in [Calls -> {"compact", "main"}]
    /\ attempt \in [Calls -> {0, 1}]
    /\ conv \in [Calls -> SUBSET Msgs]
    /\ opener \in [PAIs -> Calls \cup {None}]
    /\ live \in [PAIs -> SUBSET Msgs]
    /\ history \in [PAIs -> SUBSET Msgs]
    /\ holder \in [PAIs -> Tasks \cup {Reload, None}]
    /\ waiting \in [PAIs -> Seq(Tasks \cup {Reload})]
    /\ slugHolder \in [PAIs -> Calls \cup {None}]
    /\ slugWaiting \in [PAIs -> Seq(Calls)]
    /\ cancelled \subseteq Tasks /\ interrupted \subseteq Tasks
    /\ beat \in [PAIs -> BOOLEAN]
    /\ kernel \in {"serving", "draining", "reconciling"}

Init ==
    /\ sent = {} /\ spool = {}
    /\ pc = [c \in Calls |-> "off"]
    /\ kind = [c \in Calls |-> "main"]
    /\ attempt = [c \in Calls |-> 0]
    /\ conv = [c \in Calls |-> {}]
    /\ opener = [p \in PAIs |-> None]
    /\ live = [p \in PAIs |-> {}]
    /\ history = [p \in PAIs |-> {}]
    /\ holder = [p \in PAIs |-> None]
    /\ waiting = [p \in PAIs |-> <<>>]
    /\ slugHolder = [p \in PAIs |-> None]
    /\ slugWaiting = [p \in PAIs |-> <<>>]
    /\ cancelled = {} /\ interrupted = {}
    /\ beat = [p \in PAIs |-> p \in Beating]
    /\ kernel = "serving"

-----------------------------------------------------------------------------
(* The main loop's handlers. *)

\* No coroutine is on its way out of a frame: the loop is free to run another.
Quiet == \A c \in Calls : pc[c] \notin Leaving

\* The main loop awaits one event handler at a time.
Serving == Quiet /\ kernel = "serving"

\* _active_nudges[p]
Active(p) == {t \in Tasks : Home(t) = p /\ pc[<<t, 0>>] # "off"}

\* P.is_busy(p): a turn of p, compaction included, is in flight.
Busy(p) == \E c \in Calls : Target(c) = p /\ pc[c] \in Suspended

\* Anything that writes an event file: a peer's send-message, the console.
Send(m) ==
    /\ Quiet /\ m \notin sent
    /\ sent' = sent \cup {m}
    /\ spool' = spool \cup {m}
    /\ UNCHANGED <<calls, window, history, locks, cancelled, interrupted, beat, kernel>>

\* _dispatch_nudge: a new task that queues for its PAI's kernel lock.
Dispatch(t) ==
    /\ pc' = [pc EXCEPT ![<<t, 0>>] = "kernel"]
    /\ waiting' = [waiting EXCEPT ![Home(t)] = Append(@, t)]

CanInject(m) == opener[To[m]] # None /\ m \notin Overclock

\* Mutant of Deliver: the event file is not unlinked by read_event.
DeliverKeepsFile(m) ==
    /\ Serving /\ m \in spool
    /\ pc[<<m, 0>>] = "off" /\ ~CanInject(m)
    /\ Dispatch(m)
    /\ UNCHANGED <<sent, spool, kind, attempt, conv, window, history, holder, slugHolder,
                   slugWaiting, cancelled, interrupted, beat, kernel>>

\* _handle_event_file -> _deliver_message: consume the event file, then
\* inject into the live turn of the target or queue a nudge.
Deliver(m) ==
    /\ Serving /\ m \in spool
    /\ spool' = spool \ {m}
    /\ \/ /\ CanInject(m)
          /\ live' = [live EXCEPT ![To[m]] = @ \cup {m}]
          /\ UNCHANGED <<pc, waiting>>
       \/ /\ ~CanInject(m)
          /\ Dispatch(m)
          /\ UNCHANGED live
    /\ UNCHANGED <<sent, kind, attempt, conv, opener, history, holder, slugHolder,
                   slugWaiting, cancelled, interrupted, beat, kernel>>

\* _fire_heartbeat: the entry is popped; it nudges only an idle PAI.
FireHeartbeat(p) ==
    /\ Serving /\ beat[p]
    /\ beat' = [beat EXCEPT ![p] = FALSE]
    /\ IF Busy(p) \/ Active(p) # {} THEN UNCHANGED <<pc, waiting>> ELSE Dispatch(p)
    /\ UNCHANGED <<sent, spool, kind, attempt, conv, window, history, holder, slugHolder,
                   slugWaiting, cancelled, interrupted, kernel>>

\* The `interrupt` branch: cancel() every nudge task of p.
Interrupt(p) ==
    /\ Serving /\ Active(p) # {}
    /\ cancelled' = cancelled \cup Active(p)
    /\ interrupted' = interrupted \cup Active(p)
    /\ UNCHANGED <<sent, spool, calls, window, history, locks, beat, kernel>>

-----------------------------------------------------------------------------
(* _handle_reload_config: take every PAI's kernel lock within a timeout,   *)
(* reconcile with whatever subset was acquired, release.                   *)

KernelVars == <<sent, spool, calls, window, history, slugHolder, slugWaiting, cancelled,
                interrupted, beat>>

StartReload ==
    /\ Serving
    /\ kernel' = "draining"
    /\ UNCHANGED <<KernelVars, holder, waiting>>

\* Acquires are sequential: at most one lock is being waited for.
DrainNext(p) ==
    /\ Quiet /\ kernel = "draining"
    /\ \A q \in PAIs : \A i \in DOMAIN waiting[q] : waiting[q][i] # Reload
    /\ holder[p] # Reload
    /\ waiting' = [waiting EXCEPT ![p] = Append(@, Reload)]
    /\ UNCHANGED <<KernelVars, holder, kernel>>

DrainAcquire(p) ==
    /\ Quiet /\ kernel = "draining"
    /\ holder[p] = None /\ waiting[p] # <<>> /\ Head(waiting[p]) = Reload
    /\ holder' = [holder EXCEPT ![p] = Reload]
    /\ waiting' = [waiting EXCEPT ![p] = Tail(@)]
    /\ UNCHANGED <<KernelVars, kernel>>

Drained ==
    /\ Quiet /\ kernel = "draining"
    /\ \A p \in PAIs : holder[p] = Reload
    /\ kernel' = "reconciling"
    /\ UNCHANGED <<KernelVars, holder, waiting>>

Leave(q, i) == SubSeq(q, 1, i - 1) \o SubSeq(q, i + 1, Len(q))

\* Mutant of DrainTimeout: the drain is not bounded.
DrainForever == FALSE /\ UNCHANGED vars

\* _RELOAD_DRAIN_TIMEOUT: the acquire in progress is cancelled.
DrainTimeout ==
    /\ Quiet /\ kernel = "draining"
    /\ \E p \in PAIs : \E i \in DOMAIN waiting[p] :
          /\ waiting[p][i] = Reload
          /\ waiting' = [waiting EXCEPT ![p] = Leave(@, i)]
    /\ kernel' = "reconciling"
    /\ UNCHANGED <<KernelVars, holder>>

ReloadDone ==
    /\ Quiet /\ kernel = "reconciling"
    /\ holder' = [p \in PAIs |-> IF holder[p] = Reload THEN None ELSE holder[p]]
    /\ kernel' = "serving"
    /\ UNCHANGED <<KernelVars, waiting>>

-----------------------------------------------------------------------------
(* A nudge task. *)

\* The task may run: no other coroutine has control, no cancel() is pending.
Runs(c) == Quiet /\ c[1] \notin cancelled

AcquireKernel(t) ==
    LET p == Home(t) IN
    /\ Runs(<<t, 0>>) /\ pc[<<t, 0>>] = "kernel"
    /\ holder[p] = None /\ waiting[p] # <<>> /\ Head(waiting[p]) = t
    /\ holder' = [holder EXCEPT ![p] = t]
    /\ waiting' = [waiting EXCEPT ![p] = Tail(@)]
    /\ pc' = [pc EXCEPT ![<<t, 0>>] = "slug"]
    /\ slugWaiting' = [slugWaiting EXCEPT ![p] = Append(@, <<t, 0>>)]
    /\ UNCHANGED <<sent, spool, kind, attempt, conv, window, history, slugHolder, cancelled,
                   interrupted, beat, kernel>>

\* Entry of _nudge_body.  A compact turn opens no injection window.
Begin(c, k) ==
    /\ pc' = [pc EXCEPT ![c] = "model"]
    /\ kind' = [kind EXCEPT ![c] = k]
    /\ attempt' = [attempt EXCEPT ![c] = 0]
    /\ conv' = [conv EXCEPT ![c] = IF k = "main" THEN Opening(c) ELSE {}]
    /\ opener' = [opener EXCEPT ![Target(c)] =
                    IF k = "main" /\ Target(c) \in Injectable /\ @ = None THEN c ELSE @]

\* Mutant of AcquireSlug: the turn does not wait for the lock (_exempt).
AcquireNothing(c) ==
    LET p == Target(c) IN
    /\ Runs(c) /\ pc[c] = "slug" /\ slugWaiting[p] # <<>> /\ Head(slugWaiting[p]) = c
    /\ slugHolder' = [slugHolder EXCEPT ![p] = c]
    /\ slugWaiting' = [slugWaiting EXCEPT ![p] = Tail(@)]
    /\ \E k \in {"compact", "main"} : Begin(c, k)
    /\ UNCHANGED <<sent, spool, live, history, holder, waiting, cancelled, interrupted, beat,
                   kernel>>

\* _slug_lock, then _maybe_compact_locked: the window's size decides whether
\* a compaction turn comes first.
AcquireSlug(c) ==
    LET p == Target(c) IN
    /\ Runs(c) /\ pc[c] = "slug"
    /\ slugHolder[p] = None /\ slugWaiting[p] # <<>> /\ Head(slugWaiting[p]) = c
    /\ slugHolder' = [slugHolder EXCEPT ![p] = c]
    /\ slugWaiting' = [slugWaiting EXCEPT ![p] = Tail(@)]
    /\ \E k \in {"compact", "main"} : Begin(c, k)
    /\ UNCHANGED <<sent, spool, live, history, holder, waiting, cancelled, interrupted, beat,
                   kernel>>

\* Mutant of DrainInjected: the queue is read but not cleared.
DrainKeepsQueue(c) ==
    LET p == Target(c) IN
    /\ Runs(c) /\ pc[c] = "model" /\ live[p] # {}
    /\ conv' = [conv EXCEPT ![c] = @ \cup live[p]]
    /\ UNCHANGED <<sent, spool, pc, kind, attempt, window, history, locks, cancelled,
                   interrupted, beat, kernel>>

\* llm._loop at a tool boundary or a would-be final reply: drain the queue
\* into the conversation and go on.
DrainInjected(c) ==
    LET p == Target(c) IN
    /\ Runs(c) /\ pc[c] = "model" /\ live[p] # {}
    /\ conv' = [conv EXCEPT ![c] = @ \cup live[p]]
    /\ live' = [live EXCEPT ![p] = {}]
    /\ UNCHANGED <<sent, spool, pc, kind, attempt, opener, history, locks, cancelled,
                   interrupted, beat, kernel>>

\* Mutant of CloseWindow: what was never drained is not re-emitted.
CloseDropsQueue(c) ==
    LET p == Target(c) IN
    IF opener[p] = c
    THEN /\ opener' = [opener EXCEPT ![p] = None]
         /\ live' = [live EXCEPT ![p] = {}]
         /\ UNCHANGED spool
    ELSE UNCHANGED <<opener, spool, live>>

\* inject.end_turn and the re-emission of what was never drained.
CloseWindow(c) ==
    LET p == Target(c) IN
    IF opener[p] = c
    THEN /\ opener' = [opener EXCEPT ![p] = None]
         /\ spool' = spool \cup live[p]
         /\ live' = [live EXCEPT ![p] = {}]
    ELSE UNCHANGED <<opener, spool, live>>

\* _save_history: what the conversation holds is on disk from now on.
Save(c) ==
    /\ history' = [history EXCEPT ![Target(c)] = @ \cup conv[c]]
    /\ conv' = [conv EXCEPT ![c] = {}]

\* run_turn returns: the final drain found nothing.  An overclock call goes
\* round again unless the reply carries the sentinel.
Reply(c) ==
    /\ Runs(c) /\ pc[c] = "model" /\ live[Target(c)] = {}
    /\ CloseWindow(c)
    /\ \/ /\ Target(c) \in Reviewed
          /\ pc' = [pc EXCEPT ![c] = "review"]
          /\ UNCHANGED <<kind, attempt, conv, history>>
       \/ /\ Target(c) \notin Reviewed
          /\ pc' = [pc EXCEPT ![c] = "replied"]
          /\ Save(c)
          /\ UNCHANGED <<kind, attempt>>
    /\ UNCHANGED <<sent, locks, cancelled, interrupted, beat, kernel>>

\* debugger.review has returned; the history is saved only now.
ReviewDone(c) ==
    /\ Runs(c) /\ pc[c] = "review"
    /\ pc' = [pc EXCEPT ![c] = "replied"]
    /\ Save(c)
    /\ UNCHANGED <<sent, spool, kind, attempt, window, locks, cancelled, interrupted, beat,
                   kernel>>

\* Mutant of RetryableError: no bound on the attempts.
RetryUnbounded(c) ==
    /\ Runs(c) /\ pc[c] = "model"
    /\ attempt' = [attempt EXCEPT ![c] = @ + 1]
    /\ UNCHANGED <<sent, spool, pc, kind, conv, window, history, locks, cancelled, interrupted,
                   beat, kernel>>

\* The provider fails the first attempt with a context overflow (history is
\* archived, retry at once) or a transient error (retry after a delay).  The
\* message list of the attempt dies with run_turn.
RetryableError(c) ==
    /\ Runs(c) /\ pc[c] = "model" /\ attempt[c] = 0
    /\ \/ /\ attempt' = [attempt EXCEPT ![c] = 1]
          /\ UNCHANGED pc
       \/ /\ pc' = [pc EXCEPT ![c] = "backoff"]
          /\ UNCHANGED attempt
    /\ conv' = [conv EXCEPT ![c] = IF kind[c] = "main" THEN Opening(c) ELSE {}]
    /\ UNCHANGED <<sent, spool, kind, window, history, locks, cancelled, interrupted, beat,
                   kernel>>

BackoffDone(c) ==
    /\ Runs(c) /\ pc[c] = "backoff"
    /\ pc' = [pc EXCEPT ![c] = "model"]
    /\ attempt' = [attempt EXCEPT ![c] = 1]
    /\ UNCHANGED <<sent, spool, kind, conv, window, history, locks, cancelled, interrupted,
                   beat, kernel>>

\* Mutant of FailQuietly: root's own failures are escalated too.
FailQuietlyUnlessRoot(c) ==
    /\ Runs(c) /\ pc[c] = "model"
    /\ IF Target(c) = Root /\ c[2] = 0
       THEN /\ pc' = [pc EXCEPT ![c] = "escalate", ![Nested(c)] = "slug"]
            /\ slugWaiting' = [slugWaiting EXCEPT ![Root] = Append(@, Nested(c))]
            /\ UNCHANGED <<spool, window>>
       ELSE /\ attempt[c] = 1 /\ CloseWindow(c)
            /\ pc' = [pc EXCEPT ![c] = "failed"]
            /\ UNCHANGED slugWaiting
    /\ conv' = [conv EXCEPT ![c] = {}]
    /\ UNCHANGED <<sent, kind, attempt, history, holder, waiting, slugHolder, cancelled,
                   interrupted, beat, kernel>>

\* _handle_turn_failure for an error that is logged and dropped: transient
\* on the second attempt, or any error of root's own turn.
FailQuietly(c) ==
    /\ Runs(c) /\ pc[c] = "model"
    /\ attempt[c] = 1 \/ Target(c) = Root
    /\ CloseWindow(c)
    /\ pc' = [pc EXCEPT ![c] = "failed"]
    /\ conv' = [conv EXCEPT ![c] = {}]
    /\ UNCHANGED <<sent, kind, attempt, history, locks, cancelled, interrupted, beat, kernel>>

\* _handle_turn_failure for an actionable error: nudge(to=1) from inside the
\* failing task.  It takes root's slug lock but not root's kernel lock, and
\* the failing turn's window stays open until it is back.
Escalate(c) ==
    /\ Runs(c) /\ pc[c] = "model" /\ Target(c) # Root
    /\ pc' = [pc EXCEPT ![c] = "escalate", ![Nested(c)] = "slug"]
    /\ conv' = [conv EXCEPT ![c] = {}]
    /\ slugWaiting' = [slugWaiting EXCEPT ![Root] = Append(@, Nested(c))]
    /\ UNCHANGED <<sent, spool, kind, attempt, window, history, holder, waiting, slugHolder,
                   cancelled, interrupted, beat, kernel>>

-----------------------------------------------------------------------------
(* Delivery of cancel(): CancelledError is raised at the innermost await.  *)

Innermost(t) == IF pc[Nested(<<t, 0>>)] # "off" THEN <<t, 1>> ELSE <<t, 0>>

CancelReaches(t, where) == Quiet /\ t \in cancelled /\ pc[Innermost(t)] \in where

\* Waiting for a lock: leave its queue and unwind.
CancelWaiting(t) ==
    LET c == Innermost(t)
        p == Target(c)
    IN
    /\ CancelReaches(t, {"kernel", "slug"})
    /\ \/ /\ pc[c] = "kernel"
          /\ \E i \in DOMAIN waiting[p] :
                waiting[p][i] = t /\ waiting' = [waiting EXCEPT ![p] = Leave(@, i)]
          /\ UNCHANGED slugWaiting
       \/ /\ pc[c] = "slug"
          /\ \E i \in DOMAIN slugWaiting[p] :
                slugWaiting[p][i] = c /\ slugWaiting' = [slugWaiting EXCEPT ![p] = Leave(@, i)]
          /\ UNCHANGED waiting
    /\ pc' = [pc EXCEPT ![c] = "unwind"]
    /\ cancelled' = cancelled \ {t}
    /\ UNCHANGED <<sent, spool, kind, attempt, conv, window, history, holder, slugHolder,
                   interrupted, beat, kernel>>

\* Inside run_turn: CancelledError becomes TurnCancelled, an ordinary
\* exception; _nudge_body saves the partial history and returns None.
CancelTurn(t) ==
    LET c == Innermost(t) IN
    /\ CancelReaches(t, {"model"})
    /\ Save(c)
    /\ CloseWindow(c)
    /\ pc' = [pc EXCEPT ![c] = "failed"]
    /\ cancelled' = cancelled \ {t}
    /\ UNCHANGED <<sent, kind, attempt, locks, interrupted, beat, kernel>>

\* Mutant of CancelDelay: end_turn is not in a finally.
CancelLeavesWindow(t) ==
    LET c == Innermost(t) IN
    /\ CancelReaches(t, {"backoff", "review"})
    /\ conv' = [conv EXCEPT ![c] = {}]
    /\ pc' = [pc EXCEPT ![c] = "unwind"]
    /\ cancelled' = cancelled \ {t}
    /\ UNCHANGED <<sent, spool, kind, attempt, window, history, locks, interrupted, beat, kernel>>

\* In the retry delay or in debugger.review the CancelledError is raw: it
\* passes every handler, and the conversation is not saved.
CancelDelay(t) ==
    LET c == Innermost(t) IN
    /\ CancelReaches(t, {"backoff", "review"})
    /\ conv' = [conv EXCEPT ![c] = {}]
    /\ CloseWindow(c)
    /\ pc' = [pc EXCEPT ![c] = "unwind"]
    /\ cancelled' = cancelled \ {t}
    /\ UNCHANGED <<sent, kind, attempt, history, locks, interrupted, beat, kernel>>

-----------------------------------------------------------------------------
(* The way out of a turn. *)

\* A compact turn is over, however it ended: nudge() goes on to the turn
\* it was called for.
AfterCompact(c) ==
    /\ pc[c] \in {"replied", "failed"} /\ kind[c] = "compact"
    /\ Begin(c, "main")
    /\ UNCHANGED <<sent, spool, live, history, locks, cancelled, interrupted, beat, kernel>>

\* _overclock_locked: no sentinel in the reply, so another turn, again with
\* the compaction check before it.
OverclockRound(c) ==
    /\ pc[c] = "replied" /\ kind[c] = "main" /\ c[2] = 0 /\ c[1] \in Overclock
    /\ \E k \in {"compact", "main"} : Begin(c, k)
    /\ UNCHANGED <<sent, spool, live, history, locks, cancelled, interrupted, beat, kernel>>

Ends(c) == pc[c] = "unwind" \/ (pc[c] \in {"replied", "failed"} /\ kind[c] = "main")

\* The frame's locals are gone with the frame.
Forget(c) ==
    /\ kind' = [kind EXCEPT ![c] = "main"]
    /\ attempt' = [attempt EXCEPT ![c] = 0]

\* The end of _run in _dispatch_nudge: both locks are released and the idle
\* heartbeat is measured anew.
EndTask(c) ==
    LET p == Target(c) IN
    /\ Ends(c) /\ c[2] = 0
    /\ pc' = [pc EXCEPT ![c] = "off"]
    /\ Forget(c)
    /\ slugHolder' = [slugHolder EXCEPT ![p] = IF @ = c THEN None ELSE @]
    /\ holder' = [holder EXCEPT ![p] = IF @ = c[1] THEN None ELSE @]
    /\ beat' = [beat EXCEPT ![p] = p \in Beating]
    /\ interrupted' = interrupted \ {c[1]}
    /\ UNCHANGED <<sent, spool, conv, window, history, waiting, slugWaiting, cancelled, kernel>>

\* Mutant of EndNested: a cancelled nested nudge does not resume its caller.
EndNestedAlone(c) ==
    LET o == Outer(c) IN
    /\ Ends(c) /\ c[2] = 1
    /\ pc' = [pc EXCEPT ![c] = "off", ![o] = IF pc[c] = "unwind" THEN @ ELSE "failed"]
    /\ slugHolder' = [slugHolder EXCEPT ![Root] = IF @ = c THEN None ELSE @]
    /\ CloseWindow(o)
    /\ Forget(c)
    /\ UNCHANGED <<sent, conv, history, holder, waiting, slugWaiting, cancelled,
                   interrupted, beat, kernel>>

\* The escalated nudge is over: root's slug lock is released and the finally
\* of the failed turn closes its window.
EndNested(c) ==
    LET o == Outer(c) IN
    /\ Ends(c) /\ c[2] = 1
    /\ pc' = [pc EXCEPT ![c] = "off", ![o] = IF pc[c] = "unwind" THEN "unwind" ELSE "failed"]
    /\ slugHolder' = [slugHolder EXCEPT ![Root] = IF @ = c THEN None ELSE @]
    /\ CloseWindow(o)
    /\ Forget(c)
    /\ UNCHANGED <<sent, conv, history, holder, waiting, slugWaiting, cancelled,
                   interrupted, beat, kernel>>

-----------------------------------------------------------------------------
Turn(c) ==
    \/ AcquireSlug(c) \/ DrainInjected(c) \/ Reply(c) \/ ReviewDone(c)
    \/ RetryableError(c) \/ BackoffDone(c) \/ FailQuietly(c) \/ Escalate(c)

Return(c) == AfterCompact(c) \/ OverclockRound(c) \/ EndTask(c) \/ EndNested(c)

Cancel(t) == CancelWaiting(t) \/ CancelTurn(t) \/ CancelDelay(t)

ReloadStep ==
    \/ Drained \/ DrainTimeout \/ ReloadDone
    \/ \E p \in PAIs : DrainNext(p) \/ DrainAcquire(p)

Next ==
    \/ \E m \in Msgs : Send(m) \/ Deliver(m)
    \/ \E p \in Beating : FireHeartbeat(p)
    \/ \E p \in PAIs : Interrupt(p)
    \/ StartReload \/ ReloadStep
    \/ \E t \in Tasks : AcquireKernel(t) \/ Cancel(t)
    \/ \E c \in Calls : Turn(c) \/ Return(c)

Spec == Init /\ [][Next]_vars

-----------------------------------------------------------------------------
(* Fairness.  The loop resumes every coroutine whose await has completed;  *)
(* provider calls, tools and the retry delay have timeouts, and llm._loop  *)
(* has MAX_ITERATIONS.  asyncio.Queue hands events to the main loop in     *)
(* order, so one that stays in the spool is handled between reloads.       *)

TaskFairness ==
    /\ \A t \in Tasks : WF_vars(AcquireKernel(t)) /\ WF_vars(Cancel(t))
    /\ \A c \in Calls : WF_vars(Turn(c)) /\ WF_vars(Return(c))

\* wait_for bounds the drain and reconciliation does not block.
ReloadFairness == WF_vars(DrainTimeout \/ Drained) /\ WF_vars(ReloadDone)
                  /\ \A p \in PAIs : WF_vars(DrainNext(p))

FairSpec ==
    /\ Spec /\ TaskFairness /\ ReloadFairness
    /\ \A m \in Msgs : SF_vars(Deliver(m))

-----------------------------------------------------------------------------
(* Properties. *)

\* A message of m's sender that no turn has taken yet.
Pending(m) ==
    \/ m \in spool \/ m \in live[To[m]]
    \/ pc[<<m, 0>>] \in {"kernel", "slug"}
    \/ pc[<<m, 0>>] \notin {"off", "unwind"} /\ kind[<<m, 0>>] = "compact"

Reading(m) == \E c \in Calls : m \in conv[c]

Status(m) ==
    CASE m \in history[To[m]] -> "kept"
      [] m \notin history[To[m]] /\ Reading(m) -> "read"
      [] m \notin history[To[m]] /\ ~Reading(m) /\ Pending(m) -> "pending"
      [] OTHER -> IF m \in sent THEN "lost" ELSE "unsent"

\* nudge.py's per-slug lock: two nudges of one PAI are never inside
\* _nudge_locked at once, the escalated nudge that bypasses the kernel's
\* per-pid lock included.
OneTurnPerPAI ==
    \A c, d \in Calls :
        c # d /\ Target(c) = Target(d) /\ pc[c] \in Suspended => pc[d] \notin Suspended

\* inject._live has a key for a PAI only while the turn that registered it
\* holds the PAI's slug lock, and nothing is queued without a window: a
\* message accepted by try_inject always has somebody to drain or re-emit it.
WindowHasTurn ==
    \A p \in PAIs :
        /\ live[p] # {} => opener[p] # None
        /\ opener[p] # None =>
              /\ Target(opener[p]) = p
              /\ slugHolder[p] = opener[p]
              /\ kind[opener[p]] = "main"
              /\ pc[opener[p]] \in {"model", "backoff", "escalate"}

\* A message that a turn has read, or a history holds, is in no queue any
\* more: no path of the code (re-emission, retry, second nudge) hands it to
\* its PAI twice.  An overclock goal is repeated every round by design.
NoRedelivery ==
    \A m \in Msgs \ Overclock :
        (Reading(m) \/ m \in history[To[m]]) => ~Pending(m)

\* An undelivered message disappears only with its own nudge, and only when
\* an interrupt cancelled that nudge: messages injected into a turn that
\* fails, retries or is interrupted before draining them are re-emitted.
OnlyInterruptWithdraws ==
    [][\A m \in Msgs :
          Status(m) = "pending" /\ Status(m)' = "lost" => m \in interrupted]_vars

\* The kernel implements the mailbox.
MB == INSTANCE Mailbox WITH status <- [m \in Msgs |-> Status(m)]
MailboxSpec == MB!Spec

\* A cancelled nudge ends, whatever it was suspended in.
InterruptEnds == \A t \in Tasks : t \in interrupted ~> t \notin interrupted

\* Every message leaves the queues: it is read by a turn that ends, or is
\* withdrawn; no nudge waits forever for a lock.
Settles == \A m \in Msgs : m \in sent ~> Status(m) \in {"kept", "lost"}

\* The main loop gets back to serving events however long the turns hold
\* their locks (the bounded drain of _handle_reload_config): nothing here
\* makes the locks it waits for come free in time.
ReloadNeverWedges == kernel # "serving" ~> kernel = "serving"

-----------------------------------------------------------------------------
(* Statements of the code's comments that the code does not keep. *)

\* inject.py:12 "the running turn sees new input ... no lost work": what was
\* drained into a turn is still there, or saved, as long as the turn goes on.
InjectedStaysInTurn ==
    [][\A c \in Calls :
          pc[c] = "model" /\ pc'[c] \in {"model", "backoff"}
              => conv[c] \subseteq conv'[c]]_vars
=============================================================================
