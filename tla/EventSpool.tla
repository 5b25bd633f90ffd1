----------------------------- MODULE EventSpool -----------------------------
(***************************************************************************)
(* The event spool run/pai/events: how a file that some process drops      *)
(* there becomes one nudge, through the boots of the kernel.               *)
(*                                                                         *)
(* Emitters (drivers, CLI tools, the console, the kernel) write x.yaml.tmp *)
(* and rename it to x.yaml.  A boot empties the spool (phases/clean), runs *)
(* the bundles' hooks, collapses what a storm has left meanwhile           *)
(* (phases/backfill), lists the directory and then starts the observer.    *)
(* The observer's thread turns renames into paths on a queue; the main     *)
(* loop takes a path, reads and unlinks the file, and dispatches nudges.   *)
(* What becomes of a nudge is NudgeTurns.                                  *)
(***************************************************************************)
EXTENDS Naturals, Sequences, FiniteSets

CONSTANTS PAIs,       \* pids of running PAIs
          Events,     \* events that are emitted, each once
          Target,     \* Target[e]: {target_pid}, or {}
          Wakes,      \* Wakes[e]: PAIs whose wake_on matches e
          Fallback,   \* the PAI with `fallback: true`
          Contents,   \* Contents[e]: what the file of e may turn out to hold
          Failing,    \* events whose handler may raise
          Threshold,  \* backfill.THRESHOLD
          MaxBoots,   \* bound: boots
          MaxRepeats  \* bound: redeliveries by the file system's observer

\* The summary that the backfill of boot n emits for PAI p.
Summaries == PAIs \X (1..MaxBoots)
Items == Events \cup Summaries

\* A mapping, bytes that are no YAML, bytes that are no UTF-8.
Content == {"event", "malformed", "undecodable"}

ASSUME SpoolAssumption ==
    /\ PAIs \subseteq Nat /\ Fallback \in PAIs
    /\ IsFiniteSet(PAIs) /\ IsFiniteSet(Events)
    /\ Target \in [Events -> SUBSET PAIs] /\ Wakes \in [Events -> SUBSET PAIs]
    /\ Contents \in [Events -> SUBSET Content] /\ Failing \subseteq Events
    /\ Threshold \in Nat /\ MaxBoots \in Nat /\ MaxRepeats \in Nat
    /\ Events \cap Summaries = {}

VARIABLES
    place,     \* where the file of each item is, or how it ended
    content,   \* what it holds
    stamps,    \* the items in the order of their file names
    earlier,   \* earlier[i]: items that were in place when i got its name
    kernel,    \* phase of the present life of the kernel
    todo,      \* clean: names listed and not yet unlinked
    storms,    \* backfill: files still to be archived, by PAI
    counted,   \* counted[s]: the files that summary s counts
    archive,   \* archive[s]: the files in the directory that s names
    notices,   \* renames that the observer's thread has still to report
    queue,     \* paths that wait for the main loop
    gap,       \* events that came between the listing and the observer
    handled,   \* items in the order in which they were dispatched
    nudges,    \* nudges[i][p]: how often item i was dispatched to p
    boots, repeats

clean == todo
backfill == <<storms, counted, archive>>
watch == <<notices, queue, gap>>
done == <<handled, nudges>>
files == <<place, content, stamps, earlier>>
vars == <<files, kernel, clean, backfill, watch, done, boots, repeats>>

Phases == {"cleaning", "hooks", "backfill", "catchup", "up"}

TypeOK ==
    /\ place \in [Items -> {"unborn", "tmp", "spool", "wiped", "archived", "bad", "read"}]
    /\ content \in [Items -> Content]
    /\ stamps \in Seq(Items) /\ Len(stamps) <= Cardinality(Items)
    /\ earlier \in [Items -> SUBSET Items]
    /\ kernel \in Phases \cup {"down"}
    /\ todo \subseteq Items \X {"tmp", "spool"}
    /\ storms \in [PAIs -> SUBSET Events]
    /\ counted \in [Summaries -> SUBSET Events]
    /\ archive \in [Summaries -> SUBSET Events]
    /\ notices \in Seq(Items) /\ queue \in Seq(Items) /\ gap \subseteq Items
    /\ handled \in Seq(Items)
    /\ nudges \in [Items -> [PAIs -> Nat]]
    /\ boots \in 0..MaxBoots /\ repeats \in 0..MaxRepeats

Init ==
    /\ place = [i \in Items |-> "unborn"] /\ content = [i \in Items |-> "event"]
    /\ stamps = <<>> /\ earlier = [i \in Items |-> {}]
    /\ kernel = "down" /\ todo = {}
    /\ storms = [p \in PAIs |-> {}]
    /\ counted = [s \in Summaries |-> {}] /\ archive = [s \in Summaries |-> {}]
    /\ notices = <<>> /\ queue = <<>> /\ gap = {}
    /\ handled = <<>> /\ nudges = [i \in Items |-> [p \in PAIs |-> 0]]
    /\ boots = 0 /\ repeats = 0

Spool == {i \in Items : place[i] = "spool"}
Elements(q) == {q[k] : k \in DOMAIN q}

-----------------------------------------------------------------------------
(* emit_event: the name carries the time of the call, the rename shows the *)
(* file.                                                                   *)

Named(i) ==
    /\ stamps' = Append(stamps, i)
    /\ earlier' = [earlier EXCEPT ![i] = {j \in Items : place[j] \notin {"unborn", "tmp"}}]

EmitWrites(e) ==
    /\ place[e] = "unborn"
    /\ place' = [place EXCEPT ![e] = "tmp"]
    /\ \E c \in Contents[e] : content' = [content EXCEPT ![e] = c]
    /\ Named(e)
    /\ UNCHANGED <<kernel, clean, backfill, watch, done, boots, repeats>>

\* The replace fails, in the emitter, when clean has unlinked the tmp file.
EmitRenames(e) ==
    /\ place[e] = "tmp"
    /\ place' = [place EXCEPT ![e] = "spool"]
    /\ notices' = IF kernel = "up" THEN Append(notices, e) ELSE notices
    /\ gap' = IF kernel = "catchup" THEN gap \cup {e} ELSE gap
    /\ UNCHANGED <<content, stamps, earlier, kernel, clean, backfill, queue, done, boots, repeats>>

-----------------------------------------------------------------------------
(* Boot. *)

KernelRest == UNCHANGED <<done, repeats>>

\* Phase 2 lists the spool, tmp files included, and unlinks name by name.
CleanLists ==
    /\ kernel = "down" /\ boots < MaxBoots
    /\ kernel' = "cleaning" /\ boots' = boots + 1
    /\ todo' = {<<i, place[i]>> : i \in {j \in Items : place[j] \in {"tmp", "spool"}}}
    /\ gap' = {}
    /\ UNCHANGED <<files, backfill, notices, queue>> /\ KernelRest

\* Mutant of CleanUnlinks: summaries of an earlier boot are kept.
CleanKeepsSummaries(x) ==
    /\ kernel = "cleaning" /\ x \in todo /\ place[x[1]] = x[2]
    /\ todo' = todo \ {x}
    /\ place' = IF x[1] \in Summaries THEN place ELSE [place EXCEPT ![x[1]] = "wiped"]
    /\ UNCHANGED <<content, stamps, earlier, kernel, backfill, watch, boots>> /\ KernelRest

CleanUnlinks(x) ==
    /\ kernel = "cleaning" /\ x \in todo /\ place[x[1]] = x[2]
    /\ todo' = todo \ {x}
    /\ place' = [place EXCEPT ![x[1]] = "wiped"]
    /\ UNCHANGED <<content, stamps, earlier, kernel, backfill, watch, boots>> /\ KernelRest

\* A tmp file was renamed after the listing: unlink raises, the boot fails.
CleanRaises(x) ==
    /\ kernel = "cleaning" /\ x \in todo /\ place[x[1]] # x[2]
    /\ todo' = {} /\ kernel' = "down"
    /\ UNCHANGED <<files, backfill, watch, boots>> /\ KernelRest

CleanDone ==
    /\ kernel = "cleaning" /\ todo = {} /\ kernel' = "hooks"
    /\ UNCHANGED <<files, clean, backfill, watch, boots>> /\ KernelRest

\* routing.route_to_pids for a kind, without target_pid.
RouteByKind(e) == IF Wakes[e] = {} THEN {Fallback} ELSE Wakes[e]

Primary(e) == CHOOSE p \in RouteByKind(e) : \A q \in RouteByKind(e) : p <= q

\* Mutant of Storm: the threshold is tested for the spool as a whole only.
StormOfAll(p) ==
    IF Cardinality(Spool) <= Threshold THEN {}
    ELSE {e \in Spool \cap Events : content[e] = "event" /\ Primary(e) = p}

\* What backfill collapses for p: the files it can parse and would route to
\* p by their kind, whatever PAI they are addressed to.
Storm(p) ==
    LET mine == {e \in Spool \cap Events : content[e] = "event" /\ Primary(e) = p}
    IN IF Cardinality(mine) > Threshold THEN mine ELSE {}

\* _load catches OSError and YAMLError, but no UnicodeDecodeError.
CannotScan == Cardinality(Spool) > Threshold /\ \E i \in Spool : content[i] = "undecodable"

BackfillRaises ==
    /\ kernel = "hooks" /\ CannotScan /\ kernel' = "down"
    /\ UNCHANGED <<files, clean, backfill, watch, boots>> /\ KernelRest

BackfillScans ==
    /\ kernel = "hooks" /\ ~CannotScan /\ kernel' = "backfill"
    /\ storms' = [p \in PAIs |-> Storm(p)]
    /\ UNCHANGED <<files, clean, counted, archive, watch, boots>> /\ KernelRest

Begun(p) == place[<<p, boots>>] # "unborn"

\* One PAI after the other: the summary first, then its files.
BackfillEmits(p) ==
    /\ kernel = "backfill" /\ storms[p] # {} /\ ~Begun(p)
    /\ \A q \in PAIs : Begun(q) => storms[q] = {}
    /\ place' = [place EXCEPT ![<<p, boots>>] = "spool"]
    /\ Named(<<p, boots>>)
    /\ counted' = [counted EXCEPT ![<<p, boots>>] = storms[p]]
    /\ UNCHANGED <<content, kernel, clean, storms, archive, watch, boots>> /\ KernelRest

\* Mutant of BackfillArchives: files are moved before their summary is there.
ArchivesFirst(p, e) ==
    /\ kernel = "backfill" /\ e \in storms[p]
    /\ storms' = [storms EXCEPT ![p] = @ \ {e}]
    /\ place' = [place EXCEPT ![e] = "archived"]
    /\ archive' = [archive EXCEPT ![<<p, boots>>] = @ \cup {e}]
    /\ UNCHANGED <<content, stamps, earlier, kernel, clean, counted, watch, boots>> /\ KernelRest

BackfillArchives(p, e) ==
    /\ kernel = "backfill" /\ Begun(p) /\ e \in storms[p]
    /\ storms' = [storms EXCEPT ![p] = @ \ {e}]
    /\ place' = [place EXCEPT ![e] = "archived"]
    /\ archive' = [archive EXCEPT ![<<p, boots>>] = @ \cup {e}]
    /\ UNCHANGED <<content, stamps, earlier, kernel, clean, counted, watch, boots>> /\ KernelRest

\* The files of the spool in some order, each once.
Listings == {q \in [1..Cardinality(Spool) -> Spool] : Elements(q) = Spool}

ByName(q) == \A k, l \in DOMAIN q : k < l =>
    \E m, n \in DOMAIN stamps : m < n /\ stamps[m] = q[k] /\ stamps[n] = q[l]

\* Mutant of CatchUp: the listing is in no order.
CatchUpUnsorted ==
    /\ kernel = "backfill" /\ \A p \in PAIs : storms[p] = {}
    /\ kernel' = "catchup" /\ queue' \in Listings
    /\ UNCHANGED <<files, clean, backfill, notices, gap, boots>> /\ KernelRest

\* EventWatcher.start lists the spool by name and only then observes it.
CatchUp ==
    /\ kernel = "backfill" /\ \A p \in PAIs : storms[p] = {}
    /\ kernel' = "catchup" /\ queue' \in {q \in Listings : ByName(q)}
    /\ UNCHANGED <<files, clean, backfill, notices, gap, boots>> /\ KernelRest

ObserverStarts ==
    /\ kernel = "catchup" /\ kernel' = "up"
    /\ UNCHANGED <<files, clean, backfill, watch, boots>> /\ KernelRest

\* SIGTERM, kernel:restart or a kill, at any time: queues are in memory.
Stop ==
    /\ kernel # "down" /\ kernel' = "down"
    /\ todo' = {} /\ storms' = [p \in PAIs |-> {}]
    /\ notices' = <<>> /\ queue' = <<>>
    /\ UNCHANGED <<files, counted, archive, gap, boots>> /\ KernelRest

-----------------------------------------------------------------------------
(* The observer's thread and the main loop. *)

\* _Handler._enqueue: a path whose file is gone is dropped.
Observe ==
    /\ kernel = "up" /\ notices # <<>>
    /\ notices' = Tail(notices)
    /\ queue' = IF Head(notices) \in Spool THEN Append(queue, Head(notices)) ELSE queue
    /\ UNCHANGED <<files, kernel, clean, backfill, gap, done, boots, repeats>>

\* FSEvents reports a file once more, when _seen has forgotten it.
Redeliver(i) ==
    /\ kernel = "up" /\ i \in Spool \ gap /\ repeats < MaxRepeats
    /\ repeats' = repeats + 1
    /\ notices' = Append(notices, i)
    /\ UNCHANGED <<files, kernel, clean, backfill, queue, gap, done, boots>>

\* Who is nudged for i: the PAI it is addressed to, or those its kind wakes.
Recipients(i) ==
    IF i \in Summaries THEN {i[1]}
    ELSE IF Target[i] # {} THEN Target[i] ELSE RouteByKind(i)

Taking(i) == kernel = "up" /\ queue # <<>> /\ i = Head(queue) /\ queue' = Tail(queue)

TakeRest == UNCHANGED <<content, stamps, earlier, kernel, clean, backfill, notices, gap, boots, repeats>>

\* read_event finds no file any more.
TakeGone(i) == Taking(i) /\ i \notin Spool /\ UNCHANGED <<place, done>> /\ TakeRest

TakeMalformed(i) ==
    /\ Taking(i) /\ i \in Spool /\ content[i] = "malformed"
    /\ place' = [place EXCEPT ![i] = "bad"]
    /\ UNCHANGED done /\ TakeRest

\* The decoding error leaves read_event before the unlink.
TakeUndecodable(i) ==
    /\ Taking(i) /\ i \in Spool /\ content[i] = "undecodable"
    /\ UNCHANGED <<place, done>> /\ TakeRest

\* Mutant of TakeRaises: the file would be unlinked after its handler.
RaisesKeepsFile(i) ==
    /\ Taking(i) /\ i \in Spool \cap Failing /\ content[i] = "event"
    /\ UNCHANGED <<place, done>> /\ TakeRest

\* The handler raises after the file is gone: logged by
\* _safe_handle_event_file, and the loop goes on.
TakeRaises(i) ==
    /\ Taking(i) /\ i \in Spool \cap Failing /\ content[i] = "event"
    /\ place' = [place EXCEPT ![i] = "read"]
    /\ UNCHANGED done /\ TakeRest

\* Mutant of TakeDispatches: the file is not unlinked.
DispatchesAndKeeps(i) ==
    /\ Taking(i) /\ i \in Spool /\ content[i] = "event"
    /\ handled' = Append(handled, i)
    /\ nudges' = [nudges EXCEPT ![i] = [p \in PAIs |-> @[p] + (IF p \in Recipients(i) THEN 1 ELSE 0)]]
    /\ UNCHANGED place /\ TakeRest

TakeDispatches(i) ==
    /\ Taking(i) /\ i \in Spool /\ content[i] = "event"
    /\ place' = [place EXCEPT ![i] = "read"]
    /\ handled' = Append(handled, i)
    /\ nudges' = [nudges EXCEPT ![i] = [p \in PAIs |-> @[p] + (IF p \in Recipients(i) THEN 1 ELSE 0)]]
    /\ TakeRest

-----------------------------------------------------------------------------
Emitters == \E e \in Events : EmitWrites(e) \/ EmitRenames(e)

Boot ==
    \/ CleanLists \/ CleanDone
    \/ \E x \in todo : CleanUnlinks(x) \/ CleanRaises(x)
    \/ BackfillRaises \/ BackfillScans \/ CatchUp \/ ObserverStarts
    \/ \E p \in PAIs : BackfillEmits(p) \/ \E e \in storms[p] : BackfillArchives(p, e)

Take == \E i \in Items : TakeGone(i) \/ TakeMalformed(i) \/ TakeUndecodable(i)
                       \/ TakeRaises(i) \/ TakeDispatches(i)

Next ==
    \/ Emitters \/ Boot \/ Stop \/ Observe \/ Take
    \/ \E i \in Items : Redeliver(i)

Spec == Init /\ [][Next]_vars

(* Fairness: a boot that began goes on, the observer's thread and the main *)
(* loop run.  Nothing makes an emitter finish, or the kernel start again.  *)
FairSpec == Spec /\ WF_vars(Boot /\ kernel # "down") /\ WF_vars(Observe) /\ WF_vars(Take)

-----------------------------------------------------------------------------
(* Properties. *)

\* KERNEL_EVENTS.md:89 "events are consumed exactly once": no redelivery,
\* catch-up after a restart, or backfill nudges a PAI twice for one event,
\* and what is in the archive was not dispatched.
ConsumedOnce ==
    \A i \in Items, p \in PAIs :
        nudges[i][p] <= (IF place[i] = "archived" THEN 0 ELSE 1)

\* KERNEL_EVENTS.md:5 "in arrival order": an event that was in the spool
\* before another got its name is dispatched before it, the catch-up at
\* boot and the hop through the observer's thread included.
InOrder ==
    \A k, l \in DOMAIN handled : k < l => handled[l] \notin earlier[handled[k]]

\* A PAI that is told of a storm finds in the archive exactly what the
\* summary counts, more than the threshold, although the boot may be
\* killed between the summary and any of the moves.
SummaryTrue ==
    \A s \in Summaries :
        s \in Elements(queue) \cup Elements(handled) =>
            archive[s] = counted[s] /\ Cardinality(counted[s]) > Threshold

\* Left in the spool while the kernel is up: what came between EventWatcher's
\* listing and the observer's start, and files that do not decode.
Stuck == gap \cup {i \in Items : content[i] = "undecodable"}

\* What the kernel knows of leaves the spool: neither a malformed file nor
\* a handler that raises stops the loop.
EventServed ==
    \A i \in Items :
        (kernel = "up" /\ i \in Spool \ Stuck) ~> (kernel = "down" \/ i \notin Spool)

\* In the spool, and the kernel will never take it: it ended, it was not
\* watching, it cannot read the file, or the clean phase has it on its list.
Doomed(i) ==
    \/ kernel = "down" \/ i \in gap \/ content[i] = "undecodable"
    \/ \E x \in todo : x[1] = i

DeliveryStatus(i) ==
    CASE place[i] = "unborn"   -> "unsent"
      [] place[i] = "tmp"      -> "named"
      [] place[i] = "spool"    -> IF Doomed(i) THEN "lost" ELSE "waiting"
      [] place[i] = "wiped"    -> "lost"
      [] place[i] = "archived" -> "archived"
      [] OTHER                 -> "taken"

\* The boots, the watcher and the main loop implement the delivery of files:
\* one is lost when it is shown, or with all that wait when the kernel ends,
\* and what is lost is never dispatched, however it meets the clean phase.
DL == INSTANCE Delivery WITH
    Readers <- [i \in Items |-> Recipients(i)],
    status <- [i \in Items |-> DeliveryStatus(i)], after <- earlier,
    told <- nudges, claims <- counted, archived <- archive
DeliverySpec == DL!Spec

(* A statement of the documentation that the code does not keep. *)

\* KERNEL_EVENTS.md:228, of what is in the spool at boot: it is collapsed,
\* or dispatched normally -- "nothing is silently dropped".
NothingDropped ==
    [][\A i \in Items : place[i] = "spool" => place'[i] # "wiped"]_vars
=============================================================================
