-------------------------------- MODULE Hub --------------------------------
(***************************************************************************)
(* The web backend's hub: a worker thread for each topic (processes,       *)
(* fleet, approvals, scheduled tasks, drivers, ...) that a file event or   *)
(* the half-second poll pokes, recomputes the topic from the disk, keeps   *)
(* it, and broadcasts it if it changed; and streams that begin with a      *)
(* snapshot of what the hub keeps.  The log, which only grows, is followed *)
(* by its offset, line by line.  A topic here is computed from files alone *)
(* and by one worker: plans and threads, which read what another worker    *)
(* keeps, are none.                                                        *)
(***************************************************************************)
EXTENDS Naturals, Sequences

CONSTANTS Topics,
          Gated,        \* topics sent only when their members change: the fleet
          Polled,       \* topics that _safety_tick pokes as well
          Clients,      \* streams of browsers
          HubChanges,   \* bound: changes of the disk, and connections
          HubQueue      \* Subscriber's maxsize

ASSUME HubAssumption ==
    Gated \subseteq Topics /\ Polled \subseteq Topics /\ HubChanges \in Nat /\ HubQueue \in Nat \ {0}

VARIABLES
    disk,      \* disk[t]: what the files say
    poked,     \* topics whose worker's event is set
    missed,    \* topics whose last file event was not delivered
    worker,    \* worker[t]: wait, read, kept
    got,       \* got[t]: what the worker has read
    kept,      \* kept[t]: the hub's copy
    client,    \* client[s]: off, added, live
    queue,     \* queue[s]: its Subscriber's queue
    view,      \* view[s][t]: what the browser shows
    lossy,     \* clients whose queue was full once
    lines,     \* lines in kernel.log
    offset,    \* how many the tail has read
    shown,     \* shown[s]: lines that the browser has
    hubUsed    \* of the bound

hubVars == <<disk, poked, missed, worker, got, kept, client, queue, view, lossy,
             lines, offset, shown, hubUsed>>

\* A topic's rows: which there are, and what they say.
Values == [members : BOOLEAN, detail : BOOLEAN]
First == [members |-> FALSE, detail |-> FALSE]
Messages == [topic : Topics, value : Values] \cup [line : 1..HubChanges]

HubTypeOK ==
    /\ disk \in [Topics -> Values] /\ got \in [Topics -> Values] /\ kept \in [Topics -> Values]
    /\ poked \subseteq Topics /\ missed \subseteq Topics
    /\ worker \in [Topics -> {"wait", "read", "kept"}]
    /\ client \in [Clients -> {"off", "added", "live"}]
    /\ \A s \in Clients : Len(queue[s]) <= HubQueue
    /\ view \in [Clients -> [Topics -> Values]] /\ lossy \subseteq Clients
    /\ lines \in 0..HubChanges /\ offset \in 0..HubChanges
    /\ shown \in [Clients -> SUBSET (1..HubChanges)] /\ hubUsed \in 0..HubChanges

HubInit ==
    /\ disk = [t \in Topics |-> First] /\ got = disk /\ kept = disk
    /\ poked = {} /\ missed = {} /\ worker = [t \in Topics |-> "wait"]
    /\ client = [s \in Clients |-> "off"] /\ queue = [s \in Clients |-> << >>]
    /\ view = [s \in Clients |-> disk] /\ lossy = {}
    /\ lines = 0 /\ offset = 0 /\ shown = [s \in Clients |-> {}] /\ hubUsed = 0

-----------------------------------------------------------------------------
Streams == <<client, queue, view, lossy, shown>>
Log == <<lines, offset>>
Spend == hubUsed < HubChanges /\ hubUsed' = hubUsed + 1

\* The kernel, an owner's command or a driver writes; watchdog pokes.
DiskChanges(t, value, delivered) ==
    /\ Spend /\ value # disk[t] /\ disk' = [disk EXCEPT ![t] = value]
    /\ IF delivered THEN poked' = poked \cup {t} /\ missed' = missed \ {t}
                    ELSE poked' = poked /\ missed' = missed \cup {t}
    /\ UNCHANGED <<worker, got, kept, Streams, Log>>

SafetyTick ==
    /\ Polled \cap missed # {} /\ poked' = poked \cup Polled /\ missed' = missed \ Polled
    /\ UNCHANGED <<disk, worker, got, kept, Streams, Log, hubUsed>>

\* _Debounced._loop clears the event, then reads the files.
Recomputes(t) ==
    /\ t \in poked /\ worker[t] = "wait" /\ worker' = [worker EXCEPT ![t] = "read"]
    /\ poked' = poked \ {t} /\ got' = [got EXCEPT ![t] = disk[t]]
    /\ UNCHANGED <<disk, missed, kept, Streams, Log, hubUsed>>

Differs(t, old, new) == IF t \in Gated THEN old.members # new.members ELSE old # new

\* Mutant of Keeps: the event is cleared when the work is done.
KeepsThenClears(t) ==
    /\ worker[t] = "read"
    /\ kept' = [kept EXCEPT ![t] = got[t]] /\ poked' = poked \ {t}
    /\ worker' = [worker EXCEPT ![t] = IF Differs(t, kept[t], got[t]) THEN "kept" ELSE "wait"]
    /\ UNCHANGED <<disk, missed, got, Streams, Log, hubUsed>>

\* The copy that snapshot() returns is replaced first ...
Keeps(t) ==
    /\ worker[t] = "read"
    /\ kept' = [kept EXCEPT ![t] = got[t]]
    /\ worker' = [worker EXCEPT ![t] = IF Differs(t, kept[t], got[t]) THEN "kept" ELSE "wait"]
    /\ UNCHANGED <<disk, poked, missed, got, Streams, Log, hubUsed>>

\* Mutant of Sent: the queue of a stream has no maxsize.
SentUnbounded(m) ==
    /\ queue' = [s \in Clients |-> IF client[s] # "off" THEN Append(queue[s], m) ELSE queue[s]]
    /\ UNCHANGED <<client, view, shown, lossy>>

\* send(): a full queue drops the message.
Sent(m) ==
    /\ queue' = [s \in Clients |-> IF client[s] # "off" /\ Len(queue[s]) < HubQueue
                                   THEN Append(queue[s], m) ELSE queue[s]]
    /\ lossy' = lossy \cup {s \in Clients : client[s] # "off" /\ Len(queue[s]) = HubQueue}
    /\ UNCHANGED <<client, view, shown>>

\* ... then it is broadcast.
Broadcasts(t) ==
    /\ worker[t] = "kept" /\ worker' = [worker EXCEPT ![t] = "wait"]
    /\ Sent([topic |-> t, value |-> got[t]])
    /\ UNCHANGED <<disk, poked, missed, got, kept, Log, hubUsed>>

\* kernel.log: the tail is poked and polled.
LogGrows ==
    /\ Spend /\ lines' = lines + 1
    /\ UNCHANGED <<disk, poked, missed, worker, got, kept, Streams, offset>>

LogRead ==
    /\ offset < lines /\ offset' = offset + 1 /\ Sent([line |-> offset + 1])
    /\ UNCHANGED <<disk, poked, missed, worker, got, kept, lines, hubUsed>>

-----------------------------------------------------------------------------
(* _stream: subscribe, then the snapshot, then the queue. *)

Others == <<disk, poked, missed, worker, got, kept, Log>>

Connects(s) ==
    /\ Spend /\ client[s] = "off" /\ client' = [client EXCEPT ![s] = "added"]
    /\ UNCHANGED <<queue, view, lossy, shown, Others>>

\* snapshot(): what the hub keeps, and the log as the file has it.
Hello(s) ==
    /\ client[s] = "added" /\ client' = [client EXCEPT ![s] = "live"]
    /\ view' = [view EXCEPT ![s] = kept] /\ shown' = [shown EXCEPT ![s] = 1..lines]
    /\ UNCHANGED <<queue, lossy, Others, hubUsed>>

Takes(s) ==
    /\ client[s] = "live" /\ queue[s] # << >>
    /\ LET m == Head(queue[s]) IN
       IF "topic" \in DOMAIN m
       THEN view' = [view EXCEPT ![s][m.topic] = m.value] /\ UNCHANGED shown
       ELSE shown' = [shown EXCEPT ![s] = @ \cup {m.line}] /\ UNCHANGED view
    /\ queue' = [queue EXCEPT ![s] = Tail(@)]
    /\ UNCHANGED <<client, lossy, Others, hubUsed>>

\* The browser goes; it shows what it shows until the next hello.
ClientLeaves(s) ==
    /\ client[s] # "off" /\ client' = [client EXCEPT ![s] = "off"]
    /\ queue' = [queue EXCEPT ![s] = << >>] /\ lossy' = lossy \ {s}
    /\ UNCHANGED <<view, shown, Others, hubUsed>>

-----------------------------------------------------------------------------
HubNext ==
    \/ \E t \in Topics :
          \/ \E value \in Values, delivered \in BOOLEAN : DiskChanges(t, value, delivered)
          \/ Recomputes(t) \/ Keeps(t) \/ Broadcasts(t)
    \/ SafetyTick \/ LogGrows \/ LogRead
    \/ \E s \in Clients : Connects(s) \/ Hello(s) \/ Takes(s) \/ ClientLeaves(s)

HubSpec == HubInit /\ [][HubNext]_hubVars

-----------------------------------------------------------------------------
(* Properties. *)

Settled(t, s) ==
    /\ t \notin poked \cup missed /\ worker[t] = "wait"
    /\ client[s] = "live" /\ queue[s] = << >> /\ s \notin lossy

\* hub.py:548: "a coalesced or dropped FSEvents notification still gets
\* reconciled": once a topic's worker and a client's queue are idle, the
\* client shows what the disk says, however its connection raced with
\* recomputations -- unless its queue overflowed; and backlog and tail leave
\* no hole in its log.
ShowsDisk ==
    /\ \A t \in Topics \ Gated, s \in Clients : Settled(t, s) => view[s][t] = disk[t]
    /\ \A s \in Clients :
          client[s] = "live" /\ queue[s] = << >> /\ s \notin lossy /\ offset = lines =>
              shown[s] = 1..lines

(* A statement of the source that the code does not keep. *)

\* App.tsx:1063: a rename is painted at once, and "the fleet SSE reconciles
\* once the renamed spec lands": the fleet that a client shows settles too.
RenameArrives ==
    \A t \in Gated, s \in Clients : Settled(t, s) => view[s][t] = disk[t]
=============================================================================
