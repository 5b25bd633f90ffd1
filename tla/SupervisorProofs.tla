-------------------------- MODULE SupervisorProofs --------------------------
(***************************************************************************)
(* Proofs about Supervisor, for any services, policies, crash budget and   *)
(* number of children: a service that only the watcher starts has one      *)
(* child, and when nothing is under way the files and the children agree.  *)
(***************************************************************************)
EXTENDS Supervisor, FiniteSetTheorems, TLAPS

\* A fork is somebody's, one at a time, and for a service of his own; only
\* the watcher forks for a plain service.
ForkInv ==
    /\ \A f, g \in forks : f.by = g.by => f = g
    /\ \A f \in forks :
          /\ f.by \in Kids => waiter[f.by] = "forking" /\ f.by[1] = f.slug
          /\ f.by = Task("watcher") => watcher.at = "forking"
          /\ f.slug \in Plain => f.by = Task("watcher")

\* A waiter awaits a child of its own service.
WaiterInv ==
    \A k \in Kids : waiter[k] \in {"waiting", "backoff"} => target[k] \in Kids /\ target[k][1] = k[1]

\* What is tracked has a waiter of its own.
HandleInv ==
    \A p \in Services : Tracked(p) =>
        handle[p][1] = p /\ waiter[handle[p]] \in {"new", "waiting"}

\* Nothing watches before the main loop runs.
PhaseInv ==
    /\ kernel \in {"down", "booting"} => watcher.at = "off"
    /\ lives = 0 => kernel = "up"

\* A plain service has one fork or one child, tracked unless it ended the
\* watcher, and the waiter of its child awaits that child.
PlainInv ==
    \A p \in Plain :
        /\ \A f \in forks : f.slug = p => ~Tracked(p) /\ KidsOf(p) = {}
        /\ \A k \in KidsOf(p) : handle[p] = k \/ watcher.at = "off"
        /\ KidsOf(p) # {} => kernel \in {"up", "stopping"}
        /\ \A k, j \in KidsOf(p) : k = j
        /\ \A k \in Kids : k[1] = p =>
              /\ waiter[k] \in {"new", "waiting"} => handle[p] = k
              /\ waiter[k] = "waiting" => target[k] = k
              /\ waiter[k] \notin {"backoff", "forking"}

Noticed(p) == \E n \in DOMAIN notices : notices[n] = p
Forked(p) == \E f \in forks : f.slug = p

\* A child whose proc does not read "running" is being stopped, or a notice
\* will tell the watcher, the one that came during the fork included.
CancelInv ==
    \A p \in Plain :
        watcher.at # "off" /\ status[p] # "running" =>
            \/ Noticed(p)
            \/ ~Forked(p) /\ \A k \in KidsOf(p) : watcher = Stopping(k)

\* A proc that reads "running" has a child that is awaited, or a start that
\* is under way, or a notice that will lead to one.
ServedInv ==
    \A p \in Services \ Deferred :
        lives = 0 /\ watcher.at # "off" /\ status[p] = "running" =>
            \/ Noticed(p) \/ Forked(p) \/ Tracked(p)
            \/ \E k \in Kids : k[1] = p /\ waiter[k] = "backoff"

Shape == ForkInv /\ WaiterInv /\ HandleInv /\ PhaseInv /\ PlainInv
IInv == TypeOK /\ Shape /\ CancelInv /\ ServedInv

-----------------------------------------------------------------------------
(* Notices, children, calls of start. *)

LEMMA KidFacts ==
    ASSUME NEW k \in Kids
    PROVE  /\ k[1] \in Services /\ k # None
           /\ k # Task("watcher") /\ k # Task("main") /\ k # Task("boot")
<1>1. k = <<k[1], k[2]>> /\ k[1] \in Services /\ k[2] \in 1..MaxKids
  BY DEF Kids
<1>2. k[2] # 0
  BY <1>1, SupervisorAssumption
<1> QED
  BY <1>1, <1>2, SupervisorAssumption DEF Task

\* A notice is kept until it is taken, and given to a watcher that is on.
LEMMA NotifyFacts ==
    ASSUME TypeOK, PhaseInv, NEW p \in Services, Notify(p)
    PROVE  /\ notices' \in Seq(Services)
           /\ \A q \in Services : Noticed(q) => Noticed(q)'
           /\ watcher.at # "off" => Noticed(p)'
<1>1. CASE Watched
  <2>1. notices' = Append(notices, p) /\ notices \in Seq(Services)
    BY <1>1 DEF Notify, TypeOK
  <2>2. /\ DOMAIN notices' = DOMAIN notices \cup {Len(notices) + 1} /\ notices'[Len(notices) + 1] = p
        /\ \A n \in DOMAIN notices : notices'[n] = notices[n]
        /\ notices' \in Seq(Services)
    BY <2>1
  <2> QED
    BY <2>2 DEF Noticed
<1>2. CASE ~Watched
  BY <1>2 DEF Notify, Watched, TypeOK, PhaseInv, Noticed
<1> QED
  BY <1>1, <1>2

\* The watcher takes the notice at the head.
LEMMA TakeFacts ==
    ASSUME TypeOK, NEW p \in Services, Watching(p), notices' = Tail(notices)
    PROVE  /\ notices' \in Seq(Services)
           /\ \A q \in Services : q # p /\ Noticed(q) => Noticed(q)'
<1>1. notices \in Seq(Services) /\ notices # <<>> /\ p = Head(notices)
  BY DEF TypeOK, Watching
<1>2. notices' \in Seq(Services)
  BY <1>1
<1>3. \A n \in DOMAIN notices : n # 1 => n - 1 \in DOMAIN notices' /\ notices'[n - 1] = notices[n]
  BY <1>1
<1>4. notices[1] = p
  BY <1>1
<1> QED
  BY <1>2, <1>3, <1>4 DEF Noticed

\* What a call of start does before it awaits the fork.
LEMMA StartFacts ==
    ASSUME TypeOK, PhaseInv, NEW p \in Services, NEW v \in Nat, NEW by \in Callers, BeginStart(by, p, v)
    PROVE  /\ forks' = forks \cup {[by |-> by, slug |-> p, spec |-> v]}
           /\ forks' \subseteq [by : Callers, slug : Services, spec : Nat]
           /\ status' \in [Services -> {"absent", "scheduled", "running", "over"}]
           /\ notices' \in Seq(Services)
           /\ \A q \in Services : Noticed(q) => Noticed(q)'
           /\ \A q \in Services : q # p => status'[q] = status[q]
           /\ status'[p] # "running" => status'[p] = status[p]
<1>1. CASE status[p] \in {"running", "absent"}
  BY <1>1 DEF BeginStart, TypeOK, Noticed
<1>2. CASE status[p] \notin {"running", "absent"}
  <2>1. status' = [status EXCEPT ![p] = "running"] /\ Notify(p)
    BY <1>2 DEF BeginStart
  <2> QED
    BY <2>1, NotifyFacts DEF BeginStart, TypeOK
<1> QED
  BY <1>1, <1>2

\* That service is forked now, and no other is.
LEMMA ForkAdded ==
    ASSUME NEW p, NEW v, NEW by, forks' = forks \cup {[by |-> by, slug |-> p, spec |-> v]}
    PROVE  /\ Forked(p)'
           /\ \A q : q # p => (Forked(q)' <=> Forked(q))
<1> DEFINE f == [by |-> by, slug |-> p, spec |-> v]
<1>1. f.slug = p /\ forks' = forks \cup {f}
  OBVIOUS
<1> HIDE DEF f
<1> QED
  BY <1>1 DEF Forked

\* Steps that touch neither children nor waiters nor the phase.
LEMMA ShapeStays ==
    ASSUME Shape, UNCHANGED <<watcher, handle, alive, waiter, target, forks, kernel, lives>>
    PROVE  Shape'
BY DEF Shape, ForkInv, WaiterInv, HandleInv, PhaseInv, PlainInv, Tracked, KidsOf

-----------------------------------------------------------------------------
(* Writers. *)

LEMMA WriterStep ==
    ASSUME IInv, NEW p \in Services, Spawn(p) \/ Cancel(p) \/ Remove(p) \/ Touch(p)
    PROVE  IInv'
<1> USE DEF IInv
<1>1. UNCHANGED <<watcher, children, phase, lives>> /\ writes' = writes + 1
  BY DEF Spawn, Cancel, Remove, Touch, Write
<1>2. Shape'
  BY <1>1, ShapeStays DEF children, phase
<1>3. /\ notices' \in Seq(Services)
      /\ \A q \in Services : Noticed(q) => Noticed(q)'
      /\ watcher.at # "off" => Noticed(p)' \/ (status[p] = "over" /\ status'[p] = "absent")
  <2>1. CASE Notify(p)
    BY <2>1, NotifyFacts DEF Shape
  <2>2. CASE Remove(p)
    BY <2>2 DEF Remove, TypeOK, Noticed
  <2> QED
    BY <2>1, <2>2 DEF Spawn, Cancel, Touch
<1>4. /\ status' \in [Services -> {"absent", "scheduled", "running", "over"}]
      /\ version' \in [Services -> Nat]
      /\ \A q \in Services : q # p => status'[q] = status[q]
  <2>1. status \in [Services -> {"absent", "scheduled", "running", "over"}] /\ version \in [Services -> Nat]
    BY DEF TypeOK
  <2>2. CASE Spawn(p)
    BY <2>1, <2>2 DEF Spawn
  <2>3. CASE Cancel(p) \/ Remove(p) \/ Touch(p)
    BY <2>1, <2>3 DEF Cancel, Remove, Touch
  <2> QED
    BY <2>2, <2>3
<1>5. TypeOK'
  BY <1>1, <1>3, <1>4 DEF TypeOK, children, phase
<1>6. CancelInv'
  BY <1>1, <1>3, <1>4 DEF CancelInv, Plain, Forked, KidsOf, children
<1>7. ServedInv'
  <2> SUFFICES ASSUME NEW q \in Services \ Deferred, lives = 0, watcher.at # "off",
                      status'[q] = "running", ~Noticed(q)'
               PROVE  \/ Forked(q) \/ Tracked(q)
                      \/ \E k \in Kids : k[1] = q /\ waiter[k] = "backoff"
    BY <1>1 DEF ServedInv, Forked, Tracked, children
  <2>1. q # p /\ status[q] = "running" /\ ~Noticed(q)
    BY <1>3, <1>4
  <2> QED
    BY <2>1 DEF ServedInv
<1> QED
  BY <1>2, <1>5, <1>6, <1>7

-----------------------------------------------------------------------------
(* The watcher and exits. *)

LEMMA ExitStep ==
    ASSUME IInv, NEW k \in Kids, Exit(k)
    PROVE  IInv'
<1> USE DEF IInv
<1>1. /\ k \in alive /\ alive' = alive \ {k} /\ signalled' = signalled \ {k}
      /\ UNCHANGED <<status, version, notices, watcher, handle, runs, waiter, target, crashes, forks, phase, bounds>>
  BY DEF Exit
<1>2. TypeOK'
  BY <1>1 DEF TypeOK, phase, bounds
<1>3. ForkInv' /\ WaiterInv' /\ HandleInv' /\ PhaseInv'
  BY <1>1 DEF Shape, ForkInv, WaiterInv, HandleInv, PhaseInv, Tracked, phase, bounds
<1>4. \A p \in Services : KidsOf(p)' \subseteq KidsOf(p)
  BY <1>1 DEF KidsOf
<1>5. PlainInv'
  <2>1. \A p \in Plain : p \in Services
    BY DEF Plain
  <2> QED
    BY <1>1, <1>4, <2>1 DEF Shape, PlainInv, Tracked, Plain, phase
<1>6. CancelInv'
  <2>1. \A p \in Plain : p \in Services
    BY DEF Plain
  <2> QED
    BY <1>1, <1>4, <2>1 DEF CancelInv, Noticed, Forked, Plain
<1>7. ServedInv'
  BY <1>1 DEF ServedInv, Noticed, Forked, Tracked, bounds
<1> QED
  BY <1>2, <1>3, <1>5, <1>6, <1>7 DEF Shape

\* The watcher starts only what is not tracked: then no child of a plain
\* service runs.
LEMMA WatchStartsStep ==
    ASSUME IInv, NEW p \in Services, WatchStarts(p)
    PROVE  IInv'
<1> USE DEF IInv
<1> DEFINE f == [by |-> Task("watcher"), slug |-> p, spec |-> version[p]]
<1>1. /\ Watching(p) /\ status[p] = "running" /\ ~Tracked(p)
      /\ notices' = Tail(notices) /\ forks' = forks \cup {f} /\ watcher' = [at |-> "forking"]
      /\ UNCHANGED <<status, version, handle, alive, signalled, runs, waiter, target, crashes, phase, bounds>>
  BY DEF WatchStarts
<1>2. watcher.at = "idle" /\ watcher' = [at |-> "forking"] /\ watcher'.at = "forking"
  BY <1>1 DEF Watching, Idle
<1>3. notices' \in Seq(Services) /\ \A q \in Services : q # p /\ Noticed(q) => Noticed(q)'
  BY <1>1, TakeFacts
<1>4. f.by = Task("watcher") /\ f.slug = p /\ f \in [by : Callers, slug : Services, spec : Nat]
  BY DEF TypeOK, Callers
<1> HIDE DEF f
<1>5. TypeOK'
  BY <1>1, <1>3, <1>4 DEF TypeOK, phase, bounds
<1>6. \A g \in forks : g.by # Task("watcher")
  BY <1>2 DEF Shape, ForkInv
<1>7. f.by \notin Kids
  BY <1>4, KidFacts
<1>8. ForkInv'
  BY <1>1, <1>2, <1>4, <1>6, <1>7 DEF Shape, ForkInv, Plain
<1>9. WaiterInv' /\ HandleInv' /\ PhaseInv'
  BY <1>1, <1>2 DEF Shape, WaiterInv, HandleInv, PhaseInv, Tracked, phase, bounds, Watching, Watched
<1>10. PlainInv'
  <2> SUFFICES ASSUME NEW q \in Plain
               PROVE  /\ \A g \in forks' : g.slug = q => ~Tracked(q) /\ KidsOf(q) = {}
                      /\ \A k \in KidsOf(q) : handle[q] = k
    BY <1>1, <1>2 DEF Shape, PlainInv, Tracked, KidsOf, Plain, phase
  <2>1. \A k \in KidsOf(q) : handle[q] = k
    BY <1>2 DEF Shape, PlainInv
  <2>2. \A k \in KidsOf(p) : k # None
    BY KidFacts DEF KidsOf, TypeOK
  <2>3. q = p => KidsOf(q) = {}
    BY <1>1, <2>1, <2>2 DEF Tracked
  <2> QED
    BY <1>1, <1>4, <2>1, <2>3 DEF Shape, PlainInv
<1>11. CancelInv'
  <2> SUFFICES ASSUME NEW q \in Plain, status[q] # "running", ~Noticed(q)'
               PROVE  ~Forked(q)' /\ KidsOf(q) = {}
    BY <1>1 DEF CancelInv, Plain, KidsOf
  <2>1. q \in Services /\ q # p /\ ~Noticed(q)
    BY <1>1, <1>3 DEF Plain
  <2>2. ~Forked(q) /\ \A k \in KidsOf(q) : watcher = Stopping(k)
    BY <1>2, <2>1 DEF CancelInv
  <2>3. KidsOf(q) = {}
    BY <1>2, <2>2 DEF Stopping
  <2> QED
    BY <1>1, <1>4, <2>1, <2>2, <2>3 DEF Forked
<1>12. ServedInv'
  <2>1. \A q \in Services : Forked(q) => Forked(q)'
    BY <1>1 DEF Forked
  <2>2. Forked(p)'
    BY <1>1, <1>4 DEF Forked
  <2> QED
    BY <1>1, <1>2, <1>3, <2>1, <2>2 DEF ServedInv, Tracked, bounds
<1> QED
  BY <1>5, <1>8, <1>9, <1>10, <1>11, <1>12 DEF Shape

\* It signals the child of a proc that is not running, and waits for it.
LEMMA WatchStopsStep ==
    ASSUME IInv, NEW p \in Services, WatchStops(p)
    PROVE  IInv'
<1> USE DEF IInv
<1>1. /\ Watching(p) /\ status[p] # "running" /\ Tracked(p) /\ notices' = Tail(notices)
      /\ Signal(p) /\ watcher' = Stopping(handle[p])
      /\ UNCHANGED <<status, version, handle, alive, runs, waiter, target, crashes, forks, phase, bounds>>
  BY DEF WatchStops
<1>2. watcher.at = "idle" /\ watcher'.at = "stopping" /\ handle[p] \in Kids
  BY <1>1 DEF Watching, Idle, Stopping, Tracked, TypeOK
<1>3. notices' \in Seq(Services) /\ \A q \in Services : q # p /\ Noticed(q) => Noticed(q)'
  BY <1>1, TakeFacts
<1>4. TypeOK'
  <2>1. signalled' \subseteq alive'
    BY <1>1 DEF Signal, TypeOK
  <2>2. watcher' \in {Stopping(k) : k \in Kids}
    BY <1>1, <1>2
  <2> QED
    BY <1>1, <1>3, <2>1, <2>2 DEF TypeOK, phase, bounds
<1>5. \A g \in forks : g.by # Task("watcher")
  BY <1>2 DEF Shape, ForkInv
<1>6. ForkInv' /\ WaiterInv' /\ HandleInv'
  BY <1>1, <1>5 DEF Shape, ForkInv, WaiterInv, HandleInv, Tracked
<1>7. PhaseInv'
  BY <1>1, <1>2 DEF Shape, PhaseInv, phase, bounds
<1>8. PlainInv'
  BY <1>1, <1>2 DEF Shape, PlainInv, Tracked, KidsOf, Plain, phase
<1>9. CancelInv'
  <2> SUFFICES ASSUME NEW q \in Plain, status[q] # "running", ~Noticed(q)'
               PROVE  ~Forked(q) /\ \A k \in KidsOf(q) : watcher' = Stopping(k)
    BY <1>1 DEF CancelInv, Plain, KidsOf, Forked
  <2>1. ~Forked(q)
    BY <1>5 DEF Forked, Shape, ForkInv
  <2>2. CASE q = p
    BY <1>1, <1>2, <2>1, <2>2 DEF Shape, PlainInv
  <2>3. CASE q # p
    BY <1>2, <1>3, <2>1, <2>3 DEF CancelInv, Stopping, Plain
  <2> QED
    BY <2>2, <2>3
<1>10. ServedInv'
  BY <1>1, <1>2, <1>3 DEF ServedInv, Tracked, Forked, bounds
<1> QED
  BY <1>4, <1>6, <1>7, <1>8, <1>9, <1>10 DEF Shape

\* It passes over what needs no action, and goes on when a stop is done.
LEMMA WatchPassesStep ==
    ASSUME IInv, WatchStopped \/ \E p \in Services : WatchPasses(p)
    PROVE  IInv'
<1> USE DEF IInv
<1>1. CASE WatchStopped
  <2>1. /\ watcher.at = "stopping" /\ watcher.kid \notin alive /\ watcher' = Idle
        /\ UNCHANGED <<status, version, notices, children, phase, bounds>>
    BY <1>1 DEF WatchStopped
  <2>2. TypeOK'
    BY <2>1 DEF TypeOK, children, phase, bounds
  <2>3. \A g \in forks : g.by # Task("watcher")
    BY <2>1 DEF Shape, ForkInv
  <2>4. ForkInv' /\ WaiterInv' /\ HandleInv'
    BY <2>1, <2>3 DEF Shape, ForkInv, WaiterInv, HandleInv, Tracked, children
  <2>5. PhaseInv' /\ PlainInv'
    BY <2>1 DEF Shape, PhaseInv, PlainInv, Tracked, KidsOf, Plain, phase, bounds, children
  <2>6. \A k \in alive : watcher # Stopping(k)
    BY <2>1 DEF Stopping
  <2>7. CancelInv'
    BY <2>1, <2>6 DEF CancelInv, Noticed, Forked, KidsOf, Plain, children
  <2>8. ServedInv'
    BY <2>1 DEF ServedInv, Noticed, Forked, Tracked, children, bounds
  <2> QED
    BY <2>2, <2>4, <2>5, <2>7, <2>8 DEF Shape
<1>2. ASSUME NEW p \in Services, WatchPasses(p) PROVE IInv'
  <2>1. /\ Watching(p) /\ notices' = Tail(notices)
        /\ Tracked(p) => status[p] = "running"
        /\ ~Tracked(p) => status[p] # "running" \/ p \in Deferred
        /\ UNCHANGED <<status, version, watcher, children, phase, bounds>>
    BY <1>2 DEF WatchPasses
  <2>2. watcher.at = "idle"
    BY <2>1 DEF Watching, Idle
  <2>3. notices' \in Seq(Services) /\ \A q \in Services : q # p /\ Noticed(q) => Noticed(q)'
    BY <2>1, TakeFacts
  <2>4. TypeOK'
    BY <2>1, <2>3 DEF TypeOK, children, phase, bounds
  <2>5. Shape'
    BY <2>1, ShapeStays DEF children, phase, bounds
  <2>6. CancelInv'
    <3> SUFFICES ASSUME NEW q \in Plain, status[q] # "running", ~Noticed(q)'
                 PROVE  ~Forked(q) /\ KidsOf(q) = {}
      BY <2>1 DEF CancelInv, Plain, KidsOf, Forked, children
    <3>1. CASE q = p
      <4>1. handle[q] = None
        BY <2>1, <3>1 DEF Tracked
      <4>2. KidsOf(q) = {}
        <5>1. \A k \in KidsOf(q) : k \in Kids /\ handle[q] = k
          BY <2>2 DEF Shape, PlainInv, KidsOf, TypeOK
        <5> QED
          BY <4>1, <5>1, KidFacts
      <4>3. ~Forked(q)
        BY <2>2 DEF Forked, Shape, ForkInv
      <4> QED
        BY <4>2, <4>3
    <3>2. CASE q # p
      BY <2>2, <2>3, <3>2 DEF CancelInv, Stopping, Plain
    <3> QED
      BY <3>1, <3>2
  <2>7. ServedInv'
    BY <2>1, <2>3 DEF ServedInv, Tracked, Forked, children, bounds
  <2> QED
    BY <2>4, <2>5, <2>6, <2>7
<1> QED
  BY <1>1, <1>2

-----------------------------------------------------------------------------
(* Forks that end. *)

\* The caller of a fork has no other, and is no waiter that awaits a child.
LEMMA CallerFacts ==
    ASSUME TypeOK, ForkInv, NEW f \in forks
    PROVE  /\ f.by \in Callers /\ f.slug \in Services /\ f.spec \in Nat
           /\ \A g \in forks \ {f} : g.by # f.by
           /\ \A j \in Kids : waiter[j] # "forking" => j # f.by
           /\ f.by = Task("watcher") => watcher.at = "forking"
           /\ f.slug \in Plain => f.by = Task("watcher")
BY DEF TypeOK, ForkInv

\* The child is entered in the tables, and a notice that came meanwhile is
\* still there.
LEMMA ForkDoneStep ==
    ASSUME IInv, ForkDone
    PROVE  IInv'
<1> USE DEF IInv
<1>1. PICK f \in forks, k \in Kids :
        /\ kernel # "down" /\ k[1] = f.slug /\ k \notin alive /\ waiter[k] = "none"
        /\ forks' = forks \ {f} /\ alive' = alive \cup {k}
        /\ runs' = [runs EXCEPT ![k] = f.spec]
        /\ waiter' = [j \in Kids |-> IF j = k THEN "new" ELSE IF j = f.by THEN "none" ELSE waiter[j]]
        /\ target' = [j \in Kids |-> IF j = f.by THEN None ELSE target[j]]
        /\ handle' = [handle EXCEPT ![f.slug] = k]
        /\ watcher' = IF f.by = Task("watcher") THEN Idle ELSE watcher
        /\ UNCHANGED <<status, version, notices, signalled, crashes, phase, bounds>>
  BY DEF ForkDone, FreeKid
<1>2. /\ f.by \in Callers /\ f.slug \in Services /\ f.spec \in Nat
      /\ \A g \in forks \ {f} : g.by # f.by
      /\ \A j \in Kids : waiter[j] # "forking" => j # f.by
      /\ f.by = Task("watcher") => watcher.at = "forking"
      /\ f.slug \in Plain => f.by = Task("watcher")
  BY CallerFacts DEF Shape
<1>3. /\ waiter'[k] = "new" /\ k # f.by
      /\ \A j \in Kids \ {k} : waiter'[j] = IF j = f.by THEN "none" ELSE waiter[j]
      /\ \A j \in Kids : j # f.by => target'[j] = target[j]
      /\ handle'[f.slug] = k /\ \A p \in Services \ {f.slug} : handle'[p] = handle[p]
  BY <1>1, <1>2 DEF TypeOK
<1>4. TypeOK'
  <2>1. waiter' \in [Kids -> {"none", "new", "waiting", "backoff", "forking"}]
    BY <1>1 DEF TypeOK
  <2>2. target' \in [Kids -> Kids \cup {None}] /\ handle' \in [Services -> Kids \cup {None}]
    BY <1>1, <1>2 DEF TypeOK
  <2>3. alive' \subseteq Kids /\ signalled' \subseteq alive' /\ runs' \in [Kids -> Nat]
    BY <1>1, <1>2 DEF TypeOK
  <2> QED
    BY <1>1, <2>1, <2>2, <2>3 DEF TypeOK, phase, bounds
<1>5. ForkInv'
  <2>1. \A g \in forks' : g \in forks \ {f} /\ g.by # k
    BY <1>1 DEF Shape, ForkInv
  <2> QED
    BY <1>1, <1>2, <1>3, <2>1 DEF Shape, ForkInv, Plain
<1>6. WaiterInv'
  BY <1>3 DEF Shape, WaiterInv
<1>7. HandleInv'
  <2> SUFFICES ASSUME NEW p \in Services, handle'[p] # None
               PROVE  handle'[p][1] = p /\ waiter'[handle'[p]] \in {"new", "waiting"}
    BY DEF HandleInv, Tracked
  <2>1. CASE p = f.slug
    BY <1>1, <1>3, <2>1
  <2>2. CASE p # f.slug
    <3>1. handle'[p] = handle[p] /\ handle[p] \in Kids
      BY <1>3, <2>2 DEF TypeOK
    <3>2. handle[p][1] = p /\ waiter[handle[p]] \in {"new", "waiting"}
      BY <3>1 DEF Shape, HandleInv, Tracked
    <3> QED
      BY <1>1, <1>2, <1>3, <3>1, <3>2
  <2> QED
    BY <2>1, <2>2
<1>8. /\ watcher'.at = "off" <=> watcher.at = "off"
      /\ watcher' # watcher => watcher.at = "forking"
  BY <1>1, <1>2 DEF Idle
<1>9. PhaseInv'
  BY <1>1, <1>8 DEF Shape, PhaseInv, phase, bounds
<1>10. \A p \in Services \ {f.slug} : KidsOf(p)' = KidsOf(p)
  BY <1>1 DEF KidsOf
<1>11. PlainInv'
  <2> SUFFICES ASSUME NEW p \in Plain
        PROVE  /\ \A g \in forks' : g.slug = p => handle'[p] = None /\ KidsOf(p)' = {}
               /\ \A j \in KidsOf(p)' : handle'[p] = j \/ watcher'.at = "off"
               /\ KidsOf(p)' # {} => kernel \in {"up", "stopping"}
               /\ \A i, j \in KidsOf(p)' : i = j
               /\ \A j \in Kids : j[1] = p =>
                     /\ waiter'[j] \in {"new", "waiting"} => handle'[p] = j
                     /\ waiter'[j] = "waiting" => target'[j] = j
                     /\ waiter'[j] \notin {"backoff", "forking"}
    BY <1>1 DEF PlainInv, Plain, Tracked, phase
  <2>0. p \in Services
    BY DEF Plain
  <2>1. CASE p = f.slug
    <3>1. f.by = Task("watcher") /\ watcher.at = "forking" /\ handle[p] = None /\ KidsOf(p) = {}
      BY <1>2, <2>1 DEF Shape, PlainInv, Tracked
    <3>2. KidsOf(p)' = {k}
      BY <1>1, <2>1, <3>1 DEF KidsOf
    <3>3. \A g \in forks' : g.slug # p
      BY <1>1, <1>2, <2>1 DEF Shape, ForkInv
    <3>4. kernel \in {"up", "stopping"}
      BY <3>1 DEF Shape, PhaseInv, TypeOK
    <3>5. \A j \in Kids : j[1] = p => waiter[j] \notin {"new", "waiting", "backoff", "forking"}
      BY <3>1, KidFacts DEF Shape, PlainInv
    <3> QED
      BY <1>3, <2>1, <3>2, <3>3, <3>4, <3>5
  <2>2. CASE p # f.slug
    <3>1. handle'[p] = handle[p] /\ KidsOf(p)' = KidsOf(p)
      BY <1>3, <1>10, <2>0, <2>2
    <3>2. \A j \in Kids : j[1] = p => j # k /\ ((waiter'[j] = waiter[j] /\ target'[j] = target[j]) \/ waiter'[j] = "none")
      BY <1>1, <1>3, <2>2
    <3> QED
      BY <1>1, <1>8, <3>1, <3>2 DEF Shape, PlainInv, Tracked
  <2> QED
    BY <2>1, <2>2
<1>12. CancelInv'
  <2> SUFFICES ASSUME NEW p \in Plain, watcher.at # "off", status[p] # "running", ~Noticed(p)
               PROVE  ~Forked(p)' /\ \A j \in KidsOf(p)' : watcher' = Stopping(j)
    BY <1>1, <1>8 DEF CancelInv, Plain, Noticed
  <2>1. ~Forked(p) /\ \A j \in KidsOf(p) : watcher = Stopping(j)
    BY DEF CancelInv
  <2>2. p # f.slug /\ ~Forked(p)' /\ KidsOf(p)' = KidsOf(p)
    BY <1>1, <1>10, <2>1 DEF Forked, Plain
  <2>3. KidsOf(p) # {} => watcher' = watcher
    BY <1>8, <2>1 DEF Stopping
  <2> QED
    BY <2>1, <2>2, <2>3
<1>13. ServedInv'
  <2> SUFFICES ASSUME NEW p \in Services \ Deferred, lives = 0, watcher.at # "off",
                      status[p] = "running", ~Noticed(p)
               PROVE  \/ Forked(p)' \/ Tracked(p)'
                      \/ \E j \in Kids : j[1] = p /\ waiter'[j] = "backoff"
    BY <1>1, <1>8 DEF ServedInv, Noticed, bounds
  <2>1. CASE p = f.slug
    BY <1>3, <2>1, KidFacts DEF Tracked
  <2>2. CASE p # f.slug
    <3>1. Forked(p) => Forked(p)'
      BY <1>1, <2>2 DEF Forked
    <3>2. Tracked(p) => Tracked(p)'
      BY <1>3, <2>2 DEF Tracked
    <3>3. \A j \in Kids : waiter[j] = "backoff" => waiter'[j] = "backoff"
      BY <1>1, <1>2, <1>3
    <3> QED
      BY <3>1, <3>2, <3>3 DEF ServedInv
  <2> QED
    BY <2>1, <2>2
<1> QED
  BY <1>4, <1>5, <1>6, <1>7, <1>9, <1>11, <1>12, <1>13 DEF Shape

\* The child of a proc that was deleted meanwhile is in no table; if the
\* watcher forked it, that was its last step.
LEMMA ForkOrphansStep ==
    ASSUME IInv, ForkOrphans
    PROVE  IInv'
<1> USE DEF IInv
<1>1. PICK f \in forks, k \in Kids :
        /\ kernel # "down" /\ k[1] = f.slug /\ k \notin alive /\ status[k[1]] = "absent"
        /\ forks' = forks \ {f} /\ alive' = alive \cup {k}
        /\ runs' = [runs EXCEPT ![k] = f.spec]
        /\ waiter' = [j \in Kids |-> IF j = f.by THEN "none" ELSE waiter[j]]
        /\ target' = [j \in Kids |-> IF j = f.by THEN None ELSE target[j]]
        /\ IF f.by = Task("watcher") THEN watcher' = [at |-> "off"] /\ notices' = <<>>
           ELSE UNCHANGED <<watcher, notices>>
        /\ UNCHANGED <<status, version, handle, signalled, crashes, phase, bounds>>
  BY DEF ForkOrphans, FreeKid
<1>2. /\ f.by \in Callers /\ f.slug \in Services /\ f.spec \in Nat
      /\ \A g \in forks \ {f} : g.by # f.by
      /\ \A j \in Kids : waiter[j] # "forking" => j # f.by
      /\ f.by = Task("watcher") => watcher.at = "forking"
      /\ f.slug \in Plain => f.by = Task("watcher")
  BY CallerFacts DEF Shape
<1>3. /\ \A j \in Kids : waiter'[j] = IF j = f.by THEN "none" ELSE waiter[j]
      /\ \A j \in Kids : j # f.by => target'[j] = target[j]
  BY <1>1, <1>2
<1>4. TypeOK'
  <2>1. waiter' \in [Kids -> {"none", "new", "waiting", "backoff", "forking"}]
    BY <1>1 DEF TypeOK
  <2>2. target' \in [Kids -> Kids \cup {None}]
    BY <1>1, <1>2 DEF TypeOK
  <2>3. alive' \subseteq Kids /\ signalled' \subseteq alive' /\ runs' \in [Kids -> Nat]
    BY <1>1, <1>2 DEF TypeOK
  <2>4. notices' \in Seq(Services)
    <3>1. notices' = <<>> \/ notices' = notices
      BY <1>1
    <3>2. notices \in Seq(Services) /\ <<>> \in Seq(Services)
      BY DEF TypeOK
    <3> QED
      BY <3>1, <3>2
  <2>5. watcher' = watcher \/ watcher' = [at |-> "off"]
    BY <1>1
  <2>6. watcher' \in {Idle, [at |-> "forking"], [at |-> "off"]} \cup {Stopping(j) : j \in Kids}
    BY <2>5 DEF TypeOK
  <2>7. forks' \subseteq [by : Callers, slug : Services, spec : Nat]
    BY <1>1 DEF TypeOK
  <2> QED
    BY <1>1, <2>1, <2>2, <2>3, <2>4, <2>6, <2>7 DEF TypeOK, phase, bounds
<1>5. ForkInv'
  <2>1. \A g \in forks' : g \in forks \ {f}
    BY <1>1
  <2> QED
    BY <1>1, <1>2, <1>3, <2>1 DEF Shape, ForkInv, Plain
<1>6. WaiterInv'
  BY <1>3 DEF Shape, WaiterInv
<1>7. HandleInv'
  <2> SUFFICES ASSUME NEW p \in Services, handle[p] # None
               PROVE  handle[p][1] = p /\ waiter'[handle[p]] \in {"new", "waiting"}
    BY <1>1 DEF HandleInv, Tracked
  <2>1. handle[p] \in Kids /\ handle[p][1] = p /\ waiter[handle[p]] \in {"new", "waiting"}
    BY DEF Shape, HandleInv, Tracked, TypeOK
  <2> QED
    BY <1>2, <1>3, <2>1
<1>8. f.by = Task("watcher") => watcher'.at = "off"
  BY <1>1
<1>9. PhaseInv'
  BY <1>1, <1>8 DEF Shape, PhaseInv, phase, bounds
<1>10. \A p \in Services \ {f.slug} : KidsOf(p)' = KidsOf(p)
  BY <1>1 DEF KidsOf
<1>11. PlainInv'
  <2> SUFFICES ASSUME NEW p \in Plain
        PROVE  /\ \A g \in forks' : g.slug = p => handle[p] = None /\ KidsOf(p)' = {}
               /\ \A j \in KidsOf(p)' : handle[p] = j \/ watcher'.at = "off"
               /\ KidsOf(p)' # {} => kernel \in {"up", "stopping"}
               /\ \A i, j \in KidsOf(p)' : i = j
               /\ \A j \in Kids : j[1] = p =>
                     /\ waiter'[j] \in {"new", "waiting"} => handle[p] = j
                     /\ waiter'[j] = "waiting" => target'[j] = j
                     /\ waiter'[j] \notin {"backoff", "forking"}
    BY <1>1 DEF PlainInv, Plain, Tracked, phase
  <2>0. p \in Services
    BY DEF Plain
  <2>1. \A j \in Kids : (waiter'[j] = waiter[j] /\ target'[j] = target[j]) \/ waiter'[j] = "none"
    BY <1>3
  <2>2. CASE p = f.slug
    <3>1. f.by = Task("watcher") /\ watcher.at = "forking" /\ KidsOf(p) = {}
      BY <1>2, <2>2 DEF Shape, PlainInv, Tracked
    <3>2. KidsOf(p)' = {k}
      BY <1>1, <2>2, <3>1 DEF KidsOf
    <3>3. \A g \in forks' : g.slug # p
      BY <1>1, <1>2, <2>2 DEF Shape, ForkInv
    <3>4. kernel \in {"up", "stopping"}
      BY <3>1 DEF Shape, PhaseInv, TypeOK
    <3> QED
      BY <1>8, <2>1, <3>1, <3>2, <3>3, <3>4 DEF Shape, PlainInv
  <2>3. CASE p # f.slug
    <3>1. KidsOf(p)' = KidsOf(p)
      BY <1>10, <2>0, <2>3
    <3>2. watcher.at = "off" => watcher'.at = "off"
      BY <1>1
    <3> QED
      BY <1>1, <2>1, <3>1, <3>2 DEF Shape, PlainInv, Tracked
  <2> QED
    BY <2>2, <2>3
<1>12. CASE f.by = Task("watcher")
  BY <1>4, <1>5, <1>6, <1>7, <1>8, <1>9, <1>11, <1>12 DEF Shape, CancelInv, ServedInv
<1>13. CASE f.by # Task("watcher")
  <2>1. UNCHANGED <<watcher, notices, status, handle>>
    BY <1>1, <1>13
  <2>2. CancelInv'
    <3>1. \A p \in Plain : p # f.slug /\ p \in Services
      BY <1>2, <1>13 DEF Plain
    <3>2. \A p \in Plain : KidsOf(p)' = KidsOf(p) /\ (Forked(p)' => Forked(p))
      BY <1>1, <1>10, <3>1 DEF Forked
    <3> QED
      BY <2>1, <3>2 DEF CancelInv, Plain, Noticed
  <2>3. ServedInv'
    <3> SUFFICES ASSUME NEW p \in Services \ Deferred, lives = 0, watcher.at # "off",
                        status[p] = "running", ~Noticed(p)
                 PROVE  \/ Forked(p)' \/ Tracked(p)
                        \/ \E j \in Kids : j[1] = p /\ waiter'[j] = "backoff"
      BY <1>1, <2>1 DEF ServedInv, Noticed, Tracked, bounds
    <3>1. Forked(p) => Forked(p)'
      BY <1>1 DEF Forked
    <3>2. \A j \in Kids : waiter[j] = "backoff" => waiter'[j] = "backoff"
      BY <1>2, <1>3
    <3> QED
      BY <3>1, <3>2 DEF ServedInv
  <2> QED
    BY <1>4, <1>5, <1>6, <1>7, <1>9, <1>11, <2>2, <2>3 DEF Shape
<1> QED
  BY <1>12, <1>13

-----------------------------------------------------------------------------
(* Waiters. *)

\* A waiter that begins takes what is tracked now; for a plain service that
\* is its own child.
LEMMA WaiterBeginsStep ==
    ASSUME IInv, NEW k \in Kids, WaiterBegins(k)
    PROVE  IInv'
<1> USE DEF IInv
<1>1. /\ waiter[k] = "new"
      /\ UNCHANGED <<status, version, notices, watcher, handle, alive, signalled, runs, crashes,
                     forks, kernel, todo, awaited, writes, lives>>
  BY DEF WaiterBegins, WaiterRest, phase, bounds
<1>2. /\ IF Tracked(k[1]) THEN waiter'[k] = "waiting" /\ target'[k] = handle[k[1]]
         ELSE waiter'[k] = "none" /\ target'[k] = None
      /\ \A j \in Kids \ {k} : waiter'[j] = waiter[j] /\ target'[j] = target[j]
      /\ waiter' \in [Kids -> {"none", "new", "waiting", "backoff", "forking"}]
      /\ target' \in [Kids -> Kids \cup {None}]
  <2>1. k[1] \in Services /\ handle[k[1]] \in Kids \cup {None}
    BY KidFacts DEF TypeOK
  <2>2. /\ waiter \in [Kids -> {"none", "new", "waiting", "backoff", "forking"}]
        /\ target \in [Kids -> Kids \cup {None}]
    BY DEF TypeOK
  <2>3. CASE Tracked(k[1])
    <3>1. /\ waiter' = [waiter EXCEPT ![k] = "waiting"]
          /\ target' = [target EXCEPT ![k] = handle[k[1]]]
      BY <2>3 DEF WaiterBegins
    <3> QED
      BY <2>1, <2>2, <2>3, <3>1
  <2>4. CASE ~Tracked(k[1])
    <3>1. waiter' = [waiter EXCEPT ![k] = "none"] /\ target' = [target EXCEPT ![k] = None]
      BY <2>4 DEF WaiterBegins, Quit
    <3> QED
      BY <2>2, <2>4, <3>1
  <2> QED
    BY <2>3, <2>4
<1>3. TypeOK'
  BY <1>1, <1>2 DEF TypeOK
<1>4. ForkInv'
  BY <1>1, <1>2 DEF Shape, ForkInv, Plain
<1>5. WaiterInv'
  <2> SUFFICES ASSUME NEW j \in Kids, waiter'[j] \in {"waiting", "backoff"}
               PROVE  target'[j] \in Kids /\ target'[j][1] = j[1]
    BY DEF WaiterInv
  <2>1. CASE j = k
    <3>1. k[1] \in Services /\ handle[k[1]] # None /\ target'[k] = handle[k[1]]
      BY <1>2, <2>1, KidFacts DEF Tracked
    <3> QED
      BY <2>1, <3>1 DEF Shape, HandleInv, Tracked, TypeOK
  <2>2. CASE j # k
    BY <1>2, <2>2 DEF Shape, WaiterInv
  <2> QED
    BY <2>1, <2>2
<1>6. HandleInv'
  <2> SUFFICES ASSUME NEW p \in Services, handle[p] # None
               PROVE  handle[p][1] = p /\ waiter'[handle[p]] \in {"new", "waiting"}
    BY <1>1 DEF HandleInv, Tracked
  <2>1. handle[p] \in Kids /\ handle[p][1] = p /\ waiter[handle[p]] \in {"new", "waiting"}
    BY DEF Shape, HandleInv, Tracked, TypeOK
  <2>2. handle[p] = k => Tracked(k[1])
    BY <2>1 DEF Tracked
  <2> QED
    BY <1>2, <2>1, <2>2
<1>7. PhaseInv'
  BY <1>1 DEF Shape, PhaseInv
<1>8. PlainInv'
  <2> SUFFICES ASSUME NEW p \in Plain, NEW j \in Kids, j[1] = p
               PROVE  /\ waiter'[j] \in {"new", "waiting"} => handle[p] = j
                      /\ waiter'[j] = "waiting" => target'[j] = j
                      /\ waiter'[j] \notin {"backoff", "forking"}
    BY <1>1 DEF Shape, PlainInv, Plain, Tracked, KidsOf
  <2>1. CASE j = k
    BY <1>1, <1>2, <2>1 DEF Shape, PlainInv
  <2>2. CASE j # k
    BY <1>2, <2>2 DEF Shape, PlainInv
  <2> QED
    BY <2>1, <2>2
<1>9. CancelInv'
  BY <1>1 DEF CancelInv, Noticed, Forked, KidsOf, Plain
<1>10. ServedInv'
  <2>1. \A j \in Kids : waiter[j] = "backoff" => waiter'[j] = "backoff"
    BY <1>1, <1>2
  <2> QED
    BY <1>1, <2>1 DEF ServedInv, Noticed, Forked, Tracked
<1> QED
  BY <1>3, <1>4, <1>5, <1>6, <1>7, <1>8, <1>9, <1>10 DEF Shape

\* A waiter whose child ended, or whose pause is over: what is tracked for a
\* plain service was that child.
LEMMA ShapeWaits ==
    ASSUME TypeOK, Shape, NEW k \in Kids, NEW w \in {"none", "backoff", "forking"},
           \/ waiter[k] = "waiting" /\ target[k] \notin alive /\ handle' = [handle EXCEPT ![k[1]] = None]
           \/ waiter[k] = "backoff" /\ handle' = handle,
           waiter' = [waiter EXCEPT ![k] = w],
           \A j \in Kids \ {k} : target'[j] = target[j],
           w = "none" \/ (k[1] \notin Plain /\ target'[k] = target[k]),
           \/ forks' = forks
           \/ w = "forking" /\ \E v \in Nat : forks' = forks \cup {[by |-> k, slug |-> k[1], spec |-> v]},
           UNCHANGED <<watcher, alive, kernel, lives>>
    PROVE  Shape'
<1>1. /\ waiter'[k] = w /\ k[1] \in Services /\ waiter[k] \in {"waiting", "backoff"}
      /\ \A j \in Kids \ {k} : waiter'[j] = waiter[j]
  BY KidFacts DEF TypeOK
<1>2. /\ \A p \in Services \ {k[1]} : handle'[p] = handle[p]
      /\ handle'[k[1]] = None \/ (handle' = handle /\ waiter[k] = "backoff")
  BY <1>1 DEF TypeOK
<1>3. /\ \A g \in forks' : g \in forks \/ (w = "forking" /\ g.by = k /\ g.slug = k[1])
      /\ \A g, h \in forks' : g.by = k /\ h.by = k => g = h
      /\ \A g \in forks : g.by # k
  <2>1. \A g \in forks : g.by # k
    BY <1>1 DEF Shape, ForkInv
  <2> QED
    BY <2>1
<1>4. ForkInv'
  <2>1. \A g, h \in forks' : g.by = h.by => g = h
    BY <1>3 DEF Shape, ForkInv
  <2>2. ASSUME NEW g \in forks'
        PROVE  /\ g.by \in Kids => waiter'[g.by] = "forking" /\ g.by[1] = g.slug
               /\ g.by = Task("watcher") => watcher'.at = "forking"
               /\ g.slug \in Plain => g.by = Task("watcher")
    <3>1. CASE g \in forks
      BY <1>1, <1>3, <3>1 DEF Shape, ForkInv
    <3>2. CASE w = "forking" /\ g.by = k /\ g.slug = k[1]
      BY <1>1, <3>2, KidFacts
    <3> QED
      BY <1>3, <3>1, <3>2
  <2> QED
    BY <2>1, <2>2 DEF ForkInv, Plain
<1>5. WaiterInv'
  <2>1. target[k] \in Kids /\ target[k][1] = k[1]
    BY <1>1 DEF Shape, WaiterInv
  <2> QED
    BY <1>1, <2>1 DEF Shape, WaiterInv
<1>6. HandleInv'
  <2> SUFFICES ASSUME NEW p \in Services, handle'[p] # None
               PROVE  handle'[p][1] = p /\ waiter'[handle'[p]] \in {"new", "waiting"}
    BY DEF HandleInv, Tracked
  <2>1. handle'[p] = handle[p] /\ (p = k[1] => waiter[k] = "backoff")
    BY <1>2
  <2>2. handle[p] \in Kids /\ handle[p][1] = p /\ waiter[handle[p]] \in {"new", "waiting"}
    BY <2>1 DEF Shape, HandleInv, Tracked, TypeOK
  <2>3. handle[p] # k
    BY <2>1, <2>2
  <2> QED
    BY <1>1, <2>1, <2>2, <2>3
<1>7. PhaseInv'
  BY DEF Shape, PhaseInv
<1>8. PlainInv'
  <2> SUFFICES ASSUME NEW p \in Plain
        PROVE  /\ \A g \in forks' : g.slug = p => handle'[p] = None /\ KidsOf(p) = {}
               /\ \A j \in KidsOf(p) : handle'[p] = j \/ watcher.at = "off"
               /\ \A j \in Kids : j[1] = p =>
                     /\ waiter'[j] \in {"new", "waiting"} => handle'[p] = j
                     /\ waiter'[j] = "waiting" => target'[j] = j
                     /\ waiter'[j] \notin {"backoff", "forking"}
    BY DEF Shape, PlainInv, Tracked, KidsOf, Plain
  <2>1. CASE p = k[1]
    <3>1. waiter[k] = "waiting" /\ handle[p] = k /\ target[k] = k /\ k \notin alive /\ handle'[p] = None /\ w = "none"
      BY <1>1, <1>2, <2>1 DEF Shape, PlainInv
    <3>2. \A g \in forks : g.slug # p
      BY <1>1, <2>1, <3>1, KidFacts DEF Shape, PlainInv, Tracked
    <3>3. \A j \in KidsOf(p) : watcher.at = "off"
      BY <3>1 DEF Shape, PlainInv, KidsOf
    <3>4. \A j \in Kids \ {k} : j[1] = p => waiter[j] = "none"
      BY <3>1 DEF Shape, PlainInv, TypeOK
    <3> QED
      BY <1>1, <1>3, <3>1, <3>2, <3>3, <3>4
  <2>2. CASE p # k[1]
    <3>1. handle'[p] = handle[p]
      BY <1>2, <2>2 DEF Plain
    <3>2. \A g \in forks' : g.slug = p => g \in forks
      BY <1>3, <2>2
    <3> QED
      BY <1>1, <2>2, <3>1, <3>2 DEF Shape, PlainInv, Tracked
  <2> QED
    BY <2>1, <2>2
<1> QED
  BY <1>4, <1>5, <1>6, <1>7, <1>8 DEF Shape

\* What becomes of the proc: it is resolved, or the waiter pauses or forks,
\* or somebody else serves it.
LEMMA RestWaits ==
    ASSUME IInv, NEW k \in Kids,
           UNCHANGED <<watcher, alive, lives>>,
           \A p \in Services : Noticed(p) => Noticed(p)',
           \A p \in Services \ {k[1]} :
              status'[p] = status[p] /\ handle'[p] = handle[p] /\ (Forked(p)' <=> Forked(p)),
           \A j \in Kids \ {k} : waiter'[j] = waiter[j],
           \/ status'[k[1]] = "running" /\ k[1] \notin Plain
              /\ (Forked(k[1])' \/ waiter'[k] = "backoff" \/ Tracked(k[1])')
           \/ status'[k[1]] # "running" /\ (watcher.at # "off" => Noticed(k[1])')
           \/ status'[k[1]] # "running" /\ status' = status /\ (Forked(k[1])' <=> Forked(k[1]))
    PROVE  CancelInv' /\ ServedInv'
<1> USE DEF IInv
<1>0. k[1] \in Services
  BY KidFacts
<1>1. CancelInv'
  <2> SUFFICES ASSUME NEW p \in Plain, watcher.at # "off", status'[p] # "running", ~Noticed(p)'
               PROVE  ~Forked(p)' /\ \A j \in KidsOf(p) : watcher = Stopping(j)
    BY DEF CancelInv, Plain, KidsOf
  <2>1. p \in Services /\ ~Noticed(p)
    BY DEF Plain
  <2>2. status[p] # "running" /\ (Forked(p)' <=> Forked(p))
    BY <2>1
  <2> QED
    BY <2>1, <2>2 DEF CancelInv
<1>2. ServedInv'
  <2> SUFFICES ASSUME NEW p \in Services \ Deferred, lives = 0, watcher.at # "off",
                      status'[p] = "running", ~Noticed(p)'
               PROVE  \/ Forked(p)' \/ Tracked(p)'
                      \/ \E j \in Kids : j[1] = p /\ waiter'[j] = "backoff"
    BY DEF ServedInv
  <2>1. CASE p = k[1]
    BY <2>1
  <2>2. CASE p # k[1]
    <3>1. status[p] = "running" /\ ~Noticed(p) /\ (Tracked(p)' <=> Tracked(p)) /\ (Forked(p)' <=> Forked(p))
      BY <2>2 DEF Tracked
    <3>2. \A j \in Kids : j[1] = p => j # k
      BY <2>2
    <3> QED
      BY <3>1, <3>2 DEF ServedInv
  <2> QED
    BY <2>1, <2>2
<1> QED
  BY <1>1, <1>2

LEMMA ResolveFacts ==
    ASSUME TypeOK, PhaseInv, NEW p \in Services, Resolve(p)
    PROVE  /\ status' \in [Services -> {"absent", "scheduled", "running", "over"}]
           /\ status'[p] = "over" /\ \A q \in Services \ {p} : status'[q] = status[q]
           /\ notices' \in Seq(Services)
           /\ \A q \in Services : Noticed(q) => Noticed(q)'
           /\ watcher.at # "off" => Noticed(p)'
<1>1. Notify(p) /\ status' = [status EXCEPT ![p] = "over"]
  BY DEF Resolve
<1> QED
  BY <1>1, NotifyFacts DEF TypeOK

\* The child ended.
LEMMA ReturnedStep ==
    ASSUME IInv, NEW k \in Kids, ExitIgnored(k) \/ ExitFinal(k) \/ RestartStable(k) \/ BackOff(k) \/ GiveUp(k)
    PROVE  IInv'
<1> USE DEF IInv
<1> DEFINE p == k[1]
<1>1. /\ Returned(k) /\ p \in Services /\ waiter[k] = "waiting" /\ target[k] \notin alive
      /\ handle' = [handle EXCEPT ![p] = None] /\ target[k] \in Kids /\ runs[target[k]] \in Nat
      /\ UNCHANGED <<version, watcher, alive, signalled, runs, kernel, todo, awaited, writes, lives>>
  <2>1. Returned(k)
    BY DEF ExitIgnored, ExitFinal, RestartStable, BackOff, GiveUp, MayRestart
  <2>2. target[k] \in Kids
    BY <2>1 DEF Returned, Shape, WaiterInv
  <2> QED
    BY <2>1, <2>2, KidFacts DEF Returned, WaiterRest, phase, bounds, TypeOK
<1>2. \A q \in Services \ {p} : handle'[q] = handle[q]
  BY <1>1 DEF TypeOK
<1>3. MayRestart(k) => p \notin Plain
  BY DEF MayRestart, Restarts, Plain
<1>4. ASSUME NEW w \in {"none", "backoff", "forking"}, waiter' = [waiter EXCEPT ![k] = w],
             target' \in [Kids -> Kids \cup {None}], crashes' \in [Services -> 0..CrashBudget - 1],
             notices' \in Seq(Services),
             status' \in [Services -> {"absent", "scheduled", "running", "over"}],
             forks' \subseteq [by : Callers, slug : Services, spec : Nat]
      PROVE  TypeOK'
  BY <1>1, <1>4 DEF TypeOK
<1>5. CASE ExitIgnored(k) \/ ExitFinal(k) \/ GiveUp(k)
  <2>1. waiter' = [waiter EXCEPT ![k] = "none"] /\ target' = [target EXCEPT ![k] = None] /\ forks' = forks
    BY <1>5 DEF ExitIgnored, ExitFinal, GiveUp, Quit
  <2>2. /\ target' \in [Kids -> Kids \cup {None}] /\ \A j \in Kids \ {k} : target'[j] = target[j]
        /\ \A j \in Kids \ {k} : waiter'[j] = waiter[j]
    BY <2>1 DEF TypeOK
  <2>3. Shape'
    <3>1. waiter[k] = "waiting" /\ target[k] \notin alive /\ handle' = [handle EXCEPT ![k[1]] = None]
      BY <1>1
    <3> QED
      BY <1>1, <2>1, <2>2, <3>1, ShapeWaits
  <2>4. \A q \in Services : Forked(q)' <=> Forked(q)
    BY <2>1 DEF Forked
  <2>5. CASE ExitIgnored(k)
    <3>1. status[p] # "running" /\ UNCHANGED <<status, notices>>
      BY <2>5 DEF ExitIgnored
    <3>2. crashes' \in [Services -> 0..CrashBudget - 1]
      BY <1>1, <2>5, SupervisorAssumption DEF ExitIgnored, TypeOK
    <3>3. \A q \in Services : Noticed(q) => Noticed(q)'
      BY <3>1 DEF Noticed
    <3>4. TypeOK'
      BY <1>4, <2>1, <2>2, <3>1, <3>2 DEF TypeOK
    <3> QED
      BY <1>1, <1>2, <2>2, <2>3, <2>4, <3>1, <3>3, <3>4, RestWaits
  <2>6. CASE ExitFinal(k) \/ GiveUp(k)
    <3>1. Resolve(p)
      BY <2>6 DEF ExitFinal, GiveUp
    <3>2. crashes' \in [Services -> 0..CrashBudget - 1]
      <4>1. crashes' = crashes \/ crashes' = [crashes EXCEPT ![p] = 0]
        BY <2>6 DEF ExitFinal, GiveUp
      <4>2. 0 \in 0..CrashBudget - 1
        BY SupervisorAssumption
      <4> QED
        BY <1>1, <4>1, <4>2 DEF TypeOK
    <3>3. /\ status' \in [Services -> {"absent", "scheduled", "running", "over"}]
          /\ status'[p] = "over" /\ \A q \in Services \ {p} : status'[q] = status[q]
          /\ notices' \in Seq(Services)
          /\ \A q \in Services : Noticed(q) => Noticed(q)'
          /\ watcher.at # "off" => Noticed(p)'
      BY <1>1, <3>1, ResolveFacts DEF Shape
    <3>4. TypeOK'
      BY <1>4, <2>1, <2>2, <3>2, <3>3 DEF TypeOK
    <3> QED
      BY <1>1, <1>2, <2>2, <2>3, <2>4, <3>3, <3>4, RestWaits
  <2> QED
    BY <1>5, <2>5, <2>6
<1>6. CASE BackOff(k)
  <2>1. /\ MayRestart(k) /\ crashes[p] + 1 < CrashBudget /\ crashes' = [crashes EXCEPT ![p] = @ + 1]
        /\ waiter' = [waiter EXCEPT ![k] = "backoff"] /\ UNCHANGED <<status, notices, forks, target>>
    BY <1>6 DEF BackOff
  <2>2. \A j \in Kids \ {k} : waiter'[j] = waiter[j] /\ target'[j] = target[j]
    BY <2>1 DEF TypeOK
  <2>3. Shape'
    <3>1. waiter[k] = "waiting" /\ target[k] \notin alive /\ handle' = [handle EXCEPT ![k[1]] = None]
      BY <1>1
    <3>2. k[1] \notin Plain /\ target'[k] = target[k]
      BY <1>3, <2>1
    <3> QED
      BY <1>1, <2>1, <2>2, <3>1, <3>2, ShapeWaits
  <2>4. crashes' \in [Services -> 0..CrashBudget - 1]
    <3>1. crashes[p] \in 0..CrashBudget - 1 /\ crashes \in [Services -> 0..CrashBudget - 1]
      BY <1>1 DEF TypeOK
    <3>2. crashes[p] + 1 \in 0..CrashBudget - 1
      BY <2>1, <3>1, SupervisorAssumption
    <3> QED
      BY <2>1, <3>1, <3>2
  <2>5. TypeOK'
    BY <1>4, <2>1, <2>4 DEF TypeOK
  <2>6. waiter'[k] = "backoff" /\ status'[p] = "running"
    BY <2>1 DEF TypeOK, MayRestart
  <2>7. \A q \in Services : (Noticed(q) => Noticed(q)') /\ (Forked(q)' <=> Forked(q))
    BY <2>1 DEF Noticed, Forked
  <2> QED
    BY <1>1, <1>2, <1>3, <2>1, <2>2, <2>3, <2>5, <2>6, <2>7, RestWaits
<1>7. CASE RestartStable(k)
  <2>1. /\ MayRestart(k) /\ crashes' = [crashes EXCEPT ![p] = 0] /\ BeginStart(k, p, runs[target[k]])
        /\ waiter' = [waiter EXCEPT ![k] = "forking"] /\ UNCHANGED target
    BY <1>7 DEF RestartStable
  <2>2. \A j \in Kids \ {k} : waiter'[j] = waiter[j] /\ target'[j] = target[j]
    BY <2>1 DEF TypeOK
  <2>3. /\ forks' = forks \cup {[by |-> k, slug |-> p, spec |-> runs[target[k]]]}
        /\ forks' \subseteq [by : Callers, slug : Services, spec : Nat]
        /\ status' \in [Services -> {"absent", "scheduled", "running", "over"}]
        /\ notices' \in Seq(Services)
        /\ \A q \in Services : Noticed(q) => Noticed(q)'
        /\ \A q \in Services : q # p => status'[q] = status[q]
        /\ status'[p] # "running" => status'[p] = status[p]
    <3>1. k \in Callers
      BY DEF Callers
    <3> QED
      BY <1>1, <2>1, <3>1, StartFacts DEF Shape
  <2>4. Shape'
    <3>1. waiter[k] = "waiting" /\ target[k] \notin alive /\ handle' = [handle EXCEPT ![k[1]] = None]
      BY <1>1
    <3>2. k[1] \notin Plain /\ target'[k] = target[k]
      BY <1>3, <2>1
    <3>3. \E v \in Nat : forks' = forks \cup {[by |-> k, slug |-> k[1], spec |-> v]}
      BY <1>1, <2>3
    <3> QED
      BY <1>1, <2>1, <2>2, <3>1, <3>2, <3>3, ShapeWaits
  <2>5. crashes' \in [Services -> 0..CrashBudget - 1]
    BY <1>1, <2>1, SupervisorAssumption DEF TypeOK
  <2>6. TypeOK'
    BY <1>4, <2>1, <2>3, <2>5 DEF TypeOK
  <2>7. Forked(p)' /\ \A q \in Services : q # p => (Forked(q)' <=> Forked(q))
    BY <2>3, ForkAdded
  <2>8. status'[p] = "running"
    BY <2>1, <2>3 DEF MayRestart
  <2> QED
    BY <1>1, <1>2, <1>3, <2>1, <2>2, <2>3, <2>4, <2>6, <2>7, <2>8, RestWaits
<1> QED
  BY <1>5, <1>6, <1>7

\* The pause is over.
LEMMA BackoffDoneStep ==
    ASSUME IInv, NEW k \in Kids, BackoffDone(k)
    PROVE  IInv'
<1> USE DEF IInv
<1> DEFINE p == k[1]
<1>1. /\ waiter[k] = "backoff" /\ p \in Services /\ p \notin Plain /\ target[k] \in Kids
      /\ runs[target[k]] \in Nat
      /\ UNCHANGED <<handle, crashes, version, watcher, alive, signalled, runs, kernel, todo, awaited, writes, lives>>
  <2>1. waiter[k] = "backoff" /\ UNCHANGED <<handle, crashes>> /\ WaiterRest
    BY DEF BackoffDone
  <2>2. p \notin Plain
    BY <2>1 DEF Shape, PlainInv
  <2>3. target[k] \in Kids
    BY <2>1 DEF Shape, WaiterInv
  <2> QED
    BY <2>1, <2>2, <2>3, KidFacts DEF WaiterRest, phase, bounds, TypeOK
<1>2. CASE status[p] = "running" /\ ~Tracked(p)
  <2>1. /\ BeginStart(k, p, runs[target[k]])
        /\ waiter' = [waiter EXCEPT ![k] = "forking"] /\ UNCHANGED target
    BY <1>2 DEF BackoffDone
  <2>2. \A j \in Kids \ {k} : waiter'[j] = waiter[j] /\ target'[j] = target[j]
    BY <2>1 DEF TypeOK
  <2>3. /\ forks' = forks \cup {[by |-> k, slug |-> p, spec |-> runs[target[k]]]}
        /\ forks' \subseteq [by : Callers, slug : Services, spec : Nat]
        /\ status' \in [Services -> {"absent", "scheduled", "running", "over"}]
        /\ notices' \in Seq(Services)
        /\ \A q \in Services : Noticed(q) => Noticed(q)'
        /\ \A q \in Services : q # p => status'[q] = status[q]
        /\ status'[p] # "running" => status'[p] = status[p]
    <3>1. k \in Callers
      BY DEF Callers
    <3> QED
      BY <1>1, <2>1, <3>1, StartFacts DEF Shape
  <2>4. Shape'
    <3>1. waiter[k] = "backoff" /\ handle' = handle
      BY <1>1
    <3>2. k[1] \notin Plain /\ target'[k] = target[k]
      BY <1>1, <2>1
    <3>3. \E v \in Nat : forks' = forks \cup {[by |-> k, slug |-> k[1], spec |-> v]}
      BY <1>1, <2>3
    <3> QED
      BY <1>1, <2>1, <2>2, <3>1, <3>2, <3>3, ShapeWaits
  <2>5. TypeOK'
    BY <1>1, <2>1, <2>3 DEF TypeOK
  <2>6. Forked(p)' /\ \A q \in Services : q # p => (Forked(q)' <=> Forked(q))
    BY <2>3, ForkAdded
  <2>7. status'[p] = "running"
    BY <1>2, <2>3
  <2> QED
    BY <1>1, <2>2, <2>3, <2>4, <2>5, <2>6, <2>7, RestWaits
<1>3. CASE ~(status[p] = "running" /\ ~Tracked(p))
  <2>1. /\ waiter' = [waiter EXCEPT ![k] = "none"] /\ target' = [target EXCEPT ![k] = None]
        /\ UNCHANGED <<status, notices, forks>>
    BY <1>3 DEF BackoffDone, Quit
  <2>2. /\ target' \in [Kids -> Kids \cup {None}]
        /\ \A j \in Kids \ {k} : waiter'[j] = waiter[j] /\ target'[j] = target[j]
    BY <2>1 DEF TypeOK
  <2>3. Shape'
    <3>1. waiter[k] = "backoff" /\ handle' = handle
      BY <1>1
    <3> QED
      BY <1>1, <2>1, <2>2, <3>1, ShapeWaits
  <2>4. TypeOK'
    BY <1>1, <2>1, <2>2 DEF TypeOK
  <2>5. \A q \in Services : /\ (Noticed(q) => Noticed(q)') /\ (Forked(q)' <=> Forked(q))
                            /\ (Tracked(q)' <=> Tracked(q))
    BY <1>1, <2>1 DEF Noticed, Forked, Tracked
  <2> QED
    BY <1>1, <1>3, <2>1, <2>2, <2>3, <2>4, <2>5, RestWaits
<1> QED
  BY <1>2, <1>3

-----------------------------------------------------------------------------
(* The main loop, shutdown, crashes and boots. *)

\* Once a kernel has ended there is nothing to track.
LEMMA ForgetShape ==
    ASSUME TypeOK, Forget, watcher'.at = "off", lives' \in Nat, lives' = 0 => kernel' = "up"
    PROVE  /\ Shape' /\ CancelInv' /\ ServedInv'
           /\ handle' \in [Services -> Kids \cup {None}] /\ alive' \subseteq Kids /\ signalled' \subseteq alive'
           /\ waiter' \in [Kids -> {"none", "new", "waiting", "backoff", "forking"}]
           /\ target' \in [Kids -> Kids \cup {None}] /\ crashes' \in [Services -> 0..CrashBudget - 1]
           /\ forks' = {}
<1>1. /\ \A p \in Services : handle'[p] = None
      /\ alive' = {} /\ signalled' = {} /\ forks' = {}
      /\ \A k \in Kids : waiter'[k] = "none"
      /\ \A p \in Plain : p \in Services
  BY DEF Forget, Plain
<1>2. ForkInv' /\ WaiterInv' /\ HandleInv' /\ PhaseInv'
  BY <1>1 DEF ForkInv, WaiterInv, HandleInv, PhaseInv, Tracked
<1>3. PlainInv'
  BY <1>1 DEF PlainInv, Tracked, KidsOf, Plain
<1>4. CancelInv' /\ ServedInv'
  BY DEF CancelInv, ServedInv
<1>5. crashes' \in [Services -> 0..CrashBudget - 1]
  BY SupervisorAssumption DEF Forget
<1> QED
  BY <1>1, <1>2, <1>3, <1>4, <1>5 DEF Shape, Forget

LEMMA EndStep ==
    ASSUME IInv, Down \/ Crash \/ ResumeRaises
    PROVE  IInv'
<1> USE DEF IInv
<1>1. /\ Forget /\ kernel' = "down" /\ watcher'.at = "off"
      /\ UNCHANGED <<version, runs, writes>> /\ todo' \subseteq Services /\ awaited' \in Kids \cup {None}
      /\ lives' \in Nat /\ lives' # 0
  <2>1. CASE Down
    BY <2>1 DEF Down, phase, bounds, Shape, PhaseInv, TypeOK
  <2>2. CASE Crash
    BY <2>2 DEF Crash, TypeOK
  <2>3. CASE ResumeRaises
    BY <2>3 DEF ResumeRaises, bounds, Shape, PhaseInv, TypeOK
  <2> QED
    BY <2>1, <2>2, <2>3
<1>2. /\ watcher' \in {Idle, [at |-> "forking"], [at |-> "off"]} \cup {Stopping(k) : k \in Kids}
      /\ notices' \in Seq(Services)
  <2>1. CASE Down \/ Crash
    <3>1. watcher' = [at |-> "off"] /\ notices' = <<>>
      BY <2>1 DEF Down, Crash
    <3> QED
      BY <3>1
  <2>2. CASE ResumeRaises
    BY <2>2 DEF ResumeRaises, TypeOK
  <2> QED
    BY <2>1, <2>2
<1>3. status' \in [Services -> {"absent", "scheduled", "running", "over"}]
  <2>1. CASE Down
    BY <2>1 DEF Down, TypeOK
  <2>2. CASE Crash \/ ResumeRaises
    BY <2>2 DEF Crash, ResumeRaises, TypeOK
  <2> QED
    BY <2>1, <2>2
<1>4. /\ Shape' /\ CancelInv' /\ ServedInv'
      /\ handle' \in [Services -> Kids \cup {None}] /\ alive' \subseteq Kids /\ signalled' \subseteq alive'
      /\ waiter' \in [Kids -> {"none", "new", "waiting", "backoff", "forking"}]
      /\ target' \in [Kids -> Kids \cup {None}] /\ crashes' \in [Services -> 0..CrashBudget - 1]
      /\ forks' = {}
  BY <1>1, ForgetShape
<1>5. TypeOK'
  BY <1>1, <1>2, <1>3, <1>4 DEF TypeOK
<1> QED
  BY <1>4, <1>5

\* Shutdown and boot move on: children and waiters are left alone.
LEMMA PhaseStep ==
    ASSUME IInv,
           \/ ShutdownStopped \/ Boot \/ Booted
           \/ \E p \in Services : ShutdownStops(p)
    PROVE  IInv'
<1> USE DEF IInv
<1>1. /\ UNCHANGED <<status, version, notices, handle, alive, runs, waiter, target, crashes, forks, writes, lives>>
      /\ signalled' \subseteq alive /\ awaited' \in Kids \cup {None} /\ todo' \subseteq Services
      /\ kernel' \in {"up", "stopping", "down", "booting"}
  <2>1. CASE ShutdownStopped \/ Boot \/ Booted
    BY <2>1 DEF ShutdownStopped, Boot, Booted, TypeOK, children, bounds
  <2>2. ASSUME NEW p \in Services, ShutdownStops(p)
        PROVE  /\ UNCHANGED <<status, version, notices, handle, alive, runs, waiter, target, crashes, forks, writes, lives>>
               /\ signalled' \subseteq alive /\ awaited' \in Kids \cup {None} /\ todo' \subseteq Services
               /\ kernel' = kernel
    BY <2>2 DEF ShutdownStops, Signal, Tracked, TypeOK, bounds
  <2> QED
    BY <2>1, <2>2 DEF TypeOK
<1>2. \/ watcher' = watcher /\ kernel' = kernel
      \/ watcher' = watcher /\ kernel = "down" /\ kernel' = "booting"
      \/ watcher' = Idle /\ kernel = "booting" /\ kernel' = "up"
  BY DEF ShutdownStopped, Boot, Booted, ShutdownStops, children
<1>3. TypeOK'
  <2>1. watcher' \in {Idle, [at |-> "forking"], [at |-> "off"]} \cup {Stopping(k) : k \in Kids}
    BY <1>2 DEF TypeOK
  <2> QED
    BY <1>1, <2>1 DEF TypeOK
<1>4. kernel \in {"down", "booting"} => lives # 0 /\ watcher.at = "off"
  BY DEF Shape, PhaseInv
<1>5. kernel = "booting" => \A p \in Plain : KidsOf(p) = {} /\ ~Forked(p)
  <2>1. ASSUME kernel = "booting", NEW p \in Plain PROVE KidsOf(p) = {} /\ ~Forked(p)
    <3>1. KidsOf(p) = {}
      BY <2>1 DEF Shape, PlainInv
    <3>2. ~Forked(p)
      BY <1>4, <2>1 DEF Shape, ForkInv, Forked
    <3> QED
      BY <3>1, <3>2
  <2> QED
    BY <2>1
<1>6. ForkInv'
  BY <1>1, <1>2, <1>4 DEF Shape, ForkInv, Plain
<1>7. WaiterInv' /\ HandleInv' /\ PhaseInv'
  BY <1>1, <1>2, <1>4 DEF Shape, WaiterInv, HandleInv, PhaseInv, Tracked, Idle
<1>8. PlainInv'
  BY <1>1, <1>2, <1>4, <1>5 DEF Shape, PlainInv, Tracked, KidsOf, Plain
<1>9. CancelInv'
  BY <1>1, <1>2, <1>5 DEF CancelInv, Noticed, Forked, KidsOf, Plain
<1>10. ServedInv'
  BY <1>1, <1>2, <1>4 DEF ServedInv, Noticed, Forked, Tracked
<1> QED
  BY <1>3, <1>6, <1>7, <1>8, <1>9, <1>10 DEF Shape

\* The main loop and the boot fork for services that are not plain.
LEMMA CallerStep ==
    ASSUME IInv, NEW by \in {Task("main"), Task("boot")}, NEW p \in Services \ Plain,
           \A f \in forks : f.by # by, BeginStart(by, p, version[p]),
           UNCHANGED <<version, watcher, handle, alive, signalled, runs, waiter, target, crashes,
                       kernel, awaited, writes, lives>>,
           todo' \subseteq Services, lives # 0 \/ p \in Deferred
    PROVE  IInv'
<1> USE DEF IInv
<1>1. by \in Callers /\ version[p] \in Nat /\ by \notin Kids /\ by # Task("watcher")
  BY KidFacts DEF TypeOK, Callers, Task
<1>2. /\ forks' = forks \cup {[by |-> by, slug |-> p, spec |-> version[p]]}
      /\ forks' \subseteq [by : Callers, slug : Services, spec : Nat]
      /\ status' \in [Services -> {"absent", "scheduled", "running", "over"}]
      /\ notices' \in Seq(Services)
      /\ \A q \in Services : Noticed(q) => Noticed(q)'
      /\ \A q \in Services : q # p => status'[q] = status[q]
  BY <1>1, StartFacts DEF Shape
<1>3. TypeOK'
  BY <1>2 DEF TypeOK
<1>4. /\ \A g \in forks' : g \in forks \/ (g.by = by /\ g.slug = p)
      /\ \A g, h \in forks' : g.by = by /\ h.by = by => g = h
  BY <1>2
<1>5. ForkInv'
  <2>1. \A g, h \in forks' : g.by = h.by => g = h
    BY <1>4 DEF Shape, ForkInv
  <2>2. ASSUME NEW g \in forks'
        PROVE  /\ g.by \in Kids => waiter[g.by] = "forking" /\ g.by[1] = g.slug
               /\ g.by = Task("watcher") => watcher.at = "forking"
               /\ g.slug \in Plain => g.by = Task("watcher")
    <3>1. CASE g \in forks
      BY <3>1 DEF Shape, ForkInv
    <3>2. CASE g.by = by /\ g.slug = p
      BY <1>1, <3>2
    <3> QED
      BY <1>4, <3>1, <3>2
  <2> QED
    BY <2>1, <2>2 DEF ForkInv, Plain
<1>6. WaiterInv' /\ HandleInv' /\ PhaseInv'
  BY DEF Shape, WaiterInv, HandleInv, PhaseInv, Tracked
<1>7. PlainInv'
  <2>1. \A q \in Plain : \A g \in forks' : g.slug = q => g \in forks
    BY <1>4
  <2> QED
    BY <2>1 DEF Shape, PlainInv, Tracked, KidsOf, Plain
<1>8. \A q \in Services : q # p => (Forked(q)' <=> Forked(q))
  BY <1>2, ForkAdded
<1>9. CancelInv'
  <2>1. \A q \in Plain : q # p /\ q \in Services
    BY DEF Plain
  <2> QED
    BY <1>2, <1>8, <2>1 DEF CancelInv, KidsOf, Plain
<1>10. ServedInv'
  <2>1. \A q \in Services : Tracked(q)' <=> Tracked(q)
    BY DEF Tracked
  <2> QED
    BY <1>2, <1>8, <2>1 DEF ServedInv
<1> QED
  BY <1>3, <1>5, <1>6, <1>7, <1>9, <1>10 DEF Shape

\* Resolving at boot, and the cancelled main task's fork.
LEMMA LetGoStep ==
    ASSUME IInv, Shutdown \/ \E p \in Services : ResumeFails(p)
    PROVE  IInv'
<1> USE DEF IInv
<1>1. CASE Shutdown
  <2>1. /\ kernel' = "stopping" /\ lives' = lives + 1 /\ forks' = {f \in forks : f.by # Task("main")}
        /\ todo' = {p \in Services : Tracked(p)} /\ kernel = "up"
        /\ UNCHANGED <<status, version, notices, watcher, handle, alive, signalled, runs, waiter, target, crashes, awaited, writes>>
    BY <1>1 DEF Shutdown
  <2>2. TypeOK'
    BY <2>1 DEF TypeOK
  <2>3. lives' # 0
    BY <2>1 DEF TypeOK
  <2>4. ForkInv' /\ WaiterInv' /\ HandleInv' /\ PhaseInv'
    BY <2>1, <2>3 DEF Shape, ForkInv, WaiterInv, HandleInv, PhaseInv, Tracked, Plain
  <2>5. PlainInv'
    BY <2>1 DEF Shape, PlainInv, Tracked, KidsOf, Plain
  <2>6. CancelInv' /\ ServedInv'
    BY <2>1, <2>3 DEF CancelInv, ServedInv, Noticed, Forked, KidsOf, Plain
  <2> QED
    BY <2>2, <2>4, <2>5, <2>6 DEF Shape
<1>2. ASSUME NEW p \in Services, ResumeFails(p) PROVE IInv'
  <2>1. /\ kernel = "booting" /\ todo' = todo \ {p} /\ Resolve(p)
        /\ UNCHANGED <<version, watcher, children, kernel, awaited, writes, lives>>
    BY <1>2 DEF ResumeFails, Resuming, bounds
  <2>2. watcher.at = "off" /\ lives # 0
    BY <2>1 DEF Shape, PhaseInv
  <2>3. /\ status' \in [Services -> {"absent", "scheduled", "running", "over"}]
        /\ notices' \in Seq(Services)
    BY <2>1, ResolveFacts DEF Shape
  <2>4. TypeOK'
    BY <2>1, <2>3 DEF TypeOK, children
  <2>5. Shape'
    BY <2>1, ShapeStays DEF children
  <2>6. CancelInv' /\ ServedInv'
    BY <2>1, <2>2 DEF CancelInv, ServedInv
  <2> QED
    BY <2>4, <2>5, <2>6
<1> QED
  BY <1>1, <1>2

-----------------------------------------------------------------------------
(* The theorems. *)

\* Nothing runs and nothing is spawned ...
LEMMA InvInit == Init => IInv
<1> SUFFICES ASSUME Init PROVE IInv
  OBVIOUS
<1>1. TypeOK
  BY SupervisorAssumption DEF Init, TypeOK
<1>2. ForkInv /\ WaiterInv /\ HandleInv /\ PhaseInv
  BY DEF Init, ForkInv, WaiterInv, HandleInv, PhaseInv, Tracked
<1>3. PlainInv
  BY DEF Init, PlainInv, Tracked, KidsOf, Plain
<1>4. CancelInv /\ ServedInv
  BY DEF Init, CancelInv, ServedInv, KidsOf, Forked
<1> QED
  BY <1>1, <1>2, <1>3, <1>4 DEF IInv, Shape

\* ... and every step of every task preserves the invariant.
LEMMA InvNext == IInv /\ [Next]_vars => IInv'
<1> SUFFICES ASSUME IInv, [Next]_vars PROVE IInv'
  OBVIOUS
<1>1. CASE Writers
  BY <1>1, WriterStep DEF Writers
<1>2. CASE Watcher
  BY <1>2, WatchStartsStep, WatchStopsStep, WatchPassesStep DEF Watcher
<1>3. CASE ForkDone \/ ForkOrphans
  BY <1>3, ForkDoneStep, ForkOrphansStep
<1>4. ASSUME NEW k \in Kids, Exit(k) \/ AwaitExit(k) PROVE IInv'
  BY <1>4, ExitStep, WaiterBeginsStep, ReturnedStep, BackoffDoneStep DEF AwaitExit
<1>5. ASSUME NEW p \in Services, FireDeferred(p) PROVE IInv'
  <2>1. p \in Services \ Plain /\ p \in Deferred
    BY <1>5 DEF FireDeferred, Plain
  <2>2. /\ \A f \in forks : f.by # Task("main")
        /\ BeginStart(Task("main"), p, version[p]) /\ todo' \subseteq Services
        /\ UNCHANGED <<version, watcher, handle, alive, signalled, runs, waiter, target, crashes,
                       kernel, awaited, writes, lives>>
    BY <1>5 DEF FireDeferred, Forking, IInv, TypeOK, phase, bounds
  <2> QED
    BY <2>1, <2>2, CallerStep
<1>6. CASE ShuttingDown \/ Crash \/ Shutdown
  BY <1>6, PhaseStep, EndStep, LetGoStep DEF ShuttingDown
<1>7. ASSUME NEW p \in Services, ResumeForks(p) PROVE IInv'
  <2>1. p \in Services \ Plain
    BY <1>7 DEF ResumeForks, Plain
  <2>2. /\ \A f \in forks : f.by # Task("boot")
        /\ BeginStart(Task("boot"), p, version[p]) /\ todo' \subseteq Services
        /\ UNCHANGED <<version, watcher, handle, alive, signalled, runs, waiter, target, crashes,
                       kernel, awaited, writes, lives>>
    BY <1>7 DEF ResumeForks, Resuming, Forking, IInv, TypeOK, bounds
  <2>3. lives # 0
    BY <1>7 DEF ResumeForks, Resuming, IInv, Shape, PhaseInv
  <2> QED
    BY <2>1, <2>2, <2>3, CallerStep
<1>8. ASSUME NEW p \in Services, ResumeSkips(p) PROVE IInv'
  <2>1. /\ kernel = "booting" /\ todo' = todo \ {p}
        /\ UNCHANGED <<status, version, notices, watcher, handle, alive, signalled, runs, waiter, target,
                       crashes, forks, kernel, awaited, writes, lives>>
    BY <1>8 DEF ResumeSkips, Resuming, children, bounds
  <2>2. TypeOK' /\ Shape'
    BY <2>1, ShapeStays DEF IInv, TypeOK
  <2>3. CancelInv' /\ ServedInv'
    BY <2>1 DEF IInv, CancelInv, ServedInv, Noticed, Forked, Tracked, KidsOf, Plain
  <2> QED
    BY <2>2, <2>3 DEF IInv
<1>9. CASE Booting
  BY <1>7, <1>8, <1>9, PhaseStep, EndStep, LetGoStep DEF Booting
<1>10. CASE UNCHANGED vars
  <2> USE DEF vars, children, phase, bounds
  <2>1. TypeOK' /\ Shape'
    BY <1>10, ShapeStays DEF IInv, TypeOK
  <2>2. CancelInv' /\ ServedInv'
    BY <1>10 DEF IInv, CancelInv, ServedInv, Noticed, Forked, Tracked, KidsOf, Plain
  <2> QED
    BY <2>1, <2>2 DEF IInv
<1> QED
  BY <1>1, <1>2, <1>3, <1>4, <1>5, <1>6, <1>9, <1>10 DEF Next

\* However writers, watcher, waiters, main loop and kernel lives interleave.
THEOREM SupervisorInvCorrect == Spec => []IInv
BY InvInit, InvNext, PTL DEF Spec

\* Two children of a service that only the watcher starts never run at once,
\* although start awaits the fork between its test of _handles and its entry.
THEOREM OneChildCorrect == Spec => []OneChild
<1>1. IInv => OneChild
  <2> SUFFICES ASSUME IInv, NEW p \in Plain PROVE Cardinality(KidsOf(p)) <= 1
    BY DEF OneChild
  <2>1. \A k, j \in KidsOf(p) : k = j
    BY DEF IInv, Shape, PlainInv
  <2>2. CASE KidsOf(p) = {}
    BY <2>2, FS_EmptySet
  <2>3. CASE KidsOf(p) # {}
    <3>1. PICK k : k \in KidsOf(p)
      BY <2>3
    <3>2. KidsOf(p) = {k}
      BY <2>1, <3>1
    <3>3. Cardinality(KidsOf(p)) = 1
      BY <3>2, FS_Singleton
    <3> QED
      BY <3>3
  <2> QED
    BY <2>2, <2>3
<1> QED
  BY <1>1, SupervisorInvCorrect, PTL

\* A cancel that comes during the fork is not lost, nor is a respawn that
\* overtakes the stop of its predecessor.
THEOREM QuietCorrect == Spec => []QuietAgrees
<1>1. IInv => QuietAgrees
  <2> SUFFICES ASSUME IInv, Quiet PROVE /\ \A p \in Plain : status[p] # "running" => KidsOf(p) = {}
                                        /\ lives = 0 => \A p \in Services \ Deferred :
                                              status[p] = "running" => KidsOf(p) # {}
    BY DEF QuietAgrees
  <2>1. /\ \A p \in Services : ~Noticed(p) /\ ~Forked(p)
        /\ watcher.at = "idle" /\ \A k \in Kids : watcher # Stopping(k)
    BY DEF Quiet, Noticed, Forked, Idle, Stopping
  <2>2. ASSUME NEW p \in Plain, status[p] # "running" PROVE KidsOf(p) = {}
    <3>1. \A k \in KidsOf(p) : watcher = Stopping(k) /\ k \in Kids
      BY <2>1, <2>2 DEF IInv, CancelInv, Plain, KidsOf, TypeOK
    <3> QED
      BY <2>1, <3>1
  <2>3. ASSUME lives = 0, NEW p \in Services \ Deferred, status[p] = "running" PROVE KidsOf(p) # {}
    <3>1. Tracked(p)
      BY <2>1, <2>3 DEF IInv, ServedInv, Quiet
    <3>2. handle[p] \in Kids /\ handle[p][1] = p /\ waiter[handle[p]] \in {"new", "waiting"}
      BY <3>1 DEF IInv, TypeOK, Shape, HandleInv, Tracked
    <3>3. waiter[handle[p]] = "waiting" /\ target[handle[p]] \in alive
      BY <3>2 DEF Quiet
    <3>4. target[handle[p]][1] = p
      BY <3>2, <3>3 DEF IInv, Shape, WaiterInv
    <3> QED
      BY <3>3, <3>4 DEF KidsOf
  <2> QED
    BY <2>2, <2>3
<1> QED
  BY <1>1, SupervisorInvCorrect, PTL

\* Every table of the supervisor stays in its type.
THEOREM SupervisorTypeCorrect == Spec => []TypeOK
<1>1. IInv => TypeOK
  BY DEF IInv
<1> QED
  BY <1>1, SupervisorInvCorrect, PTL
=============================================================================
