---------------------------- MODULE TimersProofs ----------------------------
(***************************************************************************)
(* Proofs about Timers, for any procs, specs, horizon, writers and number  *)
(* of boots: a due time of a reminder nudges once, and while the watcher   *)
(* lives what an active spec asks for is in the heap or on its way there.  *)
(***************************************************************************)
EXTENDS Timers, TLAPS

\* The specs on disk are those the writers write.
SpecInv == \A p \in Procs : status[p] # "absent" => spec[p] \in SpecsOf[p]

\* One fork at a time, none for a reminder.
LoopInv ==
    /\ drainTo <= now
    /\ firing # {} => loop = "firing"
    /\ \A f, g \in firing : f = g
    /\ \A f \in firing : f.proc \notin Reminders

\* Something will wake the loop for what p wants at d: an entry for d, or,
\* as each fire of a cron arms the next one, an earlier entry of a cron.
Covers(p, d) ==
    \E t \in Time : /\ t <= d
                    /\ t = d \/ spec[p].sched = "cron"
                    /\ heap[p][t] > 0 \/ \E f \in firing : f.proc = p /\ t \in f.next

Wanted(p) == status[p] \in Active /\ Parses(spec[p])
Kept(p) == Wanted(p) => Noticed(p) \/ \A d \in Owed(p) : Covers(p, d)

\* Before the observer runs too: what is written then is in unseen.
KeptInv == loop \in Up /\ watcher # "dead" => \A p \in Procs \ unseen : Kept(p)

\* A reminder has one entry in the heap.
Single(p) ==
    \A t \in Time :
        /\ heap[p][t] <= 1
        /\ \A u \in Time : heap[p][t] > 0 /\ heap[p][u] > 0 => t = u

\* What fired is past, and with a schedule it is never armed again; with a
\* deadline the proc is resolved.
Undated(p) == \A s \in SpecsOf[p] : s.deadline = {}
FiredOnce(p) ==
    \A t \in Time :
        /\ fired[p][t] <= 1
        /\ fired[p][t] > 0 =>
              IF Undated(p) THEN t <= now /\ heap[p][t] = 0
              ELSE status[p] \in {"over", "absent"}

ReminderInv == \A p \in Reminders : Single(p) /\ FiredOnce(p)

IInv == TypeOK /\ SpecInv /\ LoopInv /\ KeptInv /\ ReminderInv

-----------------------------------------------------------------------------
(* Specs and the heap. *)

Words == {"absent", "partial", "scheduled", "running", "over"}
Heaps == [Procs -> [Time -> Nat]]

LEMMA TimeFacts == Time \subseteq Nat /\ 0 \in Time /\ \A t \in Time : t <= Horizon
BY TimersAssumption DEF Time

\* The next instant of a schedule is later, and there is at most one.
LEMMA NextFacts ==
    ASSUME NEW s \in SpecShape, NEW n \in Time
    PROVE  /\ NextFire(s, n) \subseteq Time
           /\ \A t \in NextFire(s, n) : t > n
           /\ \A t, u \in NextFire(s, n) : t = u
           /\ \A d \in NextFire(s, n + 1) : \E t \in NextFire(s, n) : t <= d
<1>1. s.at \subseteq Time
  BY DEF SpecShape
<1>2. \A t \in NextFire(s, n) : t \in s.at /\ t > n /\ \A u \in s.at : u > n => t <= u
  BY DEF NextFire
<1>3. \A t, u \in NextFire(s, n) : t = u
  <2> SUFFICES ASSUME NEW t \in NextFire(s, n), NEW u \in NextFire(s, n) PROVE t = u
    OBVIOUS
  <2>1. t <= u /\ u <= t /\ t \in Nat /\ u \in Nat
    BY <1>1, <1>2, TimeFacts
  <2> QED
    BY <2>1
<1>4. ASSUME NEW d \in NextFire(s, n + 1) PROVE \E t \in NextFire(s, n) : t <= d
  <2>1. d \in s.at /\ d > n + 1 /\ \A u \in s.at : u > n + 1 => d <= u
    BY DEF NextFire
  <2>2. n \in Nat /\ d \in Nat /\ \A u \in s.at : u \in Nat
    BY <1>1, <2>1, TimeFacts
  <2>3. CASE n + 1 \in s.at
    <3>1. n + 1 \in NextFire(s, n)
      BY <2>2, <2>3 DEF NextFire
    <3> QED
      BY <2>1, <2>2, <3>1
  <2>4. CASE n + 1 \notin s.at
    <3>1. \A u \in s.at : u > n => u > n + 1
      BY <2>2, <2>4
    <3>2. d \in NextFire(s, n)
      BY <2>1, <2>2, <3>1 DEF NextFire
    <3> QED
      BY <2>2, <3>2
  <2> QED
    BY <2>3, <2>4
<1> QED
  BY <1>1, <1>2, <1>3, <1>4

\* What a proc with a status file has on disk is one of its specs.
LEMMA SpecFacts ==
    ASSUME NEW p \in Procs, NEW s \in SpecsOf[p]
    PROVE  /\ s \in SpecShape
           /\ \A d, e \in s.deadline : d = e
           /\ s.sched \in {"none", "junk"} => s.at = {}
           /\ s.sched = "once" => \A t, u \in s.at : t = u
BY TimersAssumption

\* What arming puts into the heap: one instant, which covers what is owed.
LEMMA DueFacts ==
    ASSUME NEW p \in Procs, NEW s \in SpecsOf[p], NEW n \in Time
    PROVE  /\ Due(s, n) \subseteq Time
           /\ \A t, u \in Due(s, n) : t = u
           /\ s.deadline = {} => \A t \in Due(s, n) : t > n
<1>1. s \in SpecShape /\ \A d, e \in s.deadline : d = e
  BY SpecFacts
<1>2. s.deadline \subseteq Time
  BY <1>1 DEF SpecShape
<1> QED
  BY <1>1, <1>2, NextFacts DEF Due

LEMMA PushFacts ==
    ASSUME NEW h \in Heaps, NEW p \in Procs, NEW S
    PROVE  /\ Push(h, p, S) \in Heaps
           /\ \A q \in Procs \ {p} : Push(h, p, S)[q] = h[q]
           /\ \A t \in Time : Push(h, p, S)[p][t] = h[p][t] + (IF t \in S THEN 1 ELSE 0)
<1> DEFINE g == [t \in Time |-> h[p][t] + (IF t \in S THEN 1 ELSE 0)]
<1>1. g \in [Time -> Nat]
  BY DEF Heaps
<1>2. Push(h, p, S) = [h EXCEPT ![p] = g]
  BY DEF Push
<1>3. \A t \in Time : g[t] = h[p][t] + (IF t \in S THEN 1 ELSE 0)
  OBVIOUS
<1> HIDE DEF g
<1> QED
  BY <1>1, <1>2, <1>3 DEF Heaps

LEMMA PopFacts ==
    ASSUME NEW h \in Heaps, NEW p \in Procs, NEW t \in Time, h[p][t] > 0
    PROVE  /\ Pop(h, p, t) \in Heaps
           /\ \A q \in Procs \ {p} : Pop(h, p, t)[q] = h[q]
           /\ \A u \in Time \ {t} : Pop(h, p, t)[p][u] = h[p][u]
           /\ Pop(h, p, t)[p][t] = h[p][t] - 1
<1>1. h[p][t] - 1 \in Nat
  BY DEF Heaps
<1> QED
  BY <1>1 DEF Pop, Heaps

LEMMA RemoveFacts ==
    ASSUME NEW h \in Heaps, NEW p \in Procs
    PROVE  /\ RemoveAll(h, p) \in Heaps
           /\ \A q \in Procs \ {p} : RemoveAll(h, p)[q] = h[q]
           /\ \A t \in Time : RemoveAll(h, p)[p][t] = 0
BY DEF RemoveAll, Heaps, NoEntries

-----------------------------------------------------------------------------
(* Notices. *)

\* A notice is queued, or the proc is in unseen; nothing is taken from either.
LEMMA NotifyFacts ==
    ASSUME TypeOK, NEW p \in Procs, NEW file \in {"spec", "status"}, Notify(p, file)
    PROVE  /\ notices' \in Seq(Procs \X {"spec", "status"})
           /\ unseen \subseteq unseen' /\ unseen' \subseteq Procs
           /\ \A q \in Procs : Noticed(q) => Noticed(q)'
           /\ loop \in Up /\ watcher # "dead" => p \in unseen' \/ Noticed(p)'
<1>1. notices \in Seq(Procs \X {"spec", "status"})
  BY DEF TypeOK
<1>2. unseen \subseteq unseen' /\ unseen' \subseteq Procs /\ (loop \in Up /\ watcher # "on" => p \in unseen')
  BY DEF Notify, TypeOK
<1>3. CASE watcher = "on"
  <2>1. notices' = Append(notices, <<p, file>>)
    BY <1>3 DEF Notify
  <2>2. notices' \in Seq(Procs \X {"spec", "status"})
    BY <1>1, <2>1
  <2>3. /\ Len(notices') = Len(notices) + 1 /\ Len(notices) \in Nat
        /\ notices'[Len(notices) + 1] = <<p, file>>
        /\ \A i \in 1..Len(notices) : notices'[i] = notices[i]
    BY <1>1, <2>1
  <2>4. Noticed(p)' /\ \A q \in Procs : Noticed(q) => Noticed(q)'
    BY <2>3 DEF Noticed
  <2> QED
    BY <1>2, <2>2, <2>4
<1>4. CASE watcher # "on"
  BY <1>1, <1>2, <1>4 DEF Notify, Noticed
<1> QED
  BY <1>3, <1>4

\* The notice at the head is taken.
LEMMA HeadFacts ==
    ASSUME TypeOK, Watching, notices' = Tail(notices)
    PROVE  /\ Head(notices)[1] \in Procs /\ Head(notices)[2] \in {"spec", "status"}
           /\ notices' \in Seq(Procs \X {"spec", "status"})
           /\ \A q \in Procs : q # Head(notices)[1] /\ Noticed(q) => Noticed(q)'
<1>1. notices \in Seq(Procs \X {"spec", "status"}) /\ notices # <<>>
  BY DEF TypeOK, Watching
<1>2. Head(notices) \in Procs \X {"spec", "status"} /\ Head(notices) = notices[1]
  BY <1>1
<1>3. notices' \in Seq(Procs \X {"spec", "status"})
  BY <1>1
<1>4. /\ Len(notices) \in Nat /\ Len(notices') = Len(notices) - 1
      /\ \A i \in 1..Len(notices) : i # 1 => i - 1 \in 1..Len(notices') /\ notices'[i - 1] = notices[i]
  BY <1>1
<1> QED
  BY <1>2, <1>3, <1>4 DEF Noticed

-----------------------------------------------------------------------------
(* Steps that concern one proc. *)

LEMMA KeptSame ==
    ASSUME NEW p \in Procs, Kept(p), Noticed(p) => Noticed(p)',
           spec'[p] = spec[p], status'[p] = status[p] \/ status'[p] \notin Active, now' = now,
           \A t \in Time : heap[p][t] > 0 => heap'[p][t] > 0,
           \A f \in firing : f.proc = p => f \in firing'
    PROVE  Kept(p)'
<1> SUFFICES ASSUME Wanted(p)', ~Noticed(p)' PROVE \A d \in Owed(p)' : Covers(p, d)'
  BY DEF Kept
<1>1. Wanted(p) /\ ~Noticed(p) /\ Owed(p)' = Owed(p)
  BY DEF Wanted, Owed
<1>2. \A d \in Owed(p) : Covers(p, d)
  BY <1>1 DEF Kept
<1> QED
  BY <1>1, <1>2 DEF Covers

\* What fired stays so, whatever becomes of a proc that is resolved.
LEMMA ReminderSame ==
    ASSUME TypeOK, NEW p \in Procs, Single(p) /\ FiredOnce(p), heap'[p] = heap[p], fired'[p] = fired[p],
           now' = now \/ now' = now + 1, ~Undated(p) /\ status[p] \in {"over", "absent"} => status'[p] \in {"over", "absent"}
    PROVE  Single(p)' /\ FiredOnce(p)'
<1>1. now \in Nat /\ \A t \in Time : t \in Nat
  BY TimeFacts DEF TypeOK
<1>2. Single(p)'
  BY DEF Single
<1>3. FiredOnce(p)'
  BY <1>1 DEF FiredOnce, Undated
<1> QED
  BY <1>2, <1>3

\* The other procs are untouched.
LEMMA OneProc ==
    ASSUME IInv, NEW p \in Procs,
           \A q \in Procs \ {p} :
              /\ spec'[q] = spec[q] /\ status'[q] = status[q] /\ fired'[q] = fired[q] /\ heap'[q] = heap[q]
              /\ Noticed(q) => Noticed(q)'
              /\ q \in unseen => q \in unseen',
           now' = now, \A f \in firing : f \in firing' \/ f.proc = p,
           loop' \in Up => loop \in Up,
           watcher' # "dead" => watcher # "dead",
           loop' \in Up /\ watcher' # "dead" /\ p \notin unseen' => Kept(p)',
           p \in Reminders => Single(p)' /\ FiredOnce(p)'
    PROVE  KeptInv' /\ ReminderInv'
<1>1. ASSUME NEW q \in Procs \ {p}, loop' \in Up, watcher' # "dead", q \notin unseen' PROVE Kept(q)'
  <2>1. Kept(q)
    BY <1>1 DEF IInv, KeptInv
  <2> QED
    BY <2>1, KeptSame
<1>2. ASSUME NEW q \in Reminders \ {p} PROVE Single(q)' /\ FiredOnce(q)'
  <2>1. q \in Procs \ {p} /\ Single(q) /\ FiredOnce(q)
    BY <1>2 DEF IInv, ReminderInv, Reminders
  <2> QED
    BY <2>1, ReminderSame DEF IInv
<1> QED
  BY <1>1, <1>2 DEF KeptInv, ReminderInv

-----------------------------------------------------------------------------
(* Writers. *)

LEMMA StatusType ==
    ASSUME TypeOK, NEW p \in Procs, NEW w \in Words, status' = [status EXCEPT ![p] = w]
    PROVE  /\ status' \in [Procs -> Words] /\ status'[p] = w
           /\ \A q \in Procs \ {p} : status'[q] = status[q]
BY DEF TypeOK, Words

LEMMA SpecType ==
    ASSUME TypeOK, NEW p \in Procs, NEW s \in SpecShape, spec' = [spec EXCEPT ![p] = s]
    PROVE  /\ spec' \in [Procs -> SpecShape] /\ spec'[p] = s
           /\ \A q \in Procs \ {p} : spec'[q] = spec[q]
BY DEF TypeOK

\* Whatever others write: the watcher is told, or the proc is not active.
LEMMA WriterStep ==
    ASSUME IInv, NEW p \in Procs,
           \/ \E s \in SpecsOf[p] : SpawnSpec(p, s) \/ Rewrite(p, s)
           \/ SpawnStatus(p) \/ Cancel(p) \/ Remove(p) \/ ServiceExit(p)
    PROVE  IInv'
<1> USE DEF IInv
<1>1. UNCHANGED <<now, heap, watcher, loop, firing, drainTo, wakeAt>>
  BY DEF SpawnSpec, Rewrite, SpawnStatus, Cancel, Remove, ServiceExit, KernelIdle
<1>2. /\ notices' \in Seq(Procs \X {"spec", "status"}) /\ unseen \subseteq unseen' /\ unseen' \subseteq Procs
      /\ \A q \in Procs : Noticed(q) => Noticed(q)'
      /\ \/ loop \in Up /\ watcher # "dead" => p \in unseen' \/ Noticed(p)'
         \/ Remove(p)
  <2>1. CASE \E file \in {"spec", "status"} : Notify(p, file)
    BY <2>1, NotifyFacts
  <2>2. CASE Remove(p)
    BY <2>2 DEF Remove, TypeOK, Noticed
  <2> QED
    BY <2>1, <2>2 DEF SpawnSpec, Rewrite, SpawnStatus, Cancel, ServiceExit
<1>3. writes' \in Nat /\ boots' \in Nat
  BY DEF SpawnSpec, Rewrite, SpawnStatus, Cancel, Remove, ServiceExit, Write, bounds, TypeOK
<1>4. /\ spec' \in [Procs -> SpecShape] /\ \A q \in Procs \ {p} : spec'[q] = spec[q]
      /\ spec'[p] \in SpecsOf[p] \/ (spec'[p] = spec[p] /\ status[p] # "absent")
  <2>1. ASSUME NEW s \in SpecsOf[p], SpawnSpec(p, s) \/ Rewrite(p, s)
        PROVE  /\ spec' \in [Procs -> SpecShape] /\ \A q \in Procs \ {p} : spec'[q] = spec[q]
               /\ spec'[p] \in SpecsOf[p]
    <3>1. spec' = [spec EXCEPT ![p] = s] /\ s \in SpecShape
      BY <2>1, SpecFacts DEF SpawnSpec, Rewrite
    <3> QED
      BY <3>1, SpecType
  <2>2. CASE SpawnStatus(p) \/ Cancel(p) \/ Remove(p) \/ ServiceExit(p)
    BY <2>2 DEF SpawnStatus, Cancel, Remove, ServiceExit, TypeOK, Active
  <2> QED
    BY <2>1, <2>2
<1>5. /\ status' \in [Procs -> Words] /\ \A q \in Procs \ {p} : status'[q] = status[q]
      /\ status[p] \in {"over", "absent"} =>
            \/ status'[p] \in {"over", "absent"}
            \/ fired'[p] = NoEntries
      /\ Remove(p) => status'[p] = "absent"
  <2>1. CASE \E s \in SpecsOf[p] : SpawnSpec(p, s)
    <3>1. status' = [status EXCEPT ![p] = "partial"] /\ fired' = [fired EXCEPT ![p] = NoEntries]
          /\ status[p] = "absent"
      BY <2>1 DEF SpawnSpec
    <3> QED
      BY <3>1, StatusType DEF TypeOK, Words, Remove
  <2>2. CASE SpawnStatus(p)
    <3>1. PICK w \in {"scheduled", "running"} : status' = [status EXCEPT ![p] = w] /\ status[p] = "partial"
      BY <2>2 DEF SpawnStatus
    <3> QED
      BY <3>1, StatusType DEF Words, Remove
  <2>3. CASE Cancel(p) \/ ServiceExit(p)
    <3>1. status' = [status EXCEPT ![p] = "over"] /\ status[p] \in Active
      BY <2>3 DEF Cancel, ServiceExit, Active
    <3> QED
      BY <3>1, StatusType DEF Words, Remove, Active
  <2>4. CASE Remove(p)
    <3>1. status' = [status EXCEPT ![p] = "absent"]
      BY <2>4 DEF Remove
    <3> QED
      BY <3>1, StatusType DEF Words
  <2>5. CASE \E s \in SpecsOf[p] : Rewrite(p, s)
    <3>1. status' = status /\ status[p] # "absent"
      BY <2>5 DEF Rewrite
    <3>2. ~Remove(p)
      BY <2>5, SpecFacts DEF Rewrite, Remove, TypeOK
    <3> QED
      BY <3>1, <3>2 DEF TypeOK, Words
  <2> QED
    BY <2>1, <2>2, <2>3, <2>4, <2>5
<1>6. fired' = fired \/ fired' = [fired EXCEPT ![p] = NoEntries]
  BY DEF SpawnSpec, Rewrite, SpawnStatus, Cancel, Remove, ServiceExit
<1>7. /\ fired' \in [Procs -> [Time -> Nat]] /\ \A q \in Procs \ {p} : fired'[q] = fired[q]
      /\ fired'[p] = fired[p] \/ \A t \in Time : fired'[p][t] = 0
  <2>1. NoEntries \in [Time -> Nat] /\ \A t \in Time : NoEntries[t] = 0
    BY DEF NoEntries
  <2> HIDE DEF NoEntries
  <2> QED
    BY <1>6, <2>1 DEF TypeOK
<1>8. TypeOK'
  BY <1>1, <1>2, <1>3, <1>4, <1>5, <1>7 DEF TypeOK, Words
<1>9. SpecInv'
  BY <1>4, <1>5 DEF SpecInv
<1>10. LoopInv'
  BY <1>1 DEF LoopInv
<1>11. loop' \in Up /\ watcher' # "dead" /\ p \notin unseen' => Kept(p)'
  BY <1>1, <1>2, <1>5 DEF Kept, Wanted, Active
<1>12. p \in Reminders => Single(p)' /\ FiredOnce(p)'
  <2> SUFFICES ASSUME p \in Reminders PROVE Single(p)' /\ FiredOnce(p)'
    OBVIOUS
  <2>1. Single(p) /\ FiredOnce(p)
    BY DEF ReminderInv
  <2>2. Single(p)'
    BY <1>1, <2>1 DEF Single
  <2>3. CASE \A t \in Time : fired'[p][t] = 0
    BY <2>2, <2>3 DEF FiredOnce
  <2>4. CASE fired'[p] = fired[p] /\ ~ \A t \in Time : fired'[p][t] = 0
    <3>1. fired'[p] # NoEntries
      BY <2>4 DEF NoEntries
    <3>2. status[p] \in {"over", "absent"} => status'[p] \in {"over", "absent"}
      BY <1>5, <3>1
    <3> QED
      BY <1>1, <2>1, <2>4, <3>2, ReminderSame
  <2> QED
    BY <1>7, <2>3, <2>4
<1>13. KeptInv' /\ ReminderInv'
  BY <1>1, <1>2, <1>4, <1>5, <1>7, <1>11, <1>12, OneProc
<1> QED
  BY <1>8, <1>9, <1>10, <1>13

\* The clock: an instant that passes has its entry, and the next one of a
\* cron comes when that fires.
LEMMA TickStep ==
    ASSUME IInv, Tick
    PROVE  IInv'
<1> USE DEF IInv
<1>1. /\ now < Horizon /\ now' = now + 1 /\ now \in Nat
      /\ UNCHANGED <<spec, status, heap, notices, watcher, loop, firing, drainTo, wakeAt, unseen, fired, writes, boots>>
  BY TimeFacts DEF Tick, disk, bounds, TypeOK
<1>2. now' \in Time
  BY <1>1, TimersAssumption DEF Time
<1>3. TypeOK' /\ SpecInv'
  BY <1>1, <1>2 DEF TypeOK, SpecInv
<1>4. LoopInv'
  <2>1. drainTo \in Nat
    BY TimeFacts DEF TypeOK
  <2> QED
    BY <1>1, <2>1 DEF LoopInv
<1>5. ReminderInv'
  BY <1>1, ReminderSame DEF ReminderInv, Reminders
<1>6. ASSUME NEW p \in Procs, Kept(p) PROVE Kept(p)'
  <2> SUFFICES ASSUME Wanted(p), ~Noticed(p), NEW d \in Owed(p)' PROVE Covers(p, d)'
    BY <1>1 DEF Kept, Wanted, Noticed
  <2>0. spec[p] \in SpecsOf[p] /\ spec[p] \in SpecShape
    BY DEF SpecInv, Wanted, Active, TypeOK
  <2>1. \A e \in Owed(p) : Covers(p, e)
    BY <1>6 DEF Kept
  <2>2. CASE d \in Owed(p)
    BY <1>1, <2>1, <2>2 DEF Covers
  <2>3. CASE d \notin Owed(p)
    <3>1. d \in NextFire(spec[p], now + 1) /\ spec[p].deadline = {}
      BY <1>1, <2>3 DEF Owed
    <3>2. PICK e \in NextFire(spec[p], now) : e <= d
      BY <2>0, <3>1, NextFacts DEF TypeOK
    <3>3. e \in Owed(p) /\ e # d /\ e \in spec[p].at /\ d \in spec[p].at
      BY <2>3, <3>1, <3>2 DEF Owed, NextFire
    <3>4. spec[p].sched = "cron"
      BY <2>0, <3>3, SpecFacts DEF SpecShape
    <3>5. e \in Nat /\ d \in Nat
      BY <2>0, <3>3, TimeFacts DEF SpecShape
    <3>6. PICK t \in Time : /\ t <= e
                            /\ heap[p][t] > 0 \/ \E f \in firing : f.proc = p /\ t \in f.next
      BY <2>1, <3>3 DEF Covers
    <3>7. t <= d
      BY <3>2, <3>5, <3>6, TimeFacts
    <3> QED
      BY <1>1, <3>4, <3>6, <3>7 DEF Covers
  <2> QED
    BY <2>2, <2>3
<1>7. KeptInv'
  BY <1>1, <1>6 DEF KeptInv
<1> QED
  BY <1>3, <1>4, <1>5, <1>7

-----------------------------------------------------------------------------
(* The watcher. *)

\* After a removal the heap holds what the spec is due at, once.
LEMMA ArmFacts ==
    ASSUME TypeOK, NEW p \in Procs, NEW S \in SUBSET Time, \A t, u \in S : t = u,
           heap' = Push(RemoveAll(heap, p), p, S)
    PROVE  /\ heap' \in Heaps /\ \A q \in Procs \ {p} : heap'[q] = heap[q]
           /\ \A t \in Time : heap'[p][t] = IF t \in S THEN 1 ELSE 0
           /\ Single(p)'
<1>1. heap \in Heaps
  BY DEF TypeOK, Heaps
<1>2. /\ RemoveAll(heap, p) \in Heaps
      /\ \A q \in Procs \ {p} : RemoveAll(heap, p)[q] = heap[q]
      /\ \A t \in Time : RemoveAll(heap, p)[p][t] = 0
  BY <1>1, RemoveFacts
<1>3. /\ heap' \in Heaps /\ \A q \in Procs \ {p} : heap'[q] = heap[q]
      /\ \A t \in Time : heap'[p][t] = IF t \in S THEN 1 ELSE 0
  BY <1>2, PushFacts
<1>4. Single(p)'
  BY <1>3 DEF Single
<1> QED
  BY <1>3, <1>4

\* A proc whose entries are those of its spec is covered.
LEMMA ArmedKept ==
    ASSUME TypeOK', NEW p \in Procs, SpecInv',
           Wanted(p)' => \A t \in Due(spec'[p], now') : heap'[p][t] > 0
    PROVE  Kept(p)'
<1> SUFFICES ASSUME Wanted(p)', NEW d \in Owed(p)' PROVE Covers(p, d)'
  BY DEF Kept
<1>1. d \in Due(spec'[p], now')
  BY DEF Owed, Due
<1>2. spec'[p] \in SpecsOf[p]
  BY DEF Wanted, SpecInv, Active
<1>3. now' \in Time
  BY DEF TypeOK
<1>4. d \in Time /\ d \in Nat
  BY <1>1, <1>2, <1>3, DueFacts, TimeFacts
<1> QED
  BY <1>1, <1>4 DEF Covers

LEMMA WatcherStep ==
    ASSUME IInv, Watcher
    PROVE  IInv'
<1> USE DEF IInv
<1>1. /\ Watching /\ loop \in Up
      /\ UNCHANGED <<now, spec, status, loop, firing, drainTo, wakeAt, fired, writes, boots>>
      /\ notices' = Tail(notices) \/ (WatchRaises /\ notices' = <<>>)
  BY DEF Watcher, WatchArms, WatchDrops, WatchSkips, WatchRaises, WatchRest, disk, bounds, Watching, Up
<1>2. Head(notices)[1] \in Procs /\ watcher = "on"
  <2>1. notices \in Seq(Procs \X {"spec", "status"}) /\ notices # <<>>
    BY <1>1 DEF TypeOK, Watching
  <2>2. Head(notices) \in Procs \X {"spec", "status"}
    BY <2>1
  <2> QED
    BY <1>1, <2>2 DEF Watching
<1>p. PICK p \in Procs : p = Head(notices)[1]
  BY <1>2
<1>3. notices' \in Seq(Procs \X {"spec", "status"})
  <2>1. <<>> \in Seq(Procs \X {"spec", "status"})
    OBVIOUS
  <2> QED
    BY <1>1, <2>1, HeadFacts
<1>4. notices' = Tail(notices) => \A q \in Procs : q # p /\ Noticed(q) => Noticed(q)'
  BY <1>1, <1>p, HeadFacts
<1>5. SpecInv' /\ LoopInv'
  BY <1>1 DEF SpecInv, LoopInv
<1>6. status[p] # "absent" => spec[p] \in SpecsOf[p]
  BY <1>2 DEF SpecInv
<1>7. p \in Reminders => Single(p) /\ FiredOnce(p)
  BY DEF ReminderInv
<1>8. CASE WatchArms
  <2>1. /\ status[p] \in Active /\ heap' = Push(RemoveAll(heap, p), p, Due(spec[p], now))
        /\ unseen' = unseen \ {p} /\ notices' = Tail(notices) /\ watcher' = watcher
    BY <1>8, <1>p DEF WatchArms
  <2>2. /\ Due(spec[p], now) \subseteq Time /\ \A t, u \in Due(spec[p], now) : t = u
        /\ spec[p].deadline = {} => \A t \in Due(spec[p], now) : t > now
    BY <1>2, <1>6, <2>1, DueFacts DEF Active, TypeOK
  <2>3. /\ heap' \in Heaps /\ \A q \in Procs \ {p} : heap'[q] = heap[q]
        /\ \A t \in Time : heap'[p][t] = IF t \in Due(spec[p], now) THEN 1 ELSE 0
        /\ Single(p)'
    BY <1>2, <2>1, <2>2, ArmFacts
  <2>4. TypeOK'
    BY <1>1, <1>2, <1>3, <2>1, <2>3 DEF TypeOK, Heaps
  <2>5. Kept(p)'
    <3>1. \A t \in Due(spec[p], now) : heap'[p][t] > 0
      BY <2>2, <2>3
    <3>2. \A t \in Due(spec'[p], now') : heap'[p][t] > 0
      BY <1>1, <3>1
    <3> QED
      BY <1>2, <1>5, <2>4, <3>2, ArmedKept
  <2>6. ASSUME p \in Reminders PROVE FiredOnce(p)'
    <3> SUFFICES ASSUME NEW t \in Time, fired[p][t] > 0, Undated(p) PROVE t <= now /\ heap'[p][t] = 0
      BY <1>1, <1>2, <1>7, <2>6 DEF FiredOnce, Undated
    <3>1. t <= now /\ spec[p].deadline = {}
      BY <1>6, <1>7, <2>1, <2>6 DEF FiredOnce, Undated, Active
    <3>2. t \in Nat /\ now \in Nat
      BY TimeFacts DEF TypeOK
    <3> QED
      BY <2>2, <2>3, <3>1, <3>2
  <2>7. KeptInv' /\ ReminderInv'
    BY <1>1, <1>2, <1>4, <2>1, <2>3, <2>5, <2>6, OneProc
  <2> QED
    BY <1>5, <2>4, <2>7
<1>9. CASE WatchDrops
  <2>1. /\ status[p] \notin Active /\ heap' = RemoveAll(heap, p)
        /\ unseen' = unseen \ {p} /\ notices' = Tail(notices) /\ watcher' = watcher
    BY <1>9, <1>p DEF WatchDrops, Active
  <2>2. /\ heap' \in Heaps /\ \A q \in Procs \ {p} : heap'[q] = heap[q]
        /\ \A t \in Time : heap'[p][t] = 0
    <3>1. heap \in Heaps
      BY DEF TypeOK, Heaps
    <3> QED
      BY <2>1, <3>1, RemoveFacts
  <2>3. TypeOK'
    BY <1>1, <1>2, <1>3, <2>1, <2>2 DEF TypeOK, Heaps
  <2>4. Kept(p)'
    BY <1>1, <2>1 DEF Kept, Wanted
  <2>5. p \in Reminders => Single(p)' /\ FiredOnce(p)'
    BY <1>1, <1>7, <2>2 DEF Single, FiredOnce, Undated
  <2>6. KeptInv' /\ ReminderInv'
    BY <1>1, <1>2, <1>4, <2>1, <2>2, <2>4, <2>5, OneProc
  <2> QED
    BY <1>5, <2>3, <2>6
<1>10. CASE WatchSkips
  <2>1. /\ status[p] \notin Active /\ heap' = heap /\ unseen' = unseen
        /\ notices' = Tail(notices) /\ watcher' = watcher
    BY <1>10, <1>p DEF WatchSkips, Active
  <2>2. TypeOK'
    BY <1>1, <1>3, <2>1 DEF TypeOK
  <2>3. Kept(p)'
    BY <1>1, <2>1 DEF Kept, Wanted
  <2>4. p \in Reminders => Single(p)' /\ FiredOnce(p)'
    BY <1>1, <1>2, <1>7, <2>1, ReminderSame
  <2>5. KeptInv' /\ ReminderInv'
    BY <1>1, <1>2, <1>4, <2>1, <2>3, <2>4, OneProc
  <2> QED
    BY <1>5, <2>2, <2>5
<1>11. CASE WatchRaises
  <2>1. /\ heap' = RemoveAll(heap, p) /\ unseen' = unseen /\ watcher' = "dead"
    BY <1>11, <1>p DEF WatchRaises
  <2>2. /\ heap' \in Heaps /\ \A q \in Procs \ {p} : heap'[q] = heap[q]
        /\ \A t \in Time : heap'[p][t] = 0
    <3>1. heap \in Heaps
      BY DEF TypeOK, Heaps
    <3> QED
      BY <2>1, <3>1, RemoveFacts
  <2>3. TypeOK'
    BY <1>1, <1>3, <2>1, <2>2 DEF TypeOK, Heaps
  <2>4. p \in Reminders => Single(p)' /\ FiredOnce(p)'
    BY <1>1, <1>7, <2>2 DEF Single, FiredOnce, Undated
  <2>5. ASSUME NEW q \in Reminders \ {p} PROVE Single(q)' /\ FiredOnce(q)'
    <3>1. q \in Procs \ {p} /\ Single(q) /\ FiredOnce(q)
      BY <2>5 DEF ReminderInv, Reminders
    <3> QED
      BY <1>1, <2>2, <3>1, ReminderSame
  <2>6. KeptInv' /\ ReminderInv'
    BY <2>1, <2>4, <2>5 DEF KeptInv, ReminderInv
  <2> QED
    BY <1>5, <2>3, <2>6
<1> QED
  BY <1>8, <1>9, <1>10, <1>11 DEF Watcher

-----------------------------------------------------------------------------
(* The main loop handles an elapsed entry. *)

LEMMA ElapsedFacts ==
    ASSUME IInv, NEW p \in Procs, NEW t \in Time, Elapsed(p, t)
    PROVE  /\ heap[p][t] > 0 /\ t <= now /\ loop = "draining" /\ loop \in Up /\ firing = {}
           /\ t \in Nat /\ now \in Nat
           /\ Pop(heap, p, t) \in Heaps
           /\ \A q \in Procs \ {p} : Pop(heap, p, t)[q] = heap[q]
           /\ \A u \in Time \ {t} : Pop(heap, p, t)[p][u] = heap[p][u]
           /\ Pop(heap, p, t)[p][t] = heap[p][t] - 1
<1> USE DEF IInv
<1>1. heap[p][t] > 0 /\ loop = "draining" /\ t <= drainTo
  BY DEF Elapsed, Top
<1>2. t \in Nat /\ now \in Nat /\ drainTo \in Nat /\ drainTo <= now
  BY TimeFacts DEF TypeOK, LoopInv
<1>3. heap \in Heaps
  BY DEF TypeOK, Heaps
<1>4. firing = {}
  BY <1>1 DEF LoopInv
<1>5. t <= now /\ loop \in Up
  BY <1>1, <1>2 DEF Up
<1> QED
  BY <1>1, <1>2, <1>3, <1>4, <1>5, PopFacts

LEMMA FireFacts ==
    ASSUME TypeOK, NEW p \in Procs, NEW t \in Time, Fire(p, t)
    PROVE  /\ fired' \in [Procs -> [Time -> Nat]]
           /\ \A q \in Procs \ {p} : fired'[q] = fired[q]
           /\ \A u \in Time \ {t} : fired'[p][u] = fired[p][u]
           /\ fired'[p][t] = fired[p][t] + 1
<1>1. fired[p][t] + 1 \in Nat
  BY DEF TypeOK
<1> QED
  BY <1>1 DEF Fire, TypeOK

LEMMA ResolveFacts ==
    ASSUME TypeOK, NEW p \in Procs, Resolve(p)
    PROVE  /\ status' \in [Procs -> Words] /\ status'[p] = "over"
           /\ \A q \in Procs \ {p} : status'[q] = status[q]
           /\ notices' \in Seq(Procs \X {"spec", "status"})
           /\ unseen \subseteq unseen' /\ unseen' \subseteq Procs
           /\ \A q \in Procs : Noticed(q) => Noticed(q)'
<1>1. status' = [status EXCEPT ![p] = "over"] /\ Notify(p, "status")
  BY DEF Resolve
<1>2. "over" \in Words
  BY DEF Words
<1> QED
  BY <1>1, <1>2, StatusType, NotifyFacts

\* The entry of a reminder is taken: what it fired is not armed any more.
LEMMA PopReminder ==
    ASSUME IInv, NEW p \in Reminders, NEW t \in Time, Elapsed(p, t), heap' = Pop(heap, p, t), now' = now,
           \/ fired' = fired /\ status'[p] = status[p]
           \/ fired' = fired /\ status'[p] = "over"
           \/ Fire(p, t) /\ status[p] \in Active /\ status'[p] = "over"
    PROVE  Single(p)' /\ FiredOnce(p)'
<1> USE DEF IInv
<1>1. p \in Procs /\ Single(p) /\ FiredOnce(p)
  BY DEF ReminderInv, Reminders
<1>2. /\ heap[p][t] > 0 /\ t <= now
      /\ \A u \in Time \ {t} : heap'[p][u] = heap[p][u]
      /\ heap'[p][t] = heap[p][t] - 1
  BY <1>1, ElapsedFacts
<1>3. \A u \in Time : heap[p][u] \in Nat /\ fired[p][u] \in Nat
  BY <1>1 DEF TypeOK
<1>4. heap[p][t] <= 1
  BY <1>1 DEF Single
<1>5. heap'[p][t] = 0
  BY <1>2, <1>3, <1>4
<1>6. Single(p)'
  BY <1>1, <1>2, <1>5 DEF Single
<1>7. CASE fired' = fired
  <2>1. status[p] \in {"over", "absent"} => status'[p] \in {"over", "absent"}
    BY <1>7
  <2> SUFFICES ASSUME NEW u \in Time
               PROVE  /\ fired[p][u] <= 1
                      /\ fired[p][u] > 0 => IF Undated(p) THEN u <= now /\ heap'[p][u] = 0
                                            ELSE status'[p] \in {"over", "absent"}
    BY <1>6, <1>7 DEF FiredOnce, Undated
  <2>2. heap[p][u] = 0 => heap'[p][u] = 0
    BY <1>2, <1>5
  <2> QED
    BY <1>1, <2>1, <2>2 DEF FiredOnce
<1>8. CASE Fire(p, t) /\ status[p] \in Active /\ status'[p] = "over"
  <2>1. /\ \A u \in Time \ {t} : fired'[p][u] = fired[p][u]
        /\ fired'[p][t] = fired[p][t] + 1
    BY <1>1, <1>8, FireFacts
  <2>2. fired[p][t] = 0
    BY <1>1, <1>2, <1>3, <1>8 DEF FiredOnce, Active
  <2>3. \A u \in Time : fired'[p][u] <= 1
    BY <1>1, <2>1, <2>2 DEF FiredOnce
  <2>4. \A u \in Time : fired'[p][u] > 0 /\ Undated(p) => u <= now /\ heap'[p][u] = 0
    BY <1>1, <1>2, <1>5, <2>1 DEF FiredOnce
  <2> SUFFICES ASSUME NEW u \in Time
               PROVE  /\ fired'[p][u] <= 1
                      /\ fired'[p][u] > 0 => IF Undated(p) THEN u <= now /\ heap'[p][u] = 0
                                             ELSE status'[p] \in {"over", "absent"}
    BY <1>6 DEF FiredOnce, Undated
  <2> QED
    BY <1>8, <2>3, <2>4
<1> QED
  BY <1>6, <1>7, <1>8

\* A fire that leaves the proc resolved, or an entry of a proc that is not
\* active any more.
LEMMA PopEnds ==
    ASSUME IInv, NEW p \in Procs, NEW t \in Time,
           PopStale(p, t) \/ PopJunk(p, t) \/ OnceNudge(p, t) \/ Expire(p, t)
    PROVE  IInv'
<1> USE DEF IInv
<1>1. /\ Elapsed(p, t) /\ heap' = Pop(heap, p, t)
      /\ UNCHANGED <<now, spec, watcher, loop, firing, drainTo, wakeAt, writes, boots>>
  BY DEF PopStale, PopJunk, OnceNudge, Expire, Handling, PopRest, LoopRest
<1>2. \/ status[p] \notin Active /\ fired' = fired /\ UNCHANGED <<status, notices, unseen>>
      \/ status[p] \in Active /\ Resolve(p) /\ (fired' = fired \/ Fire(p, t))
  BY DEF PopStale, PopJunk, OnceNudge, Expire, Handling
<1>3. /\ heap' \in Heaps /\ \A q \in Procs \ {p} : heap'[q] = heap[q]
  BY <1>1, ElapsedFacts
<1>4. /\ status' \in [Procs -> Words] /\ \A q \in Procs \ {p} : status'[q] = status[q]
      /\ status'[p] \notin Active /\ (status[p] = "absent" => status'[p] = "absent")
      /\ notices' \in Seq(Procs \X {"spec", "status"})
      /\ unseen \subseteq unseen' /\ unseen' \subseteq Procs
      /\ \A q \in Procs : Noticed(q) => Noticed(q)'
      /\ status'[p] = status[p] \/ status'[p] = "over"
  <2>1. CASE Resolve(p) /\ status[p] \in Active
    BY <2>1, ResolveFacts DEF Active
  <2>2. CASE status[p] \notin Active /\ UNCHANGED <<status, notices, unseen>>
    BY <2>2 DEF TypeOK, Words, Noticed
  <2> QED
    BY <1>2, <2>1, <2>2
<1>5. fired' \in [Procs -> [Time -> Nat]] /\ \A q \in Procs \ {p} : fired'[q] = fired[q]
  BY <1>2, FireFacts DEF TypeOK
<1>6. TypeOK'
  BY <1>1, <1>3, <1>4, <1>5 DEF TypeOK, Words, Heaps
<1>7. SpecInv' /\ LoopInv'
  BY <1>1, <1>4 DEF SpecInv, LoopInv
<1>8. Kept(p)'
  BY <1>4 DEF Kept, Wanted
<1>9. p \in Reminders => Single(p)' /\ FiredOnce(p)'
  <2>1. CASE status[p] \in Active /\ Resolve(p) /\ (fired' = fired \/ Fire(p, t))
    <3>1. status'[p] = "over"
      BY <2>1, ResolveFacts
    <3> QED
      BY <1>1, <2>1, <3>1, PopReminder
  <2>2. CASE fired' = fired /\ UNCHANGED status
    BY <1>1, <2>2, PopReminder
  <2> QED
    BY <1>2, <2>1, <2>2
<1>10. KeptInv' /\ ReminderInv'
  BY <1>1, <1>3, <1>4, <1>5, <1>8, <1>9, OneProc
<1> QED
  BY <1>6, <1>7, <1>10

\* A cron that nudges: the popped entry is spent, the next one is later.
LEMMA CronNudgeStep ==
    ASSUME IInv, NEW p \in Procs, NEW t \in Time, CronNudge(p, t)
    PROVE  IInv'
<1> USE DEF IInv
<1> DEFINE h == Pop(heap, p, t)
<1>1. /\ Elapsed(p, t) /\ Fire(p, t) /\ status[p] \in Active /\ spec[p].sched = "cron"
      /\ heap' = Push(h, p, NextFire(spec[p], now))
      /\ UNCHANGED <<now, spec, status, notices, unseen, watcher, loop, firing, drainTo, wakeAt, writes, boots>>
  BY DEF CronNudge, Handling, PopRest, LoopRest
<1>2. /\ heap[p][t] > 0 /\ t <= now /\ t \in Nat /\ now \in Nat /\ now \in Time
      /\ h \in Heaps /\ \A q \in Procs \ {p} : h[q] = heap[q]
      /\ \A u \in Time \ {t} : h[p][u] = heap[p][u]
      /\ h[p][t] = heap[p][t] - 1
  BY <1>1, ElapsedFacts DEF TypeOK
<1> HIDE DEF h
<1>3. /\ heap' \in Heaps /\ \A q \in Procs \ {p} : heap'[q] = heap[q]
      /\ \A u \in Time : heap'[p][u] = h[p][u] + (IF u \in NextFire(spec[p], now) THEN 1 ELSE 0)
  BY <1>1, <1>2, PushFacts
<1>4. spec[p] \in SpecsOf[p] /\ spec[p] \in SpecShape
  BY <1>1 DEF SpecInv, TypeOK, Active
<1>5. /\ NextFire(spec[p], now) \subseteq Time
      /\ \A u \in NextFire(spec[p], now) : u > now
      /\ \A u, v \in NextFire(spec[p], now) : u = v
  BY <1>2, <1>4, NextFacts
<1>6. /\ fired' \in [Procs -> [Time -> Nat]]
      /\ \A q \in Procs \ {p} : fired'[q] = fired[q]
      /\ \A u \in Time \ {t} : fired'[p][u] = fired[p][u]
      /\ fired'[p][t] = fired[p][t] + 1
  BY <1>1, FireFacts
<1>7. TypeOK'
  BY <1>1, <1>3, <1>6 DEF TypeOK, Heaps
<1>8. SpecInv' /\ LoopInv'
  BY <1>1 DEF SpecInv, LoopInv
<1>9. Kept(p)'
  <2> SUFFICES ASSUME NEW d \in Owed(p)' PROVE Covers(p, d)'
    BY DEF Kept
  <2>1. d \in NextFire(spec[p], now)
    BY <1>1 DEF Owed
  <2>2. d \in Time /\ d \in Nat /\ h[p][d] \in Nat
    BY <1>2, <1>5, <2>1, TimeFacts DEF Heaps
  <2>3. heap'[p][d] > 0
    BY <1>3, <2>1, <2>2
  <2> QED
    BY <2>2, <2>3 DEF Covers
<1>10. ASSUME p \in Reminders PROVE Single(p)' /\ FiredOnce(p)'
  <2>1. Single(p) /\ FiredOnce(p)
    BY <1>10 DEF ReminderInv
  <2>2. Undated(p)
    BY <1>1, <1>4, <1>10 DEF Reminders, Undated
  <2>3. \A u \in Time : heap[p][u] \in Nat /\ fired[p][u] \in Nat /\ u \in Nat
    BY TimeFacts DEF TypeOK
  <2>4. \A u \in Time : h[p][u] = 0
    BY <1>2, <2>1, <2>3 DEF Single
  <2>5. \A u \in Time : heap'[p][u] = IF u \in NextFire(spec[p], now) THEN 1 ELSE 0
    BY <1>3, <2>4
  <2>6. Single(p)'
    BY <1>5, <2>5 DEF Single
  <2>7. fired[p][t] = 0
    BY <1>2, <2>1, <2>2, <2>3 DEF FiredOnce
  <2>8. ASSUME NEW u \in Time, fired'[p][u] > 0 PROVE fired'[p][u] <= 1 /\ u <= now /\ heap'[p][u] = 0
    <3>1. u <= now /\ fired'[p][u] <= 1
      BY <1>2, <1>6, <2>1, <2>2, <2>7, <2>8 DEF FiredOnce
    <3>2. u \notin NextFire(spec[p], now)
      BY <1>2, <1>5, <2>3, <3>1
    <3> QED
      BY <2>5, <3>1, <3>2
  <2>9. \A u \in Time : fired'[p][u] \in Nat
    BY <1>6
  <2>10. \A u \in Time : fired'[p][u] <= 1 /\ (fired'[p][u] > 0 => u <= now /\ heap'[p][u] = 0)
    BY <2>8, <2>9
  <2> QED
    BY <1>1, <2>2, <2>6, <2>10 DEF FiredOnce, Undated
<1>11. KeptInv' /\ ReminderInv'
  BY <1>1, <1>3, <1>6, <1>9, <1>10, OneProc DEF Noticed
<1> QED
  BY <1>7, <1>8, <1>11

\* A fork: the popped entry is spent; a cron holds the next one meanwhile,
\* and what a one-shot still owes is another entry.
LEMMA ForkStep ==
    ASSUME IInv, NEW p \in Procs, NEW t \in Time, CronRun(p, t) \/ OnceRun(p, t)
    PROVE  IInv'
<1> USE DEF IInv
<1>1. /\ Elapsed(p, t) /\ Fire(p, t) /\ status[p] \in Active /\ Parses(spec[p]) /\ spec[p].run
      /\ heap' = Pop(heap, p, t) /\ loop' = "firing"
      /\ UNCHANGED <<now, spec, watcher, drainTo, wakeAt, writes, boots>>
  BY DEF CronRun, OnceRun, Handling, PopRest, LoopRest
<1>2. /\ heap[p][t] > 0 /\ t <= now /\ t \in Nat /\ now \in Nat /\ now \in Time
      /\ loop \in Up /\ loop' \in Up /\ firing = {}
      /\ heap' \in Heaps /\ \A q \in Procs \ {p} : heap'[q] = heap[q]
      /\ \A u \in Time \ {t} : heap'[p][u] = heap[p][u]
  <2>1. loop' \in Up /\ now \in Time
    BY <1>1 DEF TypeOK, Up, Awaiting
  <2> QED
    BY <1>1, <2>1, ElapsedFacts
<1>3. spec[p] \in SpecsOf[p] /\ spec[p] \in SpecShape
  BY <1>1 DEF SpecInv, TypeOK, Active
<1>4. p \notin Reminders
  BY <1>1, <1>3 DEF Reminders
<1>5. /\ NextFire(spec[p], now) \subseteq Time
      /\ \A u \in NextFire(spec[p], now) : u > now
  BY <1>2, <1>3, NextFacts
<1>6. fired' \in [Procs -> [Time -> Nat]] /\ \A q \in Procs \ {p} : fired'[q] = fired[q]
  BY <1>1, FireFacts
<1>7. PICK S \in SUBSET Time : firing' = {[proc |-> p, next |-> S]}
  BY <1>5 DEF CronRun, OnceRun
<1>8. /\ status' \in [Procs -> Words] /\ \A q \in Procs \ {p} : status'[q] = status[q]
      /\ notices' \in Seq(Procs \X {"spec", "status"})
      /\ unseen \subseteq unseen' /\ unseen' \subseteq Procs
      /\ \A q \in Procs : Noticed(q) => Noticed(q)'
  <2>1. CASE CronRun(p, t)
    BY <2>1 DEF CronRun, TypeOK, Words, Noticed
  <2>2. CASE OnceRun(p, t)
    <3>1. status' = [status EXCEPT ![p] = "running"] /\ "running" \in Words
      BY <2>2 DEF OnceRun, Words
    <3>2. CASE Notify(p, "status")
      BY <3>1, <3>2, NotifyFacts, StatusType
    <3>3. CASE UNCHANGED <<notices, unseen>>
      <4>1. status' \in [Procs -> Words] /\ \A q \in Procs \ {p} : status'[q] = status[q]
        BY <3>1, StatusType
      <4> QED
        BY <3>3, <4>1 DEF TypeOK, Noticed
    <3> QED
      BY <2>2, <3>2, <3>3 DEF OnceRun
  <2> QED
    BY <2>1, <2>2
<1>9. TypeOK'
  <2>1. firing' \in SUBSET [proc : Procs, next : SUBSET Time]
    BY <1>7
  <2> QED
    BY <1>1, <1>2, <1>6, <1>8, <2>1 DEF TypeOK, Heaps, Words
<1>10. SpecInv'
  BY <1>1, <1>8 DEF SpecInv, Active
<1>11. LoopInv'
  BY <1>1, <1>4, <1>7 DEF LoopInv
<1>12. ASSUME watcher # "dead", p \notin unseen' PROVE Kept(p)'
  <2> SUFFICES ASSUME ~Noticed(p)', NEW d \in Owed(p)' PROVE Covers(p, d)'
    BY DEF Kept
  <2>1. d \in NextFire(spec[p], now) /\ spec[p].deadline = {} /\ d \in Owed(p)
    BY <1>1 DEF Owed, CronRun, OnceRun
  <2>2. d \in Time /\ d \in Nat /\ d > now
    BY <1>5, <2>1, TimeFacts
  <2>3. CASE CronRun(p, t)
    <3>1. firing' = {[proc |-> p, next |-> NextFire(spec[p], now)]}
      BY <2>3 DEF CronRun
    <3>2. \E f \in firing' : f.proc = p /\ d \in f.next
      BY <2>1, <3>1
    <3> QED
      BY <2>2, <3>2 DEF Covers
  <2>4. CASE OnceRun(p, t)
    <3>1. Kept(p) /\ ~Noticed(p) /\ Wanted(p)
      BY <1>1, <1>2, <1>8, <1>12 DEF KeptInv, Wanted
    <3>2. spec[p].sched = "once" /\ Covers(p, d)
      BY <2>1, <2>4, <3>1 DEF OnceRun, Kept
    <3>3. heap[p][d] > 0
      BY <1>2, <3>2 DEF Covers
    <3>4. heap'[p][d] > 0
      BY <1>2, <2>2, <3>3
    <3> QED
      BY <2>2, <3>4 DEF Covers
  <2> QED
    BY <2>3, <2>4
<1>13. KeptInv' /\ ReminderInv'
  BY <1>1, <1>2, <1>4, <1>6, <1>8, <1>12, OneProc
<1> QED
  BY <1>9, <1>10, <1>11, <1>13

\* The fork is over: what it held goes into the heap, or the proc is over.
LEMMA FireEnds ==
    ASSUME IInv, FireDone \/ FireFails
    PROVE  IInv'
<1> USE DEF IInv
<1>1. /\ loop = "firing" /\ loop' = "draining" /\ loop \in Up /\ firing' = {}
      /\ UNCHANGED <<now, spec, fired, watcher, drainTo, wakeAt, writes, boots>>
  BY DEF FireDone, FireFails, PopRest, LoopRest, Up, Awaiting
<1>2. PICK f \in firing :
          \/ /\ heap' = Push(heap, f.proc, f.next) /\ UNCHANGED <<status, notices, unseen>>
          \/ /\ heap' = heap
             /\ \/ status[f.proc] = "absent" /\ UNCHANGED <<status, notices, unseen>>
                \/ status[f.proc] # "absent" /\ Resolve(f.proc)
  BY DEF FireDone, FireFails
<1>p. PICK p \in Procs : p = f.proc
  BY DEF TypeOK
<1>3. f.next \subseteq Time /\ p \notin Reminders /\ \A g \in firing : g = f
  BY <1>p DEF TypeOK, LoopInv
<1>4. /\ status' \in [Procs -> Words] /\ \A q \in Procs \ {p} : status'[q] = status[q]
      /\ notices' \in Seq(Procs \X {"spec", "status"})
      /\ unseen \subseteq unseen' /\ unseen' \subseteq Procs
      /\ \A q \in Procs : Noticed(q) => Noticed(q)'
      /\ status[p] = "absent" => status'[p] = "absent"
  <2>1. CASE UNCHANGED <<status, notices, unseen>>
    BY <2>1 DEF TypeOK, Words, Noticed
  <2>2. CASE Resolve(p) /\ status[p] # "absent"
    BY <2>2, ResolveFacts
  <2> QED
    BY <1>2, <1>p, <2>1, <2>2
<1>5. heap \in Heaps
  BY DEF TypeOK, Heaps
<1>6. /\ heap' \in Heaps /\ \A q \in Procs \ {p} : heap'[q] = heap[q]
      /\ \A t \in Time : heap[p][t] > 0 => heap'[p][t] > 0
  <2>1. \A t \in Time : heap[p][t] \in Nat
    BY DEF TypeOK
  <2> QED
    BY <1>2, <1>p, <1>5, <2>1, PushFacts
<1>7. TypeOK'
  <2>1. loop' \in Up /\ firing' \in SUBSET [proc : Procs, next : SUBSET Time]
    BY <1>1 DEF Up
  <2> QED
    BY <1>1, <1>4, <1>6, <2>1 DEF TypeOK, Words, Heaps
<1>8. SpecInv' /\ LoopInv'
  <2>1. \A q \in Procs : status[q] = "absent" => status'[q] = "absent"
    BY <1>4
  <2> QED
    BY <1>1, <2>1 DEF SpecInv, LoopInv
<1>9. ASSUME watcher # "dead", p \notin unseen' PROVE Kept(p)'
  <2>1. Kept(p)
    BY <1>1, <1>4, <1>9 DEF KeptInv
  <2>2. CASE heap' = Push(heap, p, f.next) /\ UNCHANGED <<status, notices, unseen>>
    <3> SUFFICES ASSUME Wanted(p), ~Noticed(p), NEW d \in Owed(p) PROVE Covers(p, d)'
      BY <1>1, <2>2 DEF Kept, Wanted, Noticed, Owed
    <3>1. PICK t \in Time : /\ t <= d
                            /\ t = d \/ spec[p].sched = "cron"
                            /\ heap[p][t] > 0 \/ \E g \in firing : g.proc = p /\ t \in g.next
      BY <2>1 DEF Kept, Covers
    <3>2. heap'[p][t] > 0
      <4>1. CASE heap[p][t] > 0
        BY <1>6, <4>1
      <4>2. CASE t \in f.next
        <5>1. heap'[p][t] = heap[p][t] + 1 /\ heap[p][t] \in Nat
          BY <1>5, <2>2, <4>2, PushFacts DEF Heaps
        <5> QED
          BY <5>1
      <4> QED
        BY <1>3, <3>1, <4>1, <4>2
    <3> QED
      BY <1>1, <3>1, <3>2 DEF Covers
  <2>3. CASE status'[p] \notin Active
    BY <2>3 DEF Kept, Wanted
  <2>4. (heap' = Push(heap, p, f.next) /\ UNCHANGED <<status, notices, unseen>>) \/ status'[p] \notin Active
    BY <1>2, <1>p, ResolveFacts DEF Active
  <2> QED
    BY <2>2, <2>3, <2>4
<1>10. KeptInv' /\ ReminderInv'
  BY <1>1, <1>3, <1>p, <1>4, <1>6, <1>9, OneProc
<1> QED
  BY <1>7, <1>8, <1>10

\* The loop goes from one place to the next, or the observer starts.
LEMMA IdleStep ==
    ASSUME IInv, loop \in Up \ {"firing"}, loop' \in Up, drainTo' \in {drainTo, now},
           wakeAt' \in Time \cup {Never}, watcher' = watcher \/ (watcher = "off" /\ watcher' = "on"),
           UNCHANGED <<now, spec, status, heap, notices, firing, unseen, fired, writes, boots>>
    PROVE  IInv'
<1> USE DEF IInv
<1>1. TypeOK'
  BY DEF TypeOK
<1>2. LoopInv'
  <2>1. now \in Nat
    BY TimeFacts DEF TypeOK
  <2> QED
    BY <2>1 DEF LoopInv
<1>3. ASSUME NEW p \in Procs, Kept(p) PROVE Kept(p)'
  BY <1>3, KeptSame DEF Noticed
<1>4. KeptInv'
  BY <1>3 DEF KeptInv
<1>5. SpecInv' /\ ReminderInv'
  BY ReminderSame DEF SpecInv, ReminderInv, Reminders
<1> QED
  BY <1>1, <1>2, <1>4, <1>5

LEMMA LoopStep ==
    ASSUME IInv, Round \/ Sleep \/ WakeTimer \/ WakeEvent \/ Handled \/ Booted
    PROVE  IInv'
<1>1. /\ loop \in Up \ {"firing"} /\ loop' \in Up
      /\ UNCHANGED <<now, spec, status, heap, notices, watcher, firing, unseen, fired, writes, boots>>
  BY DEF Round, Sleep, WakeTimer, WakeEvent, Handled, Booted, Step, LoopRest, Up, Awaiting
<1>2. drainTo' \in {drainTo, now}
  BY DEF Round, Sleep, WakeTimer, WakeEvent, Handled, Booted, Step
<1>3. wakeAt' \in Time \cup {Never}
  BY DEF Round, Sleep, WakeTimer, WakeEvent, Handled, Booted, Step, IInv, TypeOK
<1> QED
  BY <1>1, <1>2, <1>3, IdleStep

-----------------------------------------------------------------------------
(* Lives. *)

\* A kernel that goes down keeps the files, and its heap is gone.
LEMMA DieStep ==
    ASSUME IInv, Crash \/ Shutdown
    PROVE  IInv'
<1> USE DEF IInv
<1>1. /\ loop' = "down" /\ heap' = [p \in Procs |-> NoEntries]
      /\ notices' = <<>> /\ firing' = {} /\ watcher' = "off" /\ boots' = boots + 1
      /\ UNCHANGED <<now, spec, drainTo, wakeAt, unseen, fired, writes>>
  BY DEF Crash, Shutdown, Die
<1>2. /\ status' \in [Procs -> Words]
      /\ \A p \in Procs : status'[p] = status[p] \/ (status[p] = "running" /\ status'[p] = "over")
  BY DEF Crash, Shutdown, TypeOK, Words
<1>3. heap' \in [Procs -> [Time -> Nat]] /\ \A p \in Procs, t \in Time : heap'[p][t] = 0
  BY <1>1 DEF NoEntries
<1>4. TypeOK'
  <2>1. <<>> \in Seq(Procs \X {"spec", "status"}) /\ boots' \in Nat
    BY <1>1 DEF TypeOK
  <2> QED
    BY <1>1, <1>2, <1>3, <2>1 DEF TypeOK, Words
<1>5. SpecInv' /\ LoopInv' /\ KeptInv'
  BY <1>1, <1>2 DEF SpecInv, LoopInv, KeptInv, Up, Awaiting
<1>6. ASSUME NEW p \in Reminders PROVE Single(p)' /\ FiredOnce(p)'
  <2>1. p \in Procs /\ FiredOnce(p)
    BY DEF ReminderInv, Reminders
  <2>2. status[p] \in {"over", "absent"} => status'[p] \in {"over", "absent"}
    BY <1>2, <2>1
  <2> QED
    BY <1>1, <1>3, <2>1, <2>2 DEF Single, FiredOnce, Undated
<1> QED
  BY <1>4, <1>5, <1>6 DEF ReminderInv

\* rebuild_from_proc arms every active spec once, at an instant to come.
LEMMA BootStep ==
    ASSUME IInv, Boot
    PROVE  IInv'
<1> USE DEF IInv
<1>1. /\ loop \notin Up /\ loop' = "booting" /\ unseen' = {}
      /\ heap' = [p \in Procs |-> [t \in Time |->
                    IF status[p] \in Active /\ t \in Due(spec[p], now) THEN 1 ELSE 0]]
      /\ UNCHANGED <<now, spec, status, notices, watcher, firing, drainTo, wakeAt, fired, writes, boots>>
  BY DEF Boot, BootRest, disk, bounds, Up, Awaiting
<1>2. /\ heap' \in [Procs -> [Time -> Nat]]
      /\ \A p \in Procs, t \in Time :
            heap'[p][t] = IF status[p] \in Active /\ t \in Due(spec[p], now) THEN 1 ELSE 0
  BY <1>1
<1>3. TypeOK'
  <2>1. loop' \in Up /\ unseen' \subseteq Procs
    BY <1>1 DEF Up, Awaiting
  <2> QED
    BY <1>1, <1>2, <2>1 DEF TypeOK
<1>4. SpecInv'
  BY <1>1 DEF SpecInv
<1>5. LoopInv'
  BY <1>1 DEF LoopInv, Up, Awaiting
<1>6. ASSUME NEW p \in Procs, status[p] \in Active
      PROVE  /\ Due(spec[p], now) \subseteq Time /\ \A t, u \in Due(spec[p], now) : t = u
             /\ spec[p].deadline = {} => \A t \in Due(spec[p], now) : t > now
             /\ spec[p] \in SpecsOf[p]
  <2>1. spec[p] \in SpecsOf[p] /\ now \in Time
    BY <1>6 DEF SpecInv, TypeOK, Active
  <2> QED
    BY <2>1, DueFacts
<1>7. ASSUME NEW p \in Procs PROVE Kept(p)'
  <2>1. Wanted(p)' => \A t \in Due(spec'[p], now') : heap'[p][t] > 0
    BY <1>1, <1>2, <1>6 DEF Wanted
  <2> QED
    BY <1>3, <1>4, <2>1, ArmedKept
<1>8. ASSUME NEW p \in Reminders PROVE Single(p)' /\ FiredOnce(p)'
  <2>1. p \in Procs /\ FiredOnce(p)
    BY DEF ReminderInv, Reminders
  <2>2. Single(p)'
    <3>1. \A t \in Time : heap'[p][t] <= 1 /\ (heap'[p][t] > 0 => status[p] \in Active /\ t \in Due(spec[p], now))
      BY <1>2, <2>1
    <3> QED
      BY <1>6, <2>1, <3>1 DEF Single
  <2>3. ASSUME NEW t \in Time, fired[p][t] > 0, Undated(p) PROVE heap'[p][t] = 0
    <3>1. t <= now /\ t \in Nat /\ now \in Nat
      BY <2>1, <2>3, TimeFacts DEF FiredOnce, TypeOK
    <3>2. status[p] \in Active => t \notin Due(spec[p], now)
      BY <1>6, <2>1, <2>3, <3>1 DEF Undated
    <3> QED
      BY <1>2, <2>1, <3>2
  <2> QED
    BY <1>1, <2>1, <2>2, <2>3 DEF FiredOnce, Undated
<1> QED
  BY <1>3, <1>4, <1>5, <1>7, <1>8 DEF KeptInv, ReminderInv

LEMMA BootRaisesStep ==
    ASSUME IInv, BootRaises
    PROVE  IInv'
<1> USE DEF IInv
<1>1. /\ loop = "down" /\ loop' = "failed"
      /\ UNCHANGED <<now, spec, status, heap, notices, watcher, firing, drainTo, wakeAt, unseen, fired, writes, boots>>
  BY DEF BootRaises, BootRest, disk, bounds
<1>2. TypeOK' /\ SpecInv' /\ LoopInv' /\ KeptInv'
  BY <1>1 DEF TypeOK, SpecInv, LoopInv, KeptInv, Up, Awaiting
<1>3. ReminderInv'
  BY <1>1, ReminderSame DEF ReminderInv, Reminders
<1> QED
  BY <1>2, <1>3

-----------------------------------------------------------------------------
(* The theorems. *)

LEMMA InvInit == Init => IInv
<1> SUFFICES ASSUME Init PROVE IInv
  OBVIOUS
<1>1. /\ 0 \in Time /\ Horizon + 1 = Never
      /\ NoEntries \in [Time -> Nat] /\ \A t \in Time : NoEntries[t] = 0
  BY TimeFacts DEF NoEntries, Never
<1> HIDE DEF NoEntries
<1>2. TypeOK
  <2>1. [sched |-> "none", at |-> {}, deadline |-> {}, run |-> FALSE] \in SpecShape
    BY DEF SpecShape
  <2>2. <<>> \in Seq(Procs \X {"spec", "status"}) /\ {} \in SUBSET [proc : Procs, next : SUBSET Time]
    OBVIOUS
  <2> QED
    BY <1>1, <2>1, <2>2 DEF Init, TypeOK, Up, Awaiting
<1>3. SpecInv /\ LoopInv
  BY DEF Init, SpecInv, LoopInv
<1>4. KeptInv
  BY DEF Init, KeptInv, Kept, Wanted, Active
<1>5. ReminderInv
  BY <1>1 DEF Init, ReminderInv, Reminders, Single, FiredOnce
<1> QED
  BY <1>2, <1>3, <1>4, <1>5 DEF IInv

LEMMA InvNext == IInv /\ [Next]_vars => IInv'
<1> SUFFICES ASSUME IInv, [Next]_vars PROVE IInv'
  OBVIOUS
<1>1. CASE Writers
  BY <1>1, WriterStep, TickStep DEF Writers
<1>2. CASE Watcher
  BY <1>2, WatcherStep
<1>3. CASE HandleTimer
  BY <1>3, PopEnds, CronNudgeStep, ForkStep DEF HandleTimer
<1>4. CASE FireDone \/ FireFails
  BY <1>4, FireEnds
<1>5. CASE Round \/ Sleep \/ WakeTimer \/ WakeEvent \/ Handled \/ Booted
  BY <1>5, LoopStep
<1>6. CASE StartObserver
  <2>1. /\ loop \in Up /\ watcher = "off" /\ watcher' = "on"
        /\ UNCHANGED <<now, spec, status, heap, notices, loop, firing, drainTo, wakeAt, unseen, fired, writes, boots>>
    BY <1>6 DEF StartObserver, Up, disk, bounds
  <2>2. TypeOK' /\ SpecInv' /\ LoopInv'
    BY <2>1 DEF IInv, TypeOK, SpecInv, LoopInv
  <2>3. KeptInv'
    BY <2>1, KeptSame DEF IInv, KeptInv, Noticed
  <2>4. ReminderInv'
    BY <2>1, ReminderSame DEF IInv, ReminderInv, Reminders
  <2> QED
    BY <2>2, <2>3, <2>4 DEF IInv
<1>7. CASE Crash \/ Shutdown \/ Boot \/ BootRaises
  BY <1>7, DieStep, BootStep, BootRaisesStep
<1>8. CASE UNCHANGED vars
  <2>1. UNCHANGED <<now, spec, status, heap, notices, watcher, loop, firing, drainTo, wakeAt, unseen, fired, writes, boots>>
    BY <1>8 DEF vars, disk, bounds
  <2>2. TypeOK' /\ SpecInv' /\ LoopInv'
    BY <2>1 DEF IInv, TypeOK, SpecInv, LoopInv
  <2>3. KeptInv'
    BY <2>1, KeptSame DEF IInv, KeptInv, Noticed
  <2>4. ReminderInv'
    BY <2>1, ReminderSame DEF IInv, ReminderInv, Reminders
  <2> QED
    BY <2>2, <2>3, <2>4 DEF IInv
<1> QED
  BY <1>1, <1>2, <1>3, <1>4, <1>5, <1>6, <1>7, <1>8 DEF Next, MainLoop, Lives

\* The invariant of the timer heap: whatever the writers write and whenever
\* the kernel stops, what the watcher and the main loop leave in the heap
\* covers what the specs on disk want, and a reminder is armed once.
THEOREM TimersInvCorrect == Spec => []IInv
<1>1. Init => IInv
  BY InvInit
<1>2. IInv /\ [Next]_vars => IInv'
  BY InvNext
<1> QED
  BY <1>1, <1>2, PTL DEF Spec

\* Every variable of the timers keeps its type: no entry of the heap is
\* popped twice (its count never falls below zero).
THEOREM TimersTypeCorrect == Spec => []TypeOK
<1>1. IInv => TypeOK
  BY DEF IInv
<1> QED
  BY <1>1, TimersInvCorrect, PTL

\* A due time of a reminder nudges its PAI at most once: what fired is past
\* and not in the heap, and neither the watcher nor a boot arms the past.
THEOREM NoDoubleFireCorrect == Spec => []NoDoubleFire
<1>1. IInv => NoDoubleFire
  BY DEF IInv, ReminderInv, FiredOnce, NoDoubleFire
<1> QED
  BY <1>1, TimersInvCorrect, PTL

\* While the watcher lives, an active spec that parses has an entry no later
\* than it asks for, or a notice in the queue, or its fork is under way.
THEOREM TimerKeptCorrect == Spec => []TimerKept
<1>1. IInv => TimerKept
  <2> SUFFICES ASSUME IInv, loop \in Up, watcher = "on", NEW p \in Procs \ unseen, Wanted(p),
                      ~Noticed(p), ~ \E f \in firing : f.proc = p, NEW d \in Owed(p)
               PROVE  \E t \in Time : t <= d /\ heap[p][t] > 0
    BY DEF TimerKept, Wanted
  <2>1. Covers(p, d)
    BY DEF IInv, KeptInv, Kept
  <2> QED
    BY <2>1 DEF Covers
<1> QED
  BY <1>1, TimersInvCorrect, PTL
=============================================================================
