-------------------------- MODULE NudgeTurnsProofs --------------------------
(***************************************************************************)
(* Proofs about NudgeTurns, for every set of PAIs and of messages: who     *)
(* holds a turn, where a message is, and that the messages of the turns    *)
(* are those of the mailbox.                                               *)
(***************************************************************************)
EXTENDS NudgeTurns, TLAPS

\* A call is inside _nudge_locked, or on its way out of it.
InTurn == Suspended \cup {"replied", "failed"}

\* Whoever is inside a turn holds the slug lock of the PAI it runs.
HolderInv == \A c \in Calls : pc[c] \in InTurn => slugHolder[Target(c)] = c

\* A nested nudge exists only while its caller waits for it.
NestInv == \A t \in Tasks : pc[<<t, 1>>] # "off" => pc[<<t, 0>>] = "escalate"

\* A message is in at most one place before a turn takes it: unsent, in the
\* spool, queued for the one PAI it addresses, or carried by its own nudge.
FreshOf(m) ==
    /\ m \notin sent =>
          /\ m \notin spool /\ pc[<<m, 0>>] = "off"
          /\ \A p \in PAIs : m \notin live[p] /\ m \notin history[p]
          /\ \A c \in Calls : m \notin conv[c]
    /\ m \in spool => pc[<<m, 0>>] = "off" /\ \A p \in PAIs : m \notin live[p]
    /\ \A p \in PAIs : m \in live[p] => pc[<<m, 0>>] = "off" /\ To[m] = p

FreshInv == \A m \in Msgs : FreshOf(m)

IInv == TypeOK /\ FreshInv /\ HolderInv /\ NestInv /\ WindowHasTurn /\ NoRedelivery

-----------------------------------------------------------------------------
(* Facts about calls and lock queues. *)

\* A call is a pair of a task and its depth, outer or nested in its failure.
LEMMA CallFacts ==
    ASSUME NEW c \in Calls
    PROVE  /\ c[1] \in Tasks /\ c[2] \in {0, 1} /\ c = <<c[1], c[2]>>
           /\ Target(c) \in PAIs /\ Home(c[1]) \in PAIs
           /\ Outer(c) \in Calls /\ Nested(c) \in Calls
           /\ c[2] = 0 => Target(c) = Home(c[1]) /\ c = Outer(c)
           /\ c[2] = 1 => Target(c) = Root /\ c = Nested(c)
  BY NudgeAssumption DEF Calls, Tasks, Home, Target, Outer, Nested

\* The calls of a task: its own, and the nudge of root nested in it.
LEMMA TaskFacts ==
    ASSUME NEW t \in Tasks
    PROVE  /\ <<t, 0>> \in Calls /\ <<t, 1>> \in Calls /\ Home(t) \in PAIs
           /\ Target(<<t, 0>>) = Home(t) /\ Target(<<t, 1>>) = Root
           /\ Innermost(t) \in {<<t, 0>>, <<t, 1>>} /\ Innermost(t) \in Calls
  BY NudgeAssumption DEF Calls, Tasks, Home, Target, Innermost

\* Nobody is neither a call nor a task.
LEMMA NoneFacts == None \notin Calls /\ None \notin Tasks \cup {Reload}
  BY NudgeAssumption DEF Calls, Tasks

\* Leaving a lock's queue leaves a queue.
LEMMA LeaveType ==
    ASSUME NEW S, NEW q \in Seq(S), NEW i \in DOMAIN q
    PROVE  Leave(q, i) \in Seq(S)
  <1>1. i \in 1..Len(q)
    OBVIOUS
  <1>2. SubSeq(q, 1, i - 1) \in Seq(S)
    BY <1>1
  <1>3. SubSeq(q, i + 1, Len(q)) \in Seq(S)
    BY <1>1
  <1> QED BY <1>2, <1>3 DEF Leave

-----------------------------------------------------------------------------
\* The first state is well typed.
LEMMA TypeInit == Init => TypeOK
  BY NudgeAssumption DEF Init, TypeOK, PCs

\* Waiting at the end of a lock's queue, and being served from its head.
LEMMA QueueType ==
    ASSUME NEW S, NEW q \in Seq(S), NEW x \in S
    PROVE  /\ Append(q, x) \in Seq(S)
           /\ q # <<>> => Tail(q) \in Seq(S)
  OBVIOUS

\* So is the state in which an attempt has begun ...
LEMMA BeginType ==
    ASSUME TypeOK, NEW c \in Calls, NEW k \in {"compact", "main"}, Begin(c, k)
    PROVE  /\ pc' \in [Calls -> PCs]
           /\ kind' \in [Calls -> {"compact", "main"}]
           /\ attempt' \in [Calls -> {0, 1}]
           /\ conv' \in [Calls -> SUBSET Msgs]
           /\ opener' \in [PAIs -> Calls \cup {None}]
  <1>1. Opening(c) \subseteq Msgs
    BY DEF Opening
  <1> QED BY <1>1, CallFacts DEF TypeOK, Begin, PCs, Suspended

\* ... the window of a turn was closed ...
LEMMA CloseType ==
    ASSUME TypeOK, NEW c \in Calls, CloseWindow(c)
    PROVE  /\ spool' \subseteq Msgs
           /\ opener' \in [PAIs -> Calls \cup {None}]
           /\ live' \in [PAIs -> SUBSET Msgs]
  BY CallFacts DEF TypeOK, CloseWindow

\* ... a conversation was saved ...
LEMMA SaveType ==
    ASSUME TypeOK, NEW c \in Calls, Save(c)
    PROVE  /\ history' \in [PAIs -> SUBSET Msgs]
           /\ conv' \in [Calls -> SUBSET Msgs]
  BY CallFacts DEF TypeOK, Save

\* ... or a nudge has become a task.
LEMMA DispatchType ==
    ASSUME TypeOK, NEW t \in Tasks, Dispatch(t)
    PROVE  /\ pc' \in [Calls -> PCs]
           /\ waiting' \in [PAIs -> Seq(Tasks \cup {Reload})]
  <1>1. Append(waiting[Home(t)], t) \in Seq(Tasks \cup {Reload})
    <2>1. waiting[Home(t)] \in Seq(Tasks \cup {Reload})
      BY TaskFacts DEF TypeOK
    <2> QED BY <2>1
  <1>2. pc' \in [Calls -> PCs]
    BY TaskFacts DEF TypeOK, Dispatch, PCs
  <1> QED BY <1>1, <1>2, TaskFacts DEF TypeOK, Dispatch

\* The main loop's handlers keep the types.
LEMMA TypeHandlers ==
    ASSUME TypeOK,
           \/ \E m \in Msgs : Send(m) \/ Deliver(m)
           \/ \E p \in Beating : FireHeartbeat(p)
           \/ \E p \in PAIs : Interrupt(p)
           \/ StartReload \/ ReloadStep
    PROVE  TypeOK'
  <1> USE DEF TypeOK, calls, window, locks, KernelVars
  <1>1. CASE \E m \in Msgs : Send(m)
    BY <1>1 DEF Send
  <1>2. ASSUME NEW m \in Msgs, Deliver(m) PROVE TypeOK'
    <2>1. m \in Tasks /\ To[m] \in PAIs /\ Home(m) = To[m] /\ <<m, 0>> \in Calls
      BY NudgeAssumption DEF Tasks, Home, Calls
    <2>2. live' \in [PAIs -> SUBSET Msgs]
      <3>1. live[To[m]] \cup {m} \in SUBSET Msgs
        BY <2>1
      <3>2. \/ live' = [live EXCEPT ![To[m]] = live[To[m]] \cup {m}]
            \/ live' = live
        BY <1>2 DEF Deliver
      <3> QED BY <2>1, <3>1, <3>2
    <2>3. pc' \in [Calls -> PCs] /\ waiting' \in [PAIs -> Seq(Tasks \cup {Reload})]
      BY <1>2, <2>1, DispatchType DEF Deliver
    <2> QED BY <1>2, <2>2, <2>3 DEF Deliver
  <1>3. ASSUME NEW p \in Beating, FireHeartbeat(p) PROVE TypeOK'
    <2>1. p \in Tasks /\ p \in PAIs
      BY NudgeAssumption DEF Tasks
    <2>2. pc' \in [Calls -> PCs] /\ waiting' \in [PAIs -> Seq(Tasks \cup {Reload})]
      BY <1>3, <2>1, DispatchType DEF FireHeartbeat
    <2> QED BY <1>3, <2>1, <2>2 DEF FireHeartbeat
  <1>4. CASE \E p \in PAIs : Interrupt(p)
    BY <1>4 DEF Interrupt, Active
  <1>5. CASE StartReload
    BY <1>5 DEF StartReload
  <1>6. CASE Drained
    BY <1>6 DEF Drained
  <1>7. CASE ReloadDone
    BY <1>7 DEF ReloadDone
  <1>8. CASE DrainTimeout
    <2>1. PICK p \in PAIs : \E i \in DOMAIN waiting[p] :
             waiting' = [waiting EXCEPT ![p] = Leave(@, i)]
      BY <1>8 DEF DrainTimeout
    <2>2. waiting' \in [PAIs -> Seq(Tasks \cup {Reload})]
      BY <2>1, LeaveType
    <2> QED BY <1>8, <2>2 DEF DrainTimeout
  <1>9. CASE \E p \in PAIs : DrainNext(p)
    BY <1>9 DEF DrainNext
  <1>10. CASE \E p \in PAIs : DrainAcquire(p)
    BY <1>10 DEF DrainAcquire
  <1> QED BY <1>1, <1>2, <1>3, <1>4, <1>5, <1>6, <1>7, <1>8, <1>9, <1>10 DEF ReloadStep

\* The steps of a nudge task keep the types.
LEMMA TypeTurn ==
    ASSUME TypeOK, NEW c \in Calls, Turn(c)
    PROVE  TypeOK'
  <1> USE CallFacts DEF TypeOK, calls, window, locks, PCs, Suspended, Leaving
  <1>1. CASE AcquireSlug(c)
    <2>1. PICK k \in {"compact", "main"} : Begin(c, k)
      BY <1>1 DEF AcquireSlug
    <2>2. /\ pc' \in [Calls -> PCs] /\ kind' \in [Calls -> {"compact", "main"}]
          /\ attempt' \in [Calls -> {0, 1}] /\ conv' \in [Calls -> SUBSET Msgs]
          /\ opener' \in [PAIs -> Calls \cup {None}]
      BY <2>1, BeginType
    <2>3. slugWaiting[Target(c)] \in Seq(Calls) /\ slugWaiting[Target(c)] # <<>>
      BY <1>1 DEF AcquireSlug
    <2>4. Tail(slugWaiting[Target(c)]) \in Seq(Calls)
      BY <2>3, QueueType
    <2>5. slugWaiting' \in [PAIs -> Seq(Calls)]
      BY <1>1, <2>4 DEF AcquireSlug
    <2>6. slugHolder' \in [PAIs -> Calls \cup {None}]
      BY <1>1 DEF AcquireSlug
    <2> QED BY <1>1, <2>2, <2>5, <2>6 DEF AcquireSlug
  <1>2. CASE DrainInjected(c)
    BY <1>2 DEF DrainInjected
  <1>3. CASE Reply(c)
    BY <1>3, CloseType, SaveType DEF Reply
  <1>4. CASE ReviewDone(c)
    BY <1>4, SaveType DEF ReviewDone
  <1>5. CASE RetryableError(c)
    <2>1. Opening(c) \subseteq Msgs
      BY DEF Opening
    <2> QED BY <1>5, <2>1 DEF RetryableError
  <1>6. CASE BackoffDone(c)
    BY <1>6 DEF BackoffDone
  <1>7. CASE FailQuietly(c)
    BY <1>7, CloseType DEF FailQuietly
  <1>8. CASE Escalate(c)
    <2>1. Append(slugWaiting[Root], Nested(c)) \in Seq(Calls)
      BY NudgeAssumption
    <2> QED BY <1>8, <2>1 DEF Escalate
  <1> QED BY <1>1, <1>2, <1>3, <1>4, <1>5, <1>6, <1>7, <1>8 DEF Turn

\* The end of a turn, of a nested nudge, or of a delay keeps the types.
LEMMA TypeReturn ==
    ASSUME TypeOK, NEW c \in Calls, Return(c)
    PROVE  TypeOK'
  <1> USE CallFacts DEF TypeOK, calls, window, locks
  <1>1. CASE AfterCompact(c)
    BY <1>1, BeginType DEF AfterCompact
  <1>2. CASE OverclockRound(c)
    BY <1>2, BeginType DEF OverclockRound
  <1>3. CASE EndTask(c)
    BY <1>3 DEF EndTask, Forget, PCs
  <1>4. CASE EndNested(c)
    BY <1>4, CloseType DEF EndNested, Forget, PCs, Leaving
  <1> QED BY <1>1, <1>2, <1>3, <1>4 DEF Return

\* Taking the kernel's lock keeps the types.
LEMMA AcquireKernelType ==
    ASSUME TypeOK, NEW t \in Tasks, AcquireKernel(t)
    PROVE  TypeOK'
  <1> DEFINE p == Home(t)
  <1>1. /\ p \in PAIs /\ <<t, 0>> \in Calls
        /\ waiting[p] \in Seq(Tasks \cup {Reload}) /\ slugWaiting[p] \in Seq(Calls)
    BY TaskFacts DEF TypeOK
  <1>2. Tail(waiting[p]) \in Seq(Tasks \cup {Reload})
    <2>1. waiting[p] # <<>>
      BY DEF AcquireKernel
    <2> HIDE DEF p
    <2> QED BY <1>1, <2>1
  <1>3. Append(slugWaiting[p], <<t, 0>>) \in Seq(Calls)
    BY <1>1, QueueType
  <1>4. waiting' \in [PAIs -> Seq(Tasks \cup {Reload})]
    BY <1>1, <1>2 DEF AcquireKernel, TypeOK
  <1>5. slugWaiting' \in [PAIs -> Seq(Calls)]
    BY <1>1, <1>3 DEF AcquireKernel, TypeOK
  <1> QED BY <1>1, <1>4, <1>5 DEF AcquireKernel, TypeOK, PCs, window

\* Leaving a lock's queue on cancellation keeps the types.
LEMMA CancelWaitingType ==
    ASSUME TypeOK, NEW t \in Tasks, CancelWaiting(t)
    PROVE  TypeOK'
  <1> DEFINE c == Innermost(t)
             p == Target(c)
  <1>1. c \in Calls /\ p \in PAIs
    BY TaskFacts, CallFacts
  <1>2. waiting[p] \in Seq(Tasks \cup {Reload}) /\ slugWaiting[p] \in Seq(Calls)
    BY <1>1 DEF TypeOK
  <1>3. /\ \A i \in DOMAIN waiting[p] : Leave(waiting[p], i) \in Seq(Tasks \cup {Reload})
        /\ \A i \in DOMAIN slugWaiting[p] : Leave(slugWaiting[p], i) \in Seq(Calls)
    BY <1>2, LeaveType
  <1>4. waiting' \in [PAIs -> Seq(Tasks \cup {Reload})]
    <2>1. \/ waiting' = waiting
          \/ \E i \in DOMAIN waiting[p] :
                waiting' = [waiting EXCEPT ![p] = Leave(waiting[p], i)]
      BY DEF CancelWaiting
    <2>2. waiting \in [PAIs -> Seq(Tasks \cup {Reload})]
      BY DEF TypeOK
    <2> HIDE DEF c, p
    <2> QED BY <1>1, <1>3, <2>1, <2>2
  <1>5. slugWaiting' \in [PAIs -> Seq(Calls)]
    <2>1. \/ slugWaiting' = slugWaiting
          \/ \E i \in DOMAIN slugWaiting[p] :
                slugWaiting' = [slugWaiting EXCEPT ![p] = Leave(slugWaiting[p], i)]
      BY DEF CancelWaiting
    <2> HIDE DEF c, p
    <2> QED BY <1>1, <1>3, <2>1 DEF TypeOK
  <1> QED BY <1>1, <1>4, <1>5 DEF CancelWaiting, TypeOK, PCs, Leaving, window

\* What the lock grants and the delivery of a cancel() keep.
LEMMA TypeTask ==
    ASSUME TypeOK, NEW t \in Tasks, AcquireKernel(t) \/ Cancel(t)
    PROVE  TypeOK'
  <1>1. Innermost(t) \in Calls
    BY TaskFacts
  <1>2. CASE CancelTurn(t)
    BY <1>1, <1>2, CloseType, SaveType DEF CancelTurn, TypeOK, PCs, Leaving, locks
  <1>3. CASE CancelDelay(t)
    BY <1>1, <1>3, CloseType, CallFacts DEF CancelDelay, TypeOK, PCs, Leaving, locks
  <1> QED BY <1>2, <1>3, AcquireKernelType, CancelWaitingType DEF Cancel

\* Every step keeps the types.
LEMMA TypeNext == TypeOK /\ [Next]_vars => TypeOK'
  <1> SUFFICES ASSUME TypeOK, [Next]_vars PROVE TypeOK'
    OBVIOUS
  <1>1. CASE UNCHANGED vars
    BY <1>1 DEF TypeOK, vars, calls, window, locks
  <1>2. CASE Next
    BY <1>2, TypeHandlers, TypeTurn, TypeReturn, TypeTask DEF Next
  <1> QED BY <1>1, <1>2

\* Every variable of the kernel model keeps its type: lock queues hold only
\* tasks, windows are opened only by calls, attempts stay within range(2).
THEOREM TypeCorrect == Spec => []TypeOK
  BY TypeInit, TypeNext, PTL DEF Spec

-----------------------------------------------------------------------------
\* A call enters and leaves its turn together with the slug lock.
LEMMA HolderTurn ==
    ASSUME IInv, NEW c \in Calls, Turn(c) \/ Return(c)
    PROVE  HolderInv'
  <1> USE CallFacts, NoneFacts DEF IInv, TypeOK, calls, window, locks, HolderInv, NestInv, InTurn, Suspended
  <1>1. CASE AcquireSlug(c)
    BY <1>1 DEF AcquireSlug, Begin
  <1>2. CASE DrainInjected(c)
    BY <1>2 DEF DrainInjected
  <1>3. CASE Reply(c)
    BY <1>3 DEF Reply, CloseWindow, Save
  <1>4. CASE ReviewDone(c)
    BY <1>4 DEF ReviewDone, Save
  <1>5. CASE RetryableError(c)
    BY <1>5 DEF RetryableError
  <1>6. CASE BackoffDone(c)
    BY <1>6 DEF BackoffDone
  <1>7. CASE FailQuietly(c)
    BY <1>7 DEF FailQuietly, CloseWindow
  <1>8. CASE Escalate(c)
    BY <1>8 DEF Escalate
  <1>9. CASE AfterCompact(c)
    BY <1>9 DEF AfterCompact, Begin
  <1>10. CASE OverclockRound(c)
    BY <1>10 DEF OverclockRound, Begin
  <1>11. CASE EndTask(c)
    BY <1>11 DEF EndTask, Ends, Forget
  <1>12. CASE EndNested(c)
    <2>1. pc[Outer(c)] = "escalate" /\ Outer(c) # c
      BY <1>12 DEF EndNested, Ends, NestInv, Outer
    <2>2. /\ pc' = [pc EXCEPT ![c] = "off", ![Outer(c)] = IF pc[c] = "unwind" THEN "unwind" ELSE "failed"]
          /\ slugHolder' = [slugHolder EXCEPT ![Root] = IF @ = c THEN None ELSE @]
      BY <1>12 DEF EndNested
    <2>3. slugHolder[Target(Outer(c))] = Outer(c)
      BY <2>1
    <2> QED BY <2>1, <2>2, <2>3, NudgeAssumption
  <1> QED BY <1>1, <1>2, <1>3, <1>4, <1>5, <1>6, <1>7, <1>8, <1>9, <1>10, <1>11, <1>12 DEF Turn, Return

\* A call that is neither idle nor waiting for its nested nudge may move
\* anywhere without leaving a nested nudge without its caller.
LEMMA NestMove ==
    ASSUME TypeOK, NestInv, NEW c \in Calls, pc[c] \notin {"off", "escalate"}, NEW v,
           pc' = [pc EXCEPT ![c] = v]
    PROVE  NestInv'
  <1> SUFFICES ASSUME NEW t \in Tasks, pc'[<<t, 1>>] # "off" PROVE pc'[<<t, 0>>] = "escalate"
    BY DEF NestInv
  <1>1. <<t, 0>> \in Calls /\ <<t, 1>> \in Calls /\ <<t, 0>> # <<t, 1>>
    BY TaskFacts
  <1>2. pc[<<t, 1>>] # "off" => pc[<<t, 0>>] = "escalate"
    BY DEF NestInv
  <1>3. CASE c = <<t, 1>>
    BY <1>1, <1>2, <1>3 DEF TypeOK
  <1>4. CASE c # <<t, 1>>
    BY <1>1, <1>2, <1>4 DEF TypeOK
  <1> QED BY <1>3, <1>4

\* A nested nudge starts when its caller escalates, and ends before it.
LEMMA NestTurn ==
    ASSUME IInv, NEW c \in Calls, Turn(c) \/ Return(c)
    PROVE  NestInv'
  <1> USE CallFacts, NestMove DEF IInv, calls
  <1>1. CASE AcquireSlug(c)
    BY <1>1 DEF AcquireSlug, Begin
  <1>2. CASE DrainInjected(c)
    BY <1>2 DEF DrainInjected, NestInv
  <1>3. CASE Reply(c)
    BY <1>3 DEF Reply
  <1>4. CASE ReviewDone(c)
    BY <1>4 DEF ReviewDone
  <1>5. CASE RetryableError(c)
    BY <1>5 DEF RetryableError, NestInv
  <1>6. CASE BackoffDone(c)
    BY <1>6 DEF BackoffDone
  <1>7. CASE FailQuietly(c)
    BY <1>7 DEF FailQuietly
  <1>8. CASE Escalate(c)
    <2>1. pc' = [pc EXCEPT ![c] = "escalate", ![Nested(c)] = "slug"] /\ c = Outer(c)
      BY <1>8 DEF Escalate
    <2>2. pc'[c] = "escalate" /\ c # Nested(c)
      BY <2>1 DEF TypeOK, Nested, Outer
    <2>3. ASSUME NEW t \in Tasks, t # c[1] PROVE pc'[<<t, 0>>] = pc[<<t, 0>>] /\ pc'[<<t, 1>>] = pc[<<t, 1>>]
      BY <2>1, <2>3, TaskFacts DEF TypeOK, Nested, Outer
    <2> QED BY <2>1, <2>2, <2>3 DEF NestInv, Outer
  <1>9. CASE AfterCompact(c)
    BY <1>9 DEF AfterCompact, Begin
  <1>10. CASE OverclockRound(c)
    BY <1>10 DEF OverclockRound, Begin
  <1>11. CASE EndTask(c)
    BY <1>11 DEF EndTask, Ends
  <1>12. CASE EndNested(c)
    <2>1. /\ pc' = [pc EXCEPT ![c] = "off", ![Outer(c)] = IF pc[c] = "unwind" THEN "unwind" ELSE "failed"]
          /\ c = Nested(c)
      BY <1>12 DEF EndNested
    <2>2. pc'[c] = "off"
      BY <2>1 DEF Outer, Nested, TypeOK
    <2>3. c = <<c[1], 1>> /\ c[1] \in Tasks
      BY <2>1, CallFacts DEF Nested
    <2>4. ASSUME NEW t \in Tasks, t # c[1] PROVE pc'[<<t, 0>>] = pc[<<t, 0>>] /\ pc'[<<t, 1>>] = pc[<<t, 1>>]
      BY <2>1, <2>4, TaskFacts DEF TypeOK, Nested, Outer
    <2>5. pc'[<<c[1], 1>>] = "off"
      BY <2>2, <2>3
    <2> QED BY <2>3, <2>4, <2>5 DEF NestInv
  <1> QED BY <1>1, <1>2, <1>3, <1>4, <1>5, <1>6, <1>7, <1>8, <1>9, <1>10, <1>11, <1>12 DEF Turn, Return

\* end_turn takes away the window of the call that opened it, and no other;
\* what was queued in it is in the spool again.
LEMMA CloseFacts ==
    ASSUME IInv, NEW c \in Calls, CloseWindow(c)
    PROVE  /\ \A p \in PAIs : opener'[p] # None => opener'[p] = opener[p] /\ opener[p] # c
           /\ \A p \in PAIs : live'[p] # {} => live'[p] = live[p] /\ opener'[p] # None
           /\ \A p \in PAIs : live'[p] \subseteq live[p]
           /\ \A m \in spool' : m \in spool \/ \E p \in PAIs : m \in live[p]
           /\ spool \subseteq spool'
           /\ \A m \in Msgs, p \in PAIs : m \in live[p] => m \in live'[p] \/ m \in spool'
           /\ \A m \in Msgs, p \in PAIs : m \in live'[p] => m \notin spool'
  <1> USE CallFacts DEF IInv, TypeOK, WindowHasTurn
  <1>1. CASE opener[Target(c)] = c
    <2>1. /\ opener' = [opener EXCEPT ![Target(c)] = None]
          /\ spool' = spool \cup live[Target(c)]
          /\ live' = [live EXCEPT ![Target(c)] = {}]
      BY <1>1 DEF CloseWindow
    <2>2. ASSUME NEW m \in Msgs, NEW p \in PAIs, m \in live'[p] PROVE m \notin spool'
      <3>1. p # Target(c) /\ m \in live[p]
        BY <2>1, <2>2
      <3>2. /\ Target(c) \in PAIs /\ m \notin spool
            /\ \A q \in PAIs : m \in live[q] => To[m] = q
        BY <3>1 DEF FreshInv, FreshOf
      <3>3. m \notin live[Target(c)]
        BY <3>1, <3>2
      <3> QED BY <2>1, <3>2, <3>3
    <2>3. \A p \in PAIs : opener'[p] # None => opener'[p] = opener[p] /\ opener[p] # c
      BY <1>1, <2>1
    <2>4. ASSUME NEW p \in PAIs, live'[p] # {} PROVE live'[p] = live[p] /\ opener'[p] # None
      <3>1. p # Target(c)
        BY <2>1, <2>4
      <3> QED BY <2>1, <2>4, <3>1
    <2> QED BY <2>1, <2>2, <2>3, <2>4
  <1>2. CASE opener[Target(c)] # c
    <2>1. opener' = opener /\ spool' = spool /\ live' = live
      BY <1>2 DEF CloseWindow
    <2>2. \A p \in PAIs : opener'[p] # None => opener[p] # c
      BY <1>2, <2>1
    <2>3. \A m \in Msgs, p \in PAIs : m \in live'[p] => m \notin spool'
      BY <2>1 DEF FreshInv, FreshOf
    <2> QED BY <2>1, <2>2, <2>3
  <1> QED BY <1>1, <1>2

\* A step that closes c's window and moves c anywhere keeps the windows.
LEMMA CloseMove ==
    ASSUME IInv, NEW c \in Calls, CloseWindow(c), UNCHANGED <<slugHolder, kind>>,
           \A d \in Calls \ {c} : pc'[d] = pc[d]
    PROVE  WindowHasTurn'
  <1> SUFFICES ASSUME NEW p \in PAIs
               PROVE  /\ live'[p] # {} => opener'[p] # None
                      /\ opener'[p] # None =>
                            /\ Target(opener'[p]) = p
                            /\ slugHolder'[p] = opener'[p]
                            /\ kind'[opener'[p]] = "main"
                            /\ pc'[opener'[p]] \in {"model", "backoff", "escalate"}
    BY DEF WindowHasTurn, Target, Home
  <1>1. live'[p] # {} => opener'[p] # None
    BY CloseFacts
  <1>2. ASSUME opener'[p] # None PROVE opener'[p] = opener[p] /\ opener[p] \in Calls \ {c}
    BY <1>2, CloseFacts DEF IInv, TypeOK
  <1> QED BY <1>1, <1>2 DEF IInv, WindowHasTurn

\* A window is opened by a turn that holds the lock, and closed with it.
LEMMA WindowTurn ==
    ASSUME IInv, NEW c \in Calls, Turn(c) \/ Return(c)
    PROVE  WindowHasTurn'
  <1> USE CallFacts, NoneFacts DEF IInv, TypeOK, calls, window, locks, WindowHasTurn, HolderInv, InTurn, Suspended
  <1>1. CASE AcquireSlug(c)
    BY <1>1 DEF AcquireSlug, Begin
  <1>2. CASE DrainInjected(c)
    BY <1>2 DEF DrainInjected
  <1>3. CASE Reply(c)
    BY <1>3, CloseMove DEF Reply, Save
  <1>4. CASE ReviewDone(c)
    BY <1>4 DEF ReviewDone, Save
  <1>5. CASE RetryableError(c)
    BY <1>5 DEF RetryableError
  <1>6. CASE BackoffDone(c)
    BY <1>6 DEF BackoffDone
  <1>7. CASE FailQuietly(c)
    BY <1>7, CloseMove DEF FailQuietly
  <1>8. CASE Escalate(c)
    <2>1. /\ pc' = [pc EXCEPT ![c] = "escalate", ![Nested(c)] = "slug"]
          /\ pc[c] = "model" /\ c[2] = 0 /\ UNCHANGED <<kind, window, slugHolder>>
      BY <1>8 DEF Escalate
    <2>2. pc[Nested(c)] = "off" /\ c # Nested(c)
      BY <2>1 DEF NestInv, Nested, Calls
    <2>3. \A d \in Calls \ {c, Nested(c)} : pc'[d] = pc[d]
      BY <2>1
    <2>4. pc'[c] = "escalate"
      BY <2>1, <2>2
    <2>5. \A q \in PAIs : opener[q] # Nested(c)
      BY <2>2
    <2>6. ASSUME NEW q \in PAIs, opener[q] # None
          PROVE  pc'[opener[q]] \in {"model", "backoff", "escalate"}
      BY <2>3, <2>4, <2>5, <2>6
    <2> QED BY <2>1, <2>6 DEF Target, Home
  <1>9. CASE AfterCompact(c)
    BY <1>9 DEF AfterCompact, Begin
  <1>10. CASE OverclockRound(c)
    BY <1>10 DEF OverclockRound, Begin
  <1>11. CASE EndTask(c)
    BY <1>11 DEF EndTask, Ends, Forget
  <1>12. CASE EndNested(c)
    <2> DEFINE o == Outer(c)
    <2>1. /\ CloseWindow(o) /\ o \in Calls /\ o # c /\ Ends(c)
          /\ slugHolder' = [slugHolder EXCEPT ![Root] = IF @ = c THEN None ELSE @]
          /\ \A d \in Calls \ {c, o} : pc'[d] = pc[d] /\ kind'[d] = kind[d]
      BY <1>12 DEF EndNested, Forget, Outer
    <2>2. \A q \in PAIs : opener[q] # c
      BY <2>1 DEF Ends
    <2>3. ASSUME NEW q \in PAIs, opener'[q] # None
          PROVE  opener'[q] = opener[q] /\ opener[q] \in Calls \ {c, o}
      BY <2>1, <2>2, <2>3, CloseFacts
    <2>4. ASSUME NEW q \in PAIs, opener'[q] # None PROVE slugHolder'[q] = opener'[q]
      BY <2>1, <2>2, <2>3, <2>4, NudgeAssumption
    <2>5. \A q \in PAIs : live'[q] # {} => opener'[q] # None
      BY <2>1, CloseFacts
    <2> HIDE DEF o
    <2> QED BY <2>1, <2>3, <2>4, <2>5 DEF Target, Home
  <1> QED BY <1>1, <1>2, <1>3, <1>4, <1>5, <1>6, <1>7, <1>8, <1>9, <1>10, <1>11, <1>12 DEF Turn, Return

\* The ways in which a step of a turn may move messages without putting one
\* of them in two places.
KeepsQueues ==
    /\ \A m \in Msgs : m \in spool' => m \in spool \/ \E p \in PAIs : m \in live[p]
    /\ \A m \in Msgs, p \in PAIs : m \in live'[p] => m \in live[p] /\ m \notin spool'
KeepsOff == \A m \in Msgs : pc[<<m, 0>>] = "off" => pc'[<<m, 0>>] = "off"
KeepsSent == /\ \A p \in PAIs : history'[p] \subseteq sent
             /\ \A d \in Calls : conv'[d] \subseteq sent

\* The three conditions above keep fresh messages in one place.
LEMMA FreshMove ==
    ASSUME IInv, sent' = sent, KeepsQueues, KeepsOff, KeepsSent
    PROVE  FreshInv'
  BY DEF IInv, FreshInv, FreshOf, KeepsQueues, KeepsOff, KeepsSent

\* Histories and conversations hold messages that were sent, and so does
\* the opening turn of a call that has started.
LEMMA SentFacts ==
    ASSUME IInv
    PROVE  /\ \A p \in PAIs : history[p] \subseteq sent
           /\ \A d \in Calls : conv[d] \subseteq sent
           /\ \A p \in PAIs : live[p] \subseteq sent
           /\ \A d \in Calls : pc[d] # "off" => Opening(d) \subseteq sent
  <1> USE DEF IInv, TypeOK, FreshInv, FreshOf
  <1>1. (\A p \in PAIs : history[p] \subseteq sent) /\ (\A d \in Calls : conv[d] \subseteq sent)
    OBVIOUS
  <1>2. \A p \in PAIs : live[p] \subseteq sent
    OBVIOUS
  <1>3. \A d \in Calls : pc[d] # "off" => Opening(d) \subseteq sent
    <2> SUFFICES ASSUME NEW d \in Calls, pc[d] # "off", NEW m \in Opening(d) PROVE m \in sent
      OBVIOUS
    <2>1. m \in Msgs /\ d = <<m, 0>>
      BY CallFacts DEF Opening
    <2> QED BY <2>1
  <1> QED BY <1>1, <1>2, <1>3

\* Untouched queues, and a window that closes, put no message in two places.
LEMMA QueuesStay ==
    ASSUME IInv
    PROVE  /\ UNCHANGED <<spool, live>> => KeepsQueues
           /\ \A c \in Calls : CloseWindow(c) => KeepsQueues
  <1>1. UNCHANGED <<spool, live>> => KeepsQueues
    BY DEF IInv, FreshInv, FreshOf, KeepsQueues
  <1>2. ASSUME NEW c \in Calls, CloseWindow(c) PROVE KeepsQueues
    <2>1. TypeOK
      BY DEF IInv
    <2>2. \A m \in Msgs, p \in PAIs : m \in live'[p] => m \in live[p]
      BY <1>2, CloseFacts
    <2> QED BY <1>2, <2>2, CloseFacts DEF KeepsQueues
  <1> QED BY <1>1, <1>2

\* Calls that have started are the only ones that move.
LEMMA OffStays ==
    ASSUME IInv
    PROVE  /\ pc' = pc => KeepsOff
           /\ \A c \in Calls, v \in PCs :
                 pc[c] # "off" /\ pc' = [pc EXCEPT ![c] = v] => KeepsOff
           /\ \A c \in Calls, v \in PCs, w \in PCs :
                 pc[c] # "off" /\ pc' = [pc EXCEPT ![c] = v, ![Nested(c)] = w] => KeepsOff
           /\ \A c \in Calls, v \in PCs, w \in PCs :
                 pc[c] # "off" /\ pc[Outer(c)] # "off" /\ pc' = [pc EXCEPT ![c] = v, ![Outer(c)] = w]
                    => KeepsOff
  <1>0. pc \in [Calls -> PCs] /\ \A m \in Msgs : <<m, 0>> \in Calls
    BY DEF IInv, TypeOK, Calls, Tasks
  <1>1. pc' = pc => KeepsOff
    BY <1>0 DEF KeepsOff
  <1>2. \A c \in Calls, v \in PCs : pc[c] # "off" /\ pc' = [pc EXCEPT ![c] = v] => KeepsOff
    BY <1>0 DEF KeepsOff
  <1>3. ASSUME NEW c \in Calls, NEW v \in PCs, NEW w \in PCs,
               pc[c] # "off" /\ pc' = [pc EXCEPT ![c] = v, ![Nested(c)] = w]
        PROVE  KeepsOff
    BY <1>0, <1>3 DEF KeepsOff, Nested
  <1>4. ASSUME NEW c \in Calls, NEW v \in PCs, NEW w \in PCs, pc[c] # "off",
               pc[Outer(c)] # "off" /\ pc' = [pc EXCEPT ![c] = v, ![Outer(c)] = w]
        PROVE  KeepsOff
    BY <1>0, <1>4 DEF KeepsOff, Outer
  <1> QED BY <1>1, <1>2, <1>3, <1>4

\* A conversation that is emptied, or restarted with the opening turn, and
\* one that is saved, stay within what was sent.
LEMMA SentStays ==
    ASSUME IInv
    PROVE  /\ UNCHANGED <<conv, history>> => KeepsSent
           /\ \A c \in Calls, S \in SUBSET sent :
                 conv' = [conv EXCEPT ![c] = S] /\ history' = history => KeepsSent
           /\ \A c \in Calls : Save(c) => KeepsSent
  <1>1. UNCHANGED <<conv, history>> => KeepsSent
    BY SentFacts DEF KeepsSent
  <1>2. ASSUME NEW c \in Calls, NEW S \in SUBSET sent,
               conv' = [conv EXCEPT ![c] = S], history' = history
        PROVE  KeepsSent
    <2>1. \A d \in Calls : conv'[d] = S \/ conv'[d] = conv[d]
      BY <1>2 DEF IInv, TypeOK
    <2> QED BY <1>2, <2>1, SentFacts DEF KeepsSent
  <1>3. ASSUME NEW c \in Calls, Save(c) PROVE KeepsSent
    <2>1. \A d \in Calls : conv'[d] = {} \/ conv'[d] = conv[d]
      BY <1>3 DEF IInv, TypeOK, Save
    <2>2. \A p \in PAIs : history'[p] = history[p] \cup conv[c] \/ history'[p] = history[p]
      BY <1>3 DEF IInv, TypeOK, Save
    <2> QED BY <2>1, <2>2, SentFacts DEF KeepsSent
  <1> QED BY <1>1, <1>2, <1>3

\* An attempt begins with messages that were sent.
LEMMA BeginSent ==
    ASSUME IInv, NEW c \in Calls, pc[c] # "off", NEW k, Begin(c, k), history' = history
    PROVE  KeepsSent /\ KeepsOff
  <1>1. \E S \in SUBSET sent : conv' = [conv EXCEPT ![c] = S]
    BY SentFacts DEF Begin
  <1>2. pc' = [pc EXCEPT ![c] = "model"]
    BY DEF Begin
  <1> QED BY <1>1, <1>2, SentStays, OffStays DEF PCs, Suspended

\* The steps of a turn keep a fresh message in one place.
LEMMA FreshTurn ==
    ASSUME IInv, NEW c \in Calls, Turn(c) \/ Return(c)
    PROVE  FreshInv'
  <1> USE FreshMove, QueuesStay, OffStays, SentStays DEF calls, window, locks, PCs, Suspended, Leaving
  <1>1. CASE AcquireSlug(c)
    BY <1>1, BeginSent DEF AcquireSlug
  <1>2. CASE DrainInjected(c)
    <2>1. conv[c] \cup live[Target(c)] \subseteq sent /\ c \in Calls
      BY SentFacts, CallFacts
    <2>2. KeepsSent
      <3>1. /\ conv' = [conv EXCEPT ![c] = conv[c] \cup live[Target(c)]]
            /\ history' = history
        BY <1>2 DEF DrainInjected
      <3>2. conv[c] \cup live[Target(c)] \in SUBSET sent
        BY <2>1
      <3> QED BY <3>1, <3>2, SentStays
    <2>3. KeepsQueues
      <3>1. spool' = spool /\ live' = [live EXCEPT ![Target(c)] = {}]
        BY <1>2 DEF DrainInjected
      <3>2. live \in [PAIs -> SUBSET Msgs] /\ FreshInv
        BY DEF IInv, TypeOK
      <3>3. \A p \in PAIs : live'[p] \subseteq live[p]
        BY <3>1, <3>2
      <3>4. \A m \in Msgs, p \in PAIs : m \in live[p] => m \notin spool
        BY <3>2 DEF FreshInv, FreshOf
      <3> QED BY <3>1, <3>3, <3>4 DEF KeepsQueues
    <2> QED BY <1>2, <2>2, <2>3 DEF DrainInjected
  <1>3. CASE Reply(c)
    BY <1>3 DEF Reply
  <1>4. CASE ReviewDone(c)
    BY <1>4 DEF ReviewDone
  <1>5. CASE RetryableError(c)
    <2>1. KeepsSent
      <3>1. \E S \in SUBSET sent : conv' = [conv EXCEPT ![c] = S]
        BY <1>5, SentFacts DEF RetryableError
      <3> QED BY <1>5, <3>1 DEF RetryableError
    <2> QED BY <1>5, <2>1 DEF RetryableError
  <1>6. CASE BackoffDone(c)
    BY <1>6 DEF BackoffDone
  <1>7. CASE FailQuietly(c)
    BY <1>7 DEF FailQuietly
  <1>8. CASE Escalate(c)
    BY <1>8 DEF Escalate
  <1>9. CASE AfterCompact(c)
    BY <1>9, BeginSent DEF AfterCompact
  <1>10. CASE OverclockRound(c)
    BY <1>10, BeginSent DEF OverclockRound
  <1>11. CASE EndTask(c)
    BY <1>11 DEF EndTask, Ends
  <1>12. CASE EndNested(c)
    <2>1. pc[Outer(c)] # "off" /\ Outer(c) \in Calls
      BY <1>12, CallFacts DEF EndNested, Ends, IInv, NestInv, Outer
    <2> QED BY <1>12, <2>1 DEF EndNested, Ends
  <1> QED BY <1>1, <1>2, <1>3, <1>4, <1>5, <1>6, <1>7, <1>8, <1>9, <1>10, <1>11, <1>12 DEF Turn, Return

\* Locks and cancellations keep the lock with the turn ...
LEMMA HolderTask ==
    ASSUME IInv, NEW t \in Tasks, AcquireKernel(t) \/ Cancel(t)
    PROVE  HolderInv'
  <1> USE TaskFacts, CallFacts, NoneFacts DEF IInv, TypeOK, calls, window, locks, HolderInv, InTurn, Suspended, Calls
  <1>1. CASE AcquireKernel(t)
    BY <1>1 DEF AcquireKernel
  <1>2. CASE CancelWaiting(t)
    BY <1>2 DEF CancelWaiting, CancelReaches
  <1>3. CASE CancelTurn(t)
    BY <1>3 DEF CancelTurn, CancelReaches, CloseWindow, Save
  <1>4. CASE CancelDelay(t)
    BY <1>4 DEF CancelDelay, CancelReaches, CloseWindow
  <1> QED BY <1>1, <1>2, <1>3, <1>4 DEF Cancel

\* ... the nested nudge with its caller ...
LEMMA NestTask ==
    ASSUME IInv, NEW t \in Tasks, AcquireKernel(t) \/ Cancel(t)
    PROVE  NestInv'
  <1> USE TaskFacts, CallFacts, NoneFacts DEF IInv, TypeOK, calls, window, locks, NestInv
  <1>1. CASE AcquireKernel(t)
    BY <1>1 DEF AcquireKernel
  <1>2. CASE CancelWaiting(t)
    BY <1>2 DEF CancelWaiting, CancelReaches
  <1>3. CASE CancelTurn(t)
    BY <1>3 DEF CancelTurn, CancelReaches, CloseWindow, Save
  <1>4. CASE CancelDelay(t)
    BY <1>4 DEF CancelDelay, CancelReaches, CloseWindow
  <1> QED BY <1>1, <1>2, <1>3, <1>4 DEF Cancel

\* ... the window with its turn ...
LEMMA WindowTask ==
    ASSUME IInv, NEW t \in Tasks, AcquireKernel(t) \/ Cancel(t)
    PROVE  WindowHasTurn'
  <1> USE TaskFacts, CallFacts, NoneFacts DEF IInv, TypeOK, calls, window, locks, WindowHasTurn
  <1>1. CASE AcquireKernel(t)
    BY <1>1 DEF AcquireKernel
  <1>2. CASE CancelWaiting(t)
    BY <1>2 DEF CancelWaiting, CancelReaches
  <1>3. CASE CancelTurn(t)
    BY <1>3, CloseMove DEF CancelTurn, CancelReaches, Save
  <1>4. CASE CancelDelay(t)
    BY <1>4, CloseMove DEF CancelDelay, CancelReaches
  <1> QED BY <1>1, <1>2, <1>3, <1>4 DEF Cancel

\* ... and a fresh message in one place.
LEMMA FreshTask ==
    ASSUME IInv, NEW t \in Tasks, AcquireKernel(t) \/ Cancel(t)
    PROVE  FreshInv'
  <1> USE FreshMove, QueuesStay, OffStays, SentStays, TaskFacts
      DEF calls, window, locks, PCs, Suspended, Leaving
  <1>1. CASE AcquireKernel(t)
    BY <1>1 DEF AcquireKernel
  <1>2. CASE CancelWaiting(t)
    BY <1>2 DEF CancelWaiting, CancelReaches
  <1>3. CASE CancelTurn(t)
    BY <1>3 DEF CancelTurn, CancelReaches
  <1>4. CASE CancelDelay(t)
    BY <1>4 DEF CancelDelay, CancelReaches
  <1> QED BY <1>1, <1>2, <1>3, <1>4 DEF Cancel

-----------------------------------------------------------------------------
(* NoRedelivery: what holds a message, and what a message still waits for. *)

Held(m) == Reading(m) \/ m \in history[To[m]]
Queued(m) ==
    \/ pc[<<m, 0>>] \in {"kernel", "slug"}
    \/ pc[<<m, 0>>] \notin {"off", "unwind"} /\ kind[<<m, 0>>] = "compact"

\* Seen from one message, a step is harmless if it neither starts holding
\* the message nor puts it back into a queue.
Harmless(m) == (Held(m)' => Held(m)) /\ (Queued(m)' => Queued(m))

\* A message whose own nudge is inside a main turn waits for nothing.
LEMMA OwnTurn ==
    ASSUME FreshInv, NEW m \in Msgs, To[m] \in PAIs, kind[<<m, 0>>] = "main",
           pc[<<m, 0>>] \notin {"off", "kernel", "slug"}
    PROVE  ~Pending(m)
  BY DEF FreshInv, FreshOf, Pending

\* A step that queues nothing it holds hands nothing over twice.
LEMMA HarmlessMove ==
    ASSUME IInv, KeepsQueues, NEW m \in Msgs \ Overclock, Harmless(m), Held(m)'
    PROVE  ~Pending(m)'
  <1>1. To[m] \in PAIs /\ Held(m) /\ (Queued(m)' => Queued(m))
    BY NudgeAssumption DEF Harmless
  <1>2. ~Pending(m)
    BY <1>1 DEF IInv, NoRedelivery, Held
  <1>3. m \notin spool /\ (\A p \in PAIs : m \notin live[p]) /\ ~Queued(m)
    BY <1>1, <1>2 DEF Pending, Queued, IInv, FreshInv, FreshOf
  <1>4. m \notin spool' /\ m \notin live'[To[m]]
    BY <1>1, <1>3 DEF KeepsQueues
  <1>5. ~Queued(m)'
    BY <1>1, <1>3
  <1> QED BY <1>4, <1>5 DEF Pending, Queued

\* Conversations that only shrink, and a conversation that is saved, hold
\* nothing new.
LEMMA HeldStays ==
    ASSUME IInv, NEW m \in Msgs
    PROVE  /\ UNCHANGED <<conv, history>> => (Held(m)' => Held(m))
           /\ \A c \in Calls : conv' = [conv EXCEPT ![c] = {}] /\ history' = history
                 => (Held(m)' => Held(m))
           /\ \A c \in Calls : Save(c) => (Held(m)' => Held(m))
  <1>1. conv \in [Calls -> SUBSET Msgs] /\ history \in [PAIs -> SUBSET Msgs] /\ To[m] \in PAIs
    BY NudgeAssumption DEF IInv, TypeOK
  <1>2. UNCHANGED <<conv, history>> => (Held(m)' => Held(m))
    BY DEF Held, Reading
  <1>3. ASSUME NEW c \in Calls, conv' = [conv EXCEPT ![c] = {}], history' = history, Held(m)'
        PROVE  Held(m)
    BY <1>1, <1>3 DEF Held, Reading
  <1>4. ASSUME NEW c \in Calls, Save(c), Held(m)' PROVE Held(m)
    BY <1>1, <1>4 DEF Held, Reading, Save
  <1> QED BY <1>2, <1>3, <1>4

\* A call that moves on inside its turn, or leaves it, queues no message.
LEMMA QueuedStays ==
    ASSUME IInv, NEW m \in Msgs, NEW c \in Calls, NEW v \in PCs \ {"kernel", "slug"},
           pc' = [pc EXCEPT ![c] = v],
           \A d \in Calls \ {c} : kind'[d] = kind[d],
           \/ v \in {"off", "unwind"}
           \/ pc[c] \notin {"off", "unwind"} /\ kind'[c] \in {"main", kind[c]}
    PROVE  Queued(m)' => Queued(m)
  <1>1. pc \in [Calls -> PCs] /\ <<m, 0>> \in Calls
    BY DEF IInv, TypeOK, Calls, Tasks
  <1>2. CASE c = <<m, 0>>
    BY <1>1, <1>2 DEF Queued
  <1>3. CASE c # <<m, 0>>
    BY <1>1, <1>3 DEF Queued
  <1> QED BY <1>2, <1>3

\* Entering a turn: only the call's own message starts to be held, and it
\* waits no longer.
LEMMA BeginHolds ==
    ASSUME IInv, FreshInv', KeepsQueues, NEW c \in Calls, NEW k \in {"compact", "main"},
           Begin(c, k), history' = history, pc[c] \notin {"off", "unwind"},
           NEW m \in Msgs \ Overclock, Held(m)',
           k = "compact" => pc[c] = "slug" \/ c # <<m, 0>>
    PROVE  ~Pending(m)'
  <1>1. /\ pc \in [Calls -> PCs] /\ kind \in [Calls -> {"compact", "main"}]
        /\ conv \in [Calls -> SUBSET Msgs] /\ <<m, 0>> \in Calls /\ To[m] \in PAIs
    BY NudgeAssumption DEF IInv, TypeOK, Calls, Tasks
  <1>2. /\ pc' = [pc EXCEPT ![c] = "model"] /\ kind' = [kind EXCEPT ![c] = k]
        /\ conv' = [conv EXCEPT ![c] = IF k = "main" THEN Opening(c) ELSE {}]
    BY DEF Begin
  <1>3. CASE c = <<m, 0>> /\ k = "main"
    <2>1. pc'[<<m, 0>>] = "model" /\ kind'[<<m, 0>>] = "main"
      BY <1>1, <1>2, <1>3
    <2> QED BY <1>1, <2>1 DEF FreshInv, FreshOf, Pending
  <1>4. CASE c # <<m, 0>> \/ k = "compact"
    <2>1. m \notin conv'[c]
      <3>1. m \notin Opening(c) \/ k = "compact"
        BY <1>4, CallFacts DEF Opening
      <3> QED BY <1>1, <1>2, <3>1
    <2>2. Held(m)' => Held(m)
      BY <1>1, <1>2, <2>1 DEF Held, Reading
    <2>3. Queued(m)' => Queued(m)
      BY <1>1, <1>2, <1>4 DEF Queued
    <2> QED BY <2>2, <2>3, HarmlessMove DEF Harmless
  <1> QED BY <1>3, <1>4

\* No step of a turn queues again what was read.
LEMMA RedeliveryTurn ==
    ASSUME IInv, NEW c \in Calls, Turn(c) \/ Return(c)
    PROVE  NoRedelivery'
  <1> SUFFICES ASSUME NEW m \in Msgs \ Overclock, Held(m)' PROVE ~Pending(m)'
    BY DEF NoRedelivery, Held
  <1>0. FreshInv'
    BY FreshTurn
  <1> USE <1>0, QueuesStay, HeldStays, QueuedStays, HarmlessMove
      DEF Harmless, calls, window, locks, PCs, Suspended, Leaving
  <1>1. CASE AcquireSlug(c)
    BY <1>1, BeginHolds DEF AcquireSlug
  <1>2. CASE DrainInjected(c)
    <2>1. CASE m \in live[Target(c)]
      <3>1. pc[<<m, 0>>] = "off" /\ To[m] = Target(c) /\ m \notin spool
        BY <2>1, CallFacts DEF IInv, FreshInv, FreshOf
      <3>2. live'[To[m]] = {} /\ spool' = spool /\ pc' = pc
        BY <1>2, <3>1, CallFacts DEF DrainInjected, IInv, TypeOK
      <3> QED BY <3>1, <3>2 DEF Pending
    <2>2. CASE m \notin live[Target(c)]
      <3>1. Held(m)
        BY <1>2, <2>2, CallFacts DEF DrainInjected, Held, Reading, IInv, TypeOK
      <3>2. pc' = pc /\ kind' = kind
        BY <1>2 DEF DrainInjected
      <3>3. KeepsQueues
        <4>1. spool' = spool /\ \A p \in PAIs : live'[p] \subseteq live[p]
          BY <1>2, CallFacts DEF DrainInjected, IInv, TypeOK
        <4> QED BY <4>1 DEF KeepsQueues, IInv, FreshInv, FreshOf
      <3> QED BY <3>1, <3>2, <3>3 DEF Queued
    <2> QED BY <2>1, <2>2
  <1>3. CASE Reply(c)
    BY <1>3 DEF Reply
  <1>4. CASE ReviewDone(c)
    BY <1>4 DEF ReviewDone
  <1>5. CASE RetryableError(c)
    <2>1. /\ spool' = spool /\ live' = live /\ history' = history /\ kind' = kind
          /\ \E v \in {"model", "backoff"} : pc' = [pc EXCEPT ![c] = v]
          /\ conv' = [conv EXCEPT ![c] = IF kind[c] = "main" THEN Opening(c) ELSE {}]
          /\ pc[c] = "model"
      <3>1. pc' = pc => pc' = [pc EXCEPT ![c] = pc[c]]
        BY DEF IInv, TypeOK
      <3> QED BY <1>5, <3>1 DEF RetryableError
    <2>2. CASE c = <<m, 0>> /\ kind[c] = "main"
      <3>1. pc'[<<m, 0>>] \in {"model", "backoff"} /\ kind'[<<m, 0>>] = "main"
        BY <2>1, <2>2 DEF IInv, TypeOK
      <3>2. To[m] \in PAIs
        BY NudgeAssumption
      <3> QED BY <3>1, <3>2 DEF FreshInv, FreshOf, Pending
    <2>3. CASE c # <<m, 0>> \/ kind[c] # "main"
      <3>1. m \notin conv'[c]
        <4>1. m \notin Opening(c) \/ kind[c] # "main"
          BY <2>3, CallFacts DEF Opening
        <4> QED BY <2>1, <4>1 DEF IInv, TypeOK
      <3>2. Held(m)
        BY <2>1, <3>1 DEF Held, Reading, IInv, TypeOK
      <3>3. Queued(m)' => Queued(m)
        BY <2>1
      <3> QED BY <2>1, <3>2, <3>3
    <2> QED BY <2>2, <2>3
  <1>6. CASE BackoffDone(c)
    BY <1>6 DEF BackoffDone
  <1>7. CASE FailQuietly(c)
    BY <1>7 DEF FailQuietly
  <1>8. CASE Escalate(c)
    <2>1. /\ pc' = [pc EXCEPT ![c] = "escalate", ![Nested(c)] = "slug"]
          /\ kind' = kind /\ pc[c] = "model" /\ <<m, 0>> # Nested(c)
      BY <1>8 DEF Escalate, Nested
    <2>2. Queued(m)' => Queued(m)
      BY <2>1 DEF Queued, IInv, TypeOK, Calls, Tasks
    <2> QED BY <1>8, <2>2 DEF Escalate
  <1>9. CASE AfterCompact(c)
    BY <1>9, BeginHolds DEF AfterCompact
  <1>10. CASE OverclockRound(c)
    BY <1>10, BeginHolds DEF OverclockRound
  <1>11. CASE EndTask(c)
    <2>1. /\ pc' = [pc EXCEPT ![c] = "off"] /\ UNCHANGED <<spool, live, conv, history>>
          /\ \A d \in Calls \ {c} : kind'[d] = kind[d]
      BY <1>11 DEF EndTask, Forget
    <2> QED BY <2>1
  <1>12. CASE EndNested(c)
    <2> DEFINE o == Outer(c)
    <2>1. /\ pc' = [pc EXCEPT ![c] = "off", ![o] = IF pc[c] = "unwind" THEN "unwind" ELSE "failed"]
          /\ CloseWindow(o) /\ UNCHANGED <<conv, history>> /\ c # <<m, 0>>
          /\ \A d \in Calls \ {c} : kind'[d] = kind[d]
      BY <1>12 DEF EndNested, Forget
    <2>2. o \in Calls /\ pc[o] = "escalate"
      BY <1>12, CallFacts DEF EndNested, Ends, IInv, NestInv, Outer
    <2>3. Queued(m)' => Queued(m)
      BY <2>1, <2>2 DEF Queued, IInv, TypeOK, Calls, Tasks
    <2> HIDE DEF o
    <2> QED BY <2>1, <2>2, <2>3
  <1> QED BY <1>1, <1>2, <1>3, <1>4, <1>5, <1>6, <1>7, <1>8, <1>9, <1>10, <1>11, <1>12 DEF Turn, Return

\* No cancellation queues again what was read.
LEMMA RedeliveryTask ==
    ASSUME IInv, NEW t \in Tasks, AcquireKernel(t) \/ Cancel(t)
    PROVE  NoRedelivery'
  <1> SUFFICES ASSUME NEW m \in Msgs \ Overclock, Held(m)' PROVE ~Pending(m)'
    BY DEF NoRedelivery, Held
  <1> USE QueuesStay, HeldStays, QueuedStays, HarmlessMove, TaskFacts
      DEF Harmless, calls, window, locks, PCs, Suspended, Leaving
  <1>1. CASE AcquireKernel(t)
    <2>1. Queued(m)' => Queued(m)
      BY <1>1 DEF AcquireKernel, Queued, IInv, TypeOK, Calls, Tasks
    <2> QED BY <1>1, <2>1 DEF AcquireKernel
  <1>2. CASE CancelWaiting(t)
    BY <1>2 DEF CancelWaiting
  <1>3. CASE CancelTurn(t)
    BY <1>3 DEF CancelTurn, CancelReaches
  <1>4. CASE CancelDelay(t)
    BY <1>4 DEF CancelDelay
  <1> QED BY <1>1, <1>2, <1>3, <1>4 DEF Cancel

-----------------------------------------------------------------------------
(* The handlers of the main loop, and the theorems. *)

\* A step that touches neither queues, windows, calls nor slug locks.
LEMMA StutterInv ==
    ASSUME IInv, TypeOK',
           UNCHANGED <<sent, spool, calls, window, history, slugHolder>>
    PROVE  IInv'
  <1> USE DEF IInv, calls, window
  <1>1. FreshInv'
    BY DEF FreshInv, FreshOf
  <1>2. HolderInv' /\ NestInv'
    BY DEF HolderInv, NestInv, Target, Home
  <1>3. WindowHasTurn'
    BY DEF WindowHasTurn, Target, Home
  <1>4. NoRedelivery'
    BY DEF NoRedelivery, Reading, Pending
  <1> QED BY <1>1, <1>2, <1>3, <1>4

\* A new nudge task: its call was off, and it enters no turn yet.
LEMMA DispatchMove ==
    ASSUME IInv, NEW t \in Tasks, pc[<<t, 0>>] = "off", Dispatch(t),
           UNCHANGED <<kind, opener, slugHolder, live>>
    PROVE  HolderInv' /\ NestInv' /\ WindowHasTurn'
  <1>1. /\ pc \in [Calls -> PCs] /\ <<t, 0>> \in Calls /\ <<t, 1>> \in Calls
        /\ pc' = [pc EXCEPT ![<<t, 0>>] = "kernel"]
    BY TaskFacts DEF IInv, TypeOK, Dispatch
  <1>2. HolderInv'
    BY <1>1, CallFacts DEF IInv, HolderInv, InTurn, Suspended, Target, Home
  <1>3. NestInv'
    BY <1>1, TaskFacts DEF IInv, NestInv
  <1>4. WindowHasTurn'
    <2>1. \A p \in PAIs : opener[p] # None => opener[p] # <<t, 0>> /\ opener[p] \in Calls
      BY <1>1 DEF IInv, WindowHasTurn, TypeOK
    <2> QED BY <1>1, <2>1 DEF IInv, WindowHasTurn, Target, Home
  <1> QED BY <1>2, <1>3, <1>4

\* A message that is sent is new.
LEMMA SendStep ==
    ASSUME IInv, TypeOK', NEW m \in Msgs, Send(m)
    PROVE  IInv'
  <1> USE DEF IInv
  <1>1. /\ m \notin sent /\ sent' = sent \cup {m} /\ spool' = spool \cup {m}
        /\ UNCHANGED <<pc, kind, conv, opener, live, history, slugHolder>>
    BY DEF Send, calls, window, locks
  <1>2. FreshInv'
    <2>1. pc[<<m, 0>>] = "off" /\ \A p \in PAIs : m \notin live[p]
      BY <1>1 DEF FreshInv, FreshOf
    <2> SUFFICES ASSUME NEW n \in Msgs
                 PROVE  /\ n \notin sent' =>
                              /\ n \notin spool' /\ pc[<<n, 0>>] = "off"
                              /\ \A p \in PAIs : n \notin live[p] /\ n \notin history[p]
                              /\ \A c \in Calls : n \notin conv[c]
                        /\ n \in spool' => pc[<<n, 0>>] = "off" /\ \A p \in PAIs : n \notin live[p]
                        /\ \A p \in PAIs : n \in live[p] => pc[<<n, 0>>] = "off" /\ To[n] = p
      BY <1>1 DEF FreshInv, FreshOf
    <2>2. CASE n = m
      BY <1>1, <2>1, <2>2
    <2>3. CASE n # m
      BY <1>1, <2>3 DEF FreshInv, FreshOf
    <2> QED BY <2>2, <2>3
  <1>3. HolderInv' /\ NestInv'
    BY <1>1 DEF HolderInv, NestInv, Target, Home
  <1>4. WindowHasTurn'
    BY <1>1 DEF WindowHasTurn, Target, Home
  <1>5. NoRedelivery'
    <2>1. ~Reading(m) /\ m \notin history[To[m]]
      BY <1>1, NudgeAssumption DEF FreshInv, FreshOf, Reading
    <2> QED BY <1>1, <2>1 DEF NoRedelivery, Reading, Pending
  <1> QED BY <1>2, <1>3, <1>4, <1>5

\* A message that leaves the spool goes to one window or one task.
LEMMA DeliverStep ==
    ASSUME IInv, TypeOK', NEW m \in Msgs, Deliver(m)
    PROVE  IInv'
  <1>1. /\ m \in Tasks /\ <<m, 0>> \in Calls /\ To[m] \in PAIs /\ m \in spool
        /\ pc[<<m, 0>>] = "off" /\ m \in sent
        /\ \A p \in PAIs : m \notin live[p]
        /\ pc \in [Calls -> PCs] /\ live \in [PAIs -> SUBSET Msgs]
        /\ spool' = spool \ {m}
        /\ UNCHANGED <<sent, kind, conv, opener, history, slugHolder>>
    BY NudgeAssumption DEF IInv, TypeOK, FreshInv, FreshOf, Deliver, Tasks, Calls, calls, window, locks
  <1>2. (~Reading(m) /\ m \notin history[To[m]]) \/ m \in Overclock
    BY <1>1 DEF IInv, NoRedelivery, Pending
  <1>3. CASE CanInject(m) /\ live' = [live EXCEPT ![To[m]] = @ \cup {m}] /\ UNCHANGED <<pc, waiting>>
    <2>1. FreshInv'
      <3>1. \A n \in Msgs \ {m} : \A p \in PAIs : (n \in live'[p]) = (n \in live[p])
        BY <1>1, <1>3
      <3>2. \A p \in PAIs : m \in live'[p] => p = To[m]
        BY <1>1, <1>3
      <3>3. /\ FreshInv /\ m \in sent' /\ m \notin spool' /\ pc'[<<m, 0>>] = "off"
            /\ UNCHANGED <<sent, pc, history, conv>> /\ spool' \subseteq spool
        BY <1>1, <1>3 DEF IInv
      <3>4. FreshOf(m)'
        BY <3>2, <3>3 DEF FreshOf
      <3>5. ASSUME NEW n \in Msgs \ {m} PROVE FreshOf(n)'
        <4>1. FreshOf(n)
          BY <3>3 DEF FreshInv, FreshOf
        <4> QED BY <3>1, <3>3, <4>1 DEF FreshOf
      <3> QED BY <3>4, <3>5 DEF FreshInv
    <2>2. HolderInv' /\ NestInv'
      BY <1>1, <1>3 DEF IInv, HolderInv, NestInv, Target, Home
    <2>3. WindowHasTurn'
      BY <1>1, <1>3 DEF IInv, WindowHasTurn, Target, Home, CanInject
    <2>4. NoRedelivery'
      BY <1>1, <1>2, <1>3, NudgeAssumption DEF IInv, NoRedelivery, Reading, Pending
    <2> QED BY <2>1, <2>2, <2>3, <2>4 DEF IInv
  <1>4. CASE Dispatch(m) /\ UNCHANGED live
    <2>1. pc' = [pc EXCEPT ![<<m, 0>>] = "kernel"]
      BY <1>4 DEF Dispatch
    <2>2. FreshInv'
      <3>1. \A n \in Msgs \ {m} : pc'[<<n, 0>>] = pc[<<n, 0>>]
        BY <2>1
      <3>2. FreshInv /\ live' = live
        BY <1>4 DEF IInv
      <3>3. m \in sent' /\ m \notin spool' /\ \A p \in PAIs : m \notin live'[p]
        BY <1>1, <3>2
      <3>4. \A n \in Msgs \ {m} : (n \in spool') = (n \in spool)
        BY <1>1
      <3>5. UNCHANGED <<sent, history, conv>>
        BY <1>1
      <3>6. FreshOf(m)'
        BY <3>3 DEF FreshOf
      <3>7. ASSUME NEW n \in Msgs \ {m} PROVE FreshOf(n)'
        <4>1. FreshOf(n)
          BY <3>2 DEF FreshInv, FreshOf
        <4> QED BY <3>1, <3>2, <3>4, <3>5, <4>1 DEF FreshOf
      <3> QED BY <3>6, <3>7 DEF FreshInv
    <2>3. HolderInv' /\ NestInv' /\ WindowHasTurn'
      BY <1>1, <1>4, DispatchMove
    <2>4. NoRedelivery'
      <3>1. \A n \in Msgs \ {m} : pc'[<<n, 0>>] = pc[<<n, 0>>]
        BY <2>1
      <3> QED BY <1>1, <1>2, <1>4, <3>1 DEF IInv, NoRedelivery, Reading, Pending
    <2> QED BY <2>2, <2>3, <2>4 DEF IInv
  <1> QED BY <1>3, <1>4 DEF Deliver

\* A heartbeat brings no message.
LEMMA BeatStep ==
    ASSUME IInv, TypeOK', NEW p \in Beating, FireHeartbeat(p)
    PROVE  IInv'
  <1>1. UNCHANGED <<sent, spool, kind, attempt, conv, window, history, slugHolder>>
    BY DEF FireHeartbeat
  <1>2. CASE UNCHANGED <<pc, waiting>>
    BY <1>1, <1>2, StutterInv DEF calls
  <1>3. CASE Active(p) = {} /\ Dispatch(p)
    <2>1. p \in Tasks /\ <<p, 0>> \in Calls /\ Home(p) = p /\ \A m \in Msgs : m # p
      BY NudgeAssumption DEF Tasks, Calls, Home
    <2>2. pc[<<p, 0>>] = "off"
      BY <1>3, <2>1 DEF Active
    <2>3. HolderInv' /\ NestInv' /\ WindowHasTurn'
      BY <1>1, <1>3, <2>1, <2>2, DispatchMove DEF window
    <2>4. \A m \in Msgs : pc'[<<m, 0>>] = pc[<<m, 0>>]
      BY <1>3, <2>1 DEF Dispatch
    <2>5. FreshInv'
      BY <1>1, <2>4 DEF IInv, FreshInv, FreshOf, window
    <2>6. NoRedelivery'
      BY <1>1, <2>4 DEF IInv, NoRedelivery, Reading, Pending, window
    <2> QED BY <2>3, <2>5, <2>6 DEF IInv
  <1> QED BY <1>2, <1>3 DEF FireHeartbeat

\* The first state satisfies the invariant.
LEMMA InvInit == Init => IInv
  <1> SUFFICES ASSUME Init PROVE IInv
    OBVIOUS
  <1>1. TypeOK
    BY TypeInit
  <1>2. FreshInv
    BY DEF Init, FreshInv, FreshOf, Calls, Tasks
  <1>3. HolderInv /\ NestInv
    BY DEF Init, HolderInv, NestInv, InTurn, Suspended, Calls
  <1>4. WindowHasTurn
    BY DEF Init, WindowHasTurn
  <1>5. NoRedelivery
    BY NudgeAssumption DEF Init, NoRedelivery, Reading
  <1> QED BY <1>1, <1>2, <1>3, <1>4, <1>5 DEF IInv

\* Every step preserves it.
LEMMA InvNext == IInv /\ [Next]_vars => IInv'
  <1> SUFFICES ASSUME IInv, [Next]_vars PROVE IInv'
    OBVIOUS
  <1>1. TypeOK'
    BY TypeNext DEF IInv
  <1>2. CASE UNCHANGED vars
    BY <1>1, <1>2, StutterInv DEF vars, locks
  <1>3. CASE (\E p \in PAIs : Interrupt(p)) \/ StartReload \/ ReloadStep
    <2>1. UNCHANGED <<sent, spool, calls, window, history, slugHolder>>
      BY <1>3 DEF Interrupt, StartReload, ReloadStep, Drained, DrainTimeout, ReloadDone,
                  DrainNext, DrainAcquire, KernelVars, locks
    <2> QED BY <1>1, <2>1, StutterInv
  <1>4. ASSUME NEW m \in Msgs, Send(m) \/ Deliver(m) PROVE IInv'
    BY <1>1, <1>4, SendStep, DeliverStep
  <1>5. ASSUME NEW p \in Beating, FireHeartbeat(p) PROVE IInv'
    BY <1>1, <1>5, BeatStep
  <1>6. ASSUME NEW t \in Tasks, AcquireKernel(t) \/ Cancel(t) PROVE IInv'
    BY <1>1, <1>6, HolderTask, NestTask, WindowTask, FreshTask, RedeliveryTask DEF IInv
  <1>7. ASSUME NEW c \in Calls, Turn(c) \/ Return(c) PROVE IInv'
    BY <1>1, <1>7, HolderTurn, NestTurn, WindowTurn, FreshTurn, RedeliveryTurn DEF IInv
  <1> QED BY <1>2, <1>3, <1>4, <1>5, <1>6, <1>7 DEF Next

\* The inductive invariant holds for every set of PAIs and messages.
THEOREM InvCorrect == Spec => []IInv
  BY InvInit, InvNext, PTL DEF Spec

\* Two nudges of one PAI are never inside _nudge_locked at once, whoever
\* issued them: the per-slug lock alone guarantees it, because every call in
\* a turn holds it, the escalated nudge that skips the kernel's lock included.
THEOREM OneTurnCorrect == Spec => []OneTurnPerPAI
  <1>1. IInv => OneTurnPerPAI
    BY DEF IInv, HolderInv, InTurn, OneTurnPerPAI
  <1> QED BY <1>1, InvCorrect, PTL

\* A key of inject._live belongs to a turn that holds the PAI's lock and has
\* not replied, so a message accepted by try_inject is drained or re-emitted
\* by somebody, whichever way the turn ends.
THEOREM WindowCorrect == Spec => []WindowHasTurn
  <1>1. IInv => WindowHasTurn
    BY DEF IInv
  <1> QED BY <1>1, InvCorrect, PTL

\* No message that a turn has read or a history holds is ever in a queue
\* again: re-emission at the end of a window, the retry of an attempt and
\* the resumption of a failed turn never hand it to its PAI twice.
THEOREM RedeliveryCorrect == Spec => []NoRedelivery
  <1>1. IInv => NoRedelivery
    BY DEF IInv
  <1> QED BY <1>1, InvCorrect, PTL

-----------------------------------------------------------------------------
(* The refinement of Mailbox: what a conversation holds, and who is being  *)
(* cancelled.                                                              *)

Talking == {"model", "backoff", "review"}

\* Only a main turn holds messages: those of its PAI, the opening one all
\* along and in the history once it has replied; overclock is not injected.
ConvOf(c) ==
    /\ conv[c] # {} => pc[c] \in Talking /\ kind[c] = "main"
    /\ \A m \in conv[c] : To[m] = Target(c) /\ (m \in Overclock => c = <<m, 0>>)
    /\ pc[c] \in Talking /\ kind[c] = "main" => Opening(c) \subseteq conv[c]
    /\ pc[c] = "replied" /\ kind[c] = "main" => Opening(c) \subseteq history[Target(c)]

ConvInv == \A c \in Calls : ConvOf(c)
LiveInv == \A p \in PAIs : live[p] \cap Overclock = {}

\* A cancel() comes from an interrupt, and none is pending on a call that
\* is on its way out.
StopOf(c) ==
    pc[c] \in Leaving => c[1] \notin cancelled /\ (pc[c] = "unwind" => c[1] \in interrupted)
StopInv == cancelled \subseteq interrupted /\ \A c \in Calls : StopOf(c)

MailInv == IInv /\ ConvInv /\ LiveInv /\ StopInv

\* A call's opening message is addressed to the PAI whose turn it is.
LEMMA OpeningFacts ==
    ASSUME NEW c \in Calls, NEW m \in Opening(c)
    PROVE  m \in Msgs /\ c = <<m, 0>> /\ To[m] = Target(c)
  <1>1. m \in Msgs /\ c[1] = m /\ c[2] = 0
    BY DEF Opening
  <1> QED BY <1>1, CallFacts DEF Target, Home

\* One or two calls move.
LEMMA ConvMove ==
    ASSUME ConvInv, NEW c \in Calls, NEW e \in Calls, ConvOf(c)', ConvOf(e)',
           \A d \in Calls \ {c, e} : conv'[d] = conv[d] /\ pc'[d] = pc[d] /\ kind'[d] = kind[d],
           \A p \in PAIs : history[p] \subseteq history'[p]
    PROVE  ConvInv'
  <1> SUFFICES ASSUME NEW d \in Calls \ {c, e} PROVE ConvOf(d)'
    BY DEF ConvInv
  <1>1. ConvOf(d) /\ Target(d) \in PAIs
    BY CallFacts DEF ConvInv
  <1> QED BY <1>1 DEF ConvOf, Target, Home, Opening

LEMMA BeginConv ==
    ASSUME IInv, ConvInv, NEW c \in Calls, NEW k \in {"compact", "main"}, Begin(c, k), history' = history
    PROVE  ConvInv'
  <1>1. /\ pc'[c] = "model" /\ kind'[c] = k /\ conv'[c] = (IF k = "main" THEN Opening(c) ELSE {})
        /\ \A d \in Calls \ {c} : conv'[d] = conv[d] /\ pc'[d] = pc[d] /\ kind'[d] = kind[d]
    BY DEF Begin, IInv, TypeOK
  <1>2. ConvOf(c)'
    BY <1>1, OpeningFacts DEF ConvOf, Talking, Target, Home, Opening
  <1> QED BY <1>1, <1>2, ConvMove

\* What is saved is in the history, and the conversation is over.
LEMMA SaveConv ==
    ASSUME IInv, ConvInv, NEW c \in Calls, Save(c), pc[c] \in Talking,
           NEW v \in Leaving, pc' = [pc EXCEPT ![c] = v], kind' = kind
    PROVE  ConvInv'
  <1>1. /\ pc'[c] = v /\ conv'[c] = {} /\ history'[Target(c)] = history[Target(c)] \cup conv[c]
        /\ \A d \in Calls \ {c} : conv'[d] = conv[d] /\ pc'[d] = pc[d]
        /\ \A p \in PAIs : history[p] \subseteq history'[p]
    BY CallFacts DEF Save, IInv, TypeOK
  <1>2. kind[c] = "main" => Opening(c) \subseteq conv[c]
    BY DEF ConvInv, ConvOf
  <1>3. ConvOf(c)'
    BY <1>1, <1>2 DEF ConvOf, Talking, Leaving, Target, Home, Opening
  <1> QED BY <1>1, <1>3, ConvMove

\* A call with nothing in its conversation leaves its turn or waits.
LEMMA DropConv ==
    ASSUME IInv, ConvInv, NEW c \in Calls, NEW e \in Calls, NEW v \in PCs \ (Talking \cup {"replied"}),
           NEW w \in PCs \ (Talking \cup {"replied"}),
           pc' = [pc EXCEPT ![c] = v, ![e] = w], conv'[c] = {}, conv'[e] = {},
           \A d \in Calls \ {c, e} : conv'[d] = conv[d] /\ kind'[d] = kind[d],
           history' = history
    PROVE  ConvInv'
  <1>1. /\ pc'[c] \in {v, w} /\ pc'[e] = w
        /\ \A d \in Calls \ {c, e} : pc'[d] = pc[d]
    BY DEF IInv, TypeOK
  <1>2. ConvOf(c)' /\ ConvOf(e)'
    BY <1>1 DEF ConvOf, Talking
  <1> QED BY <1>1, <1>2, ConvMove

LEMMA OneDropConv ==
    ASSUME IInv, ConvInv, NEW c \in Calls, NEW v \in PCs \ (Talking \cup {"replied"}),
           pc' = [pc EXCEPT ![c] = v], conv'[c] = {},
           \A d \in Calls \ {c} : conv'[d] = conv[d] /\ kind'[d] = kind[d],
           history' = history
    PROVE  ConvInv'
  <1>1. pc'[c] = v /\ \A d \in Calls \ {c} : pc'[d] = pc[d]
    BY DEF IInv, TypeOK
  <1>2. ConvOf(c)'
    BY <1>1 DEF ConvOf, Talking
  <1> QED BY <1>1, <1>2, ConvMove

\* Who drains the queue of a window is the turn that opened it.
LEMMA DrainsOwn ==
    ASSUME IInv, NEW c \in Calls, pc[c] = "model", live[Target(c)] # {}
    PROVE  opener[Target(c)] = c /\ kind[c] = "main"
  <1>1. Target(c) \in PAIs /\ slugHolder[Target(c)] = c
    BY CallFacts DEF IInv, HolderInv, InTurn, Suspended
  <1> QED BY <1>1 DEF IInv, WindowHasTurn

LEMMA ConvTurn ==
    ASSUME MailInv, NEW c \in Calls, Turn(c) \/ Return(c)
    PROVE  ConvInv'
  <1> USE DEF MailInv
  <1>0. pc \in [Calls -> PCs] /\ conv \in [Calls -> SUBSET Msgs] /\ kind \in [Calls -> {"compact", "main"}]
    BY DEF IInv, TypeOK
  <1>t. ConvOf(c) /\ Target(c) \in PAIs
    BY CallFacts DEF ConvInv
  <1>1. CASE AcquireSlug(c)
    BY <1>1, BeginConv DEF AcquireSlug
  <1>2. CASE DrainInjected(c)
    <2>1. /\ conv'[c] = conv[c] \cup live[Target(c)] /\ \A d \in Calls \ {c} : conv'[d] = conv[d]
          /\ UNCHANGED <<pc, kind, history>> /\ pc[c] = "model" /\ live[Target(c)] # {}
      BY <1>0, <1>2 DEF DrainInjected
    <2>2. kind[c] = "main"
      BY <2>1, DrainsOwn
    <2>3. \A m \in live[Target(c)] : m \in Msgs /\ To[m] = Target(c) /\ m \notin Overclock
      BY <1>t DEF IInv, TypeOK, FreshInv, FreshOf, LiveInv
    <2>4. ConvOf(c)'
      BY <1>t, <2>1, <2>2, <2>3 DEF ConvOf, Talking, Target, Home, Opening
    <2> QED BY <2>1, <2>4, ConvMove
  <1>3. CASE Reply(c)
    <2>1. CASE pc' = [pc EXCEPT ![c] = "review"] /\ UNCHANGED <<kind, conv, history>>
      <3>1. pc'[c] = "review" /\ pc[c] = "model" /\ \A d \in Calls \ {c} : pc'[d] = pc[d]
        BY <1>0, <1>3, <2>1 DEF Reply
      <3>2. ConvOf(c)'
        BY <1>t, <2>1, <3>1 DEF ConvOf, Talking, Target, Home, Opening
      <3> QED BY <2>1, <3>1, <3>2, ConvMove
    <2>2. CASE pc' = [pc EXCEPT ![c] = "replied"] /\ Save(c) /\ kind' = kind
      BY <1>3, <2>2, SaveConv DEF Reply, Talking, Leaving
    <2> QED BY <1>3, <2>1, <2>2 DEF Reply
  <1>4. CASE ReviewDone(c)
    BY <1>4, SaveConv DEF ReviewDone, Talking, Leaving
  <1>5. CASE RetryableError(c)
    <2>1. /\ pc'[c] \in {"model", "backoff"} /\ UNCHANGED <<kind, history>>
          /\ conv'[c] = (IF kind[c] = "main" THEN Opening(c) ELSE {})
          /\ \A d \in Calls \ {c} : conv'[d] = conv[d] /\ pc'[d] = pc[d]
      BY <1>0, <1>5 DEF RetryableError
    <2>2. ConvOf(c)'
      BY <1>0, <2>1, OpeningFacts DEF ConvOf, Talking, Target, Home, Opening
    <2> QED BY <2>1, <2>2, ConvMove
  <1>6. CASE BackoffDone(c)
    <2>1. /\ pc[c] = "backoff" /\ pc'[c] = "model" /\ UNCHANGED <<kind, conv, history>>
          /\ \A d \in Calls \ {c} : pc'[d] = pc[d]
      BY <1>0, <1>6 DEF BackoffDone
    <2>2. ConvOf(c)'
      BY <1>t, <2>1 DEF ConvOf, Talking, Target, Home, Opening
    <2> QED BY <2>1, <2>2, ConvMove
  <1>7. CASE FailQuietly(c)
    <2>1. pc' = [pc EXCEPT ![c] = "failed"] /\ conv' = [conv EXCEPT ![c] = {}] /\ UNCHANGED <<kind, history>>
      BY <1>7 DEF FailQuietly
    <2>2. "failed" \in PCs \ (Talking \cup {"replied"})
      BY DEF PCs, Leaving, Talking
    <2> QED BY <1>0, <2>1, <2>2, OneDropConv
  <1>8. CASE Escalate(c)
    <2>1. /\ pc' = [pc EXCEPT ![c] = "escalate", ![Nested(c)] = "slug"] /\ conv' = [conv EXCEPT ![c] = {}]
          /\ UNCHANGED <<kind, history>> /\ pc[c] = "model" /\ Target(c) # Root
      BY <1>8 DEF Escalate
    <2>2. {"escalate", "slug"} \subseteq PCs \ (Talking \cup {"replied"})
      BY DEF PCs, Suspended, Talking
    <2>3. Nested(c) \in Calls /\ c[2] = 0 /\ c = <<c[1], 0>> /\ c[1] \in Tasks
      BY <2>1, CallFacts
    <2>4. pc[Nested(c)] = "off"
      BY <2>1, <2>3 DEF IInv, NestInv, Nested
    <2>5. conv[Nested(c)] = {}
      BY <2>3, <2>4 DEF ConvInv, ConvOf, Talking
    <2>6. conv'[c] = {} /\ conv'[Nested(c)] = {} /\ \A d \in Calls \ {c} : conv'[d] = conv[d]
      BY <1>0, <2>1, <2>3, <2>5
    <2> QED BY <2>1, <2>2, <2>3, <2>6, DropConv
  <1>9. CASE AfterCompact(c)
    BY <1>9, BeginConv DEF AfterCompact
  <1>10. CASE OverclockRound(c)
    BY <1>10, BeginConv DEF OverclockRound
  <1>11. CASE EndTask(c)
    <2>1. pc' = [pc EXCEPT ![c] = "off"] /\ kind' = [kind EXCEPT ![c] = "main"] /\ UNCHANGED <<conv, history>>
      BY <1>11 DEF EndTask, Forget
    <2>2. conv[c] = {} /\ "off" \in PCs \ (Talking \cup {"replied"})
      BY <1>t, <1>11 DEF EndTask, Ends, ConvOf, Talking, PCs
    <2> QED BY <1>0, <2>1, <2>2, OneDropConv
  <1>12. CASE EndNested(c)
    <2>1. PICK w \in {"unwind", "failed"} : pc' = [pc EXCEPT ![c] = "off", ![Outer(c)] = w]
      BY <1>12 DEF EndNested
    <2>2. kind' = [kind EXCEPT ![c] = "main"] /\ UNCHANGED <<conv, history>>
      BY <1>12 DEF EndNested, Forget
    <2>3. Outer(c) \in Calls /\ pc[Outer(c)] = "escalate"
      BY <1>12, CallFacts DEF EndNested, Ends, IInv, NestInv, Outer
    <2>4. conv[c] = {} /\ conv[Outer(c)] = {}
      BY <1>12, <2>3 DEF EndNested, Ends, ConvInv, ConvOf, Talking
    <2>5. {"off", "unwind", "failed"} \subseteq PCs \ (Talking \cup {"replied"})
      BY DEF PCs, Leaving, Talking
    <2> QED BY <1>0, <2>1, <2>2, <2>3, <2>4, <2>5, DropConv
  <1> QED BY <1>1, <1>2, <1>3, <1>4, <1>5, <1>6, <1>7, <1>8, <1>9, <1>10, <1>11, <1>12 DEF Turn, Return

LEMMA ConvTask ==
    ASSUME MailInv, NEW t \in Tasks, AcquireKernel(t) \/ Cancel(t)
    PROVE  ConvInv'
  <1> USE DEF MailInv
  <1>0. /\ pc \in [Calls -> PCs] /\ conv \in [Calls -> SUBSET Msgs]
        /\ {"slug", "unwind", "failed"} \subseteq PCs \ (Talking \cup {"replied"})
    BY DEF IInv, TypeOK, PCs, Leaving, Talking
  <1>1. CASE AcquireKernel(t)
    <2>1. pc' = [pc EXCEPT ![<<t, 0>>] = "slug"] /\ UNCHANGED <<conv, kind, history>> /\ <<t, 0>> \in Calls
          /\ pc[<<t, 0>>] = "kernel"
      BY <1>1, TaskFacts DEF AcquireKernel
    <2>2. conv[<<t, 0>>] = {}
      BY <2>1 DEF ConvInv, ConvOf, Talking
    <2> QED BY <1>0, <2>1, <2>2, OneDropConv
  <1>c. PICK c \in Calls : c = Innermost(t)
    BY TaskFacts
  <1>2. CASE CancelWaiting(t)
    <2>1. pc' = [pc EXCEPT ![c] = "unwind"] /\ UNCHANGED <<conv, kind, history>> /\ pc[c] \in {"kernel", "slug"}
      BY <1>2, <1>c DEF CancelWaiting, CancelReaches, window
    <2>2. conv[c] = {}
      BY <2>1 DEF ConvInv, ConvOf, Talking
    <2> QED BY <1>0, <2>1, <2>2, OneDropConv
  <1>3. CASE CancelTurn(t)
    <2>1. pc' = [pc EXCEPT ![c] = "failed"] /\ Save(c) /\ kind' = kind /\ pc[c] = "model"
      BY <1>3, <1>c DEF CancelTurn, CancelReaches
    <2> QED BY <2>1, SaveConv DEF Talking, Leaving
  <1>4. CASE CancelDelay(t)
    <2>1. pc' = [pc EXCEPT ![c] = "unwind"] /\ conv' = [conv EXCEPT ![c] = {}] /\ UNCHANGED <<kind, history>>
      BY <1>4, <1>c DEF CancelDelay, CancelReaches
    <2> QED BY <1>0, <2>1, OneDropConv
  <1> QED BY <1>1, <1>2, <1>3, <1>4 DEF Cancel

\* Windows never hold an overclock message.
LEMMA LiveStep ==
    ASSUME MailInv,
           \/ \E c \in Calls : Turn(c) \/ Return(c)
           \/ \E t \in Tasks : AcquireKernel(t) \/ Cancel(t)
    PROVE  LiveInv'
  <1>1. live \in [PAIs -> SUBSET Msgs]
    BY DEF MailInv, IInv, TypeOK
  <1>2. ASSUME NEW c \in Calls, CloseWindow(c) PROVE \A p \in PAIs : live'[p] \subseteq live[p]
    BY <1>1, <1>2 DEF CloseWindow
  <1>3. ASSUME NEW c \in Calls, DrainInjected(c) PROVE \A p \in PAIs : live'[p] \subseteq live[p]
    BY <1>1, <1>3 DEF DrainInjected
  <1>4. ASSUME NEW c \in Calls, Turn(c) \/ Return(c) PROVE \A p \in PAIs : live'[p] \subseteq live[p]
    <2>1. Outer(c) \in Calls
      BY CallFacts
    <2>2. live' = live \/ (\E d \in Calls : CloseWindow(d)) \/ DrainInjected(c)
      BY <1>4, <2>1 DEF Turn, Return, AcquireSlug, Reply, ReviewDone, RetryableError, BackoffDone, FailQuietly,
                  Escalate, AfterCompact, OverclockRound, EndTask, EndNested, window
    <2> QED BY <1>2, <1>3, <2>2
  <1>5. ASSUME NEW t \in Tasks, AcquireKernel(t) \/ Cancel(t) PROVE \A p \in PAIs : live'[p] \subseteq live[p]
    <2>1. live' = live \/ \E d \in Calls : CloseWindow(d)
      BY <1>5, TaskFacts DEF AcquireKernel, Cancel, CancelWaiting, CancelTurn, CancelDelay, window
    <2> QED BY <1>2, <2>1
  <1> QED BY <1>4, <1>5 DEF MailInv, LiveInv

\* Nobody is cancelled on the way out, and whoever unwinds was interrupted.
LEMMA StopTurn ==
    ASSUME MailInv, NEW c \in Calls, Turn(c) \/ Return(c)
    PROVE  StopInv'
  <1> USE DEF MailInv
  <1>0. pc \in [Calls -> PCs] /\ c[1] \in Tasks
    BY CallFacts DEF IInv, TypeOK
  <1>1. CASE Turn(c)
    <2>1. cancelled' = cancelled /\ interrupted' = interrupted /\ c[1] \notin cancelled
      BY <1>1 DEF Turn, AcquireSlug, DrainInjected, Reply, ReviewDone, RetryableError, BackoffDone,
                  FailQuietly, Escalate, Runs
    <2>2. PICK v \in PCs \ {"unwind"} :
             \/ pc' = [pc EXCEPT ![c] = v]
             \/ pc' = [pc EXCEPT ![c] = v, ![Nested(c)] = "slug"]
             \/ pc' = pc
      BY <1>1 DEF Turn, AcquireSlug, DrainInjected, Reply, ReviewDone, RetryableError, BackoffDone,
                  FailQuietly, Escalate, Begin, PCs, Suspended, Leaving, calls
    <2>3. \A d \in Calls : pc'[d] \in Leaving => (pc'[d] = pc[d] \/ d = c) /\ (pc'[d] = "unwind" => pc'[d] = pc[d])
      BY <1>0, <2>2 DEF Leaving
    <2> QED BY <2>1, <2>3 DEF StopInv, StopOf
  <1>2. CASE AfterCompact(c) \/ OverclockRound(c)
    <2>1. pc' = [pc EXCEPT ![c] = "model"] /\ cancelled' = cancelled /\ interrupted' = interrupted
      BY <1>2 DEF AfterCompact, OverclockRound, Begin
    <2>2. \A d \in Calls : pc'[d] \in Leaving => pc'[d] = pc[d]
      BY <1>0, <2>1 DEF Leaving
    <2> QED BY <2>1, <2>2 DEF StopInv, StopOf
  <1>3. CASE EndTask(c)
    <2>1. /\ pc' = [pc EXCEPT ![c] = "off"] /\ cancelled' = cancelled /\ interrupted' = interrupted \ {c[1]}
          /\ pc[c] \in Leaving /\ c[2] = 0
      BY <1>3 DEF EndTask, Ends, Leaving
    <2>2. c = <<c[1], 0>> /\ c[1] \notin cancelled
      BY <2>1, CallFacts DEF StopInv, StopOf
    <2>3. pc[<<c[1], 1>>] = "off"
      BY <1>0, <2>1, <2>2 DEF IInv, NestInv, Leaving
    <2>4. \A d \in Calls : d[1] = c[1] => d = c \/ d = <<c[1], 1>>
      BY <2>2, CallFacts
    <2>5. \A d \in Calls : pc'[d] \in Leaving => pc'[d] = pc[d] /\ d[1] # c[1]
      BY <1>0, <2>1, <2>3, <2>4 DEF Leaving
    <2> QED BY <2>1, <2>2, <2>5 DEF StopInv, StopOf
  <1>4. CASE EndNested(c)
    <2>1. /\ pc' = [pc EXCEPT ![c] = "off", ![Outer(c)] = IF pc[c] = "unwind" THEN "unwind" ELSE "failed"]
          /\ cancelled' = cancelled /\ interrupted' = interrupted /\ pc[c] \in Leaving /\ Outer(c)[1] = c[1]
      BY <1>4 DEF EndNested, Ends, Leaving, Outer
    <2>2. c[1] \notin cancelled /\ (pc[c] = "unwind" => c[1] \in interrupted)
      BY <2>1 DEF StopInv, StopOf
    <2>3. \A d \in Calls : pc'[d] \in Leaving =>
             pc'[d] = pc[d] \/ (d[1] = c[1] /\ (pc'[d] = "unwind" => pc[c] = "unwind"))
      BY <1>0, <2>1 DEF Leaving
    <2> QED BY <2>1, <2>2, <2>3 DEF StopInv, StopOf
  <1> QED BY <1>1, <1>2, <1>3, <1>4 DEF Return

LEMMA StopTask ==
    ASSUME MailInv, NEW t \in Tasks, AcquireKernel(t) \/ Cancel(t)
    PROVE  StopInv'
  <1> USE DEF MailInv
  <1>0. pc \in [Calls -> PCs]
    BY DEF IInv, TypeOK
  <1>1. CASE AcquireKernel(t)
    <2>1. pc' = [pc EXCEPT ![<<t, 0>>] = "slug"] /\ cancelled' = cancelled /\ interrupted' = interrupted
      BY <1>1 DEF AcquireKernel
    <2>2. \A d \in Calls : pc'[d] \in Leaving => pc'[d] = pc[d]
      BY <1>0, <2>1 DEF Leaving
    <2> QED BY <2>1, <2>2 DEF StopInv, StopOf
  <1>2. CASE Cancel(t)
    <2>1. PICK v \in {"unwind", "failed"} : pc' = [pc EXCEPT ![Innermost(t)] = v]
      BY <1>2 DEF Cancel, CancelWaiting, CancelTurn, CancelDelay
    <2>2. cancelled' = cancelled \ {t} /\ interrupted' = interrupted /\ t \in cancelled
      BY <1>2 DEF Cancel, CancelWaiting, CancelTurn, CancelDelay, CancelReaches
    <2>3. Innermost(t)[1] = t
      BY DEF Innermost, Nested
    <2>4. \A d \in Calls : pc'[d] = pc[d] \/ d[1] = t
      BY <1>0, <2>1, <2>3
    <2> QED BY <2>2, <2>4 DEF StopInv, StopOf
  <1> QED BY <1>1, <1>2

\* The main loop's handlers: no call is on its way out.
LEMMA MailHandlers ==
    ASSUME MailInv,
           \/ \E m \in Msgs : Send(m) \/ Deliver(m)
           \/ \E p \in Beating : FireHeartbeat(p)
           \/ \E p \in PAIs : Interrupt(p)
           \/ StartReload \/ ReloadStep \/ UNCHANGED vars
    PROVE  ConvInv' /\ LiveInv' /\ StopInv'
  <1> USE DEF MailInv
  <1>0. /\ pc \in [Calls -> PCs] /\ live \in [PAIs -> SUBSET Msgs] /\ \A m \in Msgs : To[m] \in PAIs
        /\ Beating \subseteq Tasks /\ Msgs \subseteq Tasks
    BY NudgeAssumption DEF IInv, TypeOK, Tasks
  <1>1. /\ UNCHANGED <<kind, conv, history>>
        /\ pc' = pc \/ \E t \in Tasks : Dispatch(t)
    BY <1>0 DEF Send, Deliver, FireHeartbeat, Interrupt, StartReload, ReloadStep, Drained, DrainTimeout,
                ReloadDone, DrainNext, DrainAcquire, KernelVars, calls, vars
  <1>2. \A d \in Calls : pc'[d] = pc[d] \/ pc'[d] = "kernel"
    <2>1. CASE pc' = pc
      BY <2>1
    <2>2. ASSUME NEW t \in Tasks, Dispatch(t) PROVE \A d \in Calls : pc'[d] = pc[d] \/ pc'[d] = "kernel"
      BY <1>0, <2>2 DEF Dispatch
    <2> QED BY <1>1, <2>1, <2>2
  <1>3. ConvInv'
    <2>1. ASSUME NEW t \in Tasks, Dispatch(t), pc[<<t, 0>>] = "off" PROVE ConvInv'
      <3>1. pc' = [pc EXCEPT ![<<t, 0>>] = "kernel"] /\ <<t, 0>> \in Calls
        BY <2>1, TaskFacts DEF Dispatch
      <3>2. conv[<<t, 0>>] = {} /\ "kernel" \in PCs \ (Talking \cup {"replied"})
        BY <2>1, <3>1 DEF ConvInv, ConvOf, Talking, PCs
      <3> QED BY <1>1, <3>1, <3>2, OneDropConv
    <2>2. CASE pc' = pc
      BY <1>1, <2>2 DEF ConvInv, ConvOf, Target, Home, Opening
    <2>3. pc' = pc \/ \E t \in Tasks : Dispatch(t) /\ pc[<<t, 0>>] = "off"
      <3>1. ASSUME NEW m \in Msgs, Deliver(m), pc' # pc PROVE \E t \in Tasks : Dispatch(t) /\ pc[<<t, 0>>] = "off"
        BY <1>0, <3>1 DEF Deliver, IInv, FreshInv, FreshOf
      <3>2. ASSUME NEW p \in Beating, FireHeartbeat(p), pc' # pc
            PROVE  \E t \in Tasks : Dispatch(t) /\ pc[<<t, 0>>] = "off"
        <4>1. Active(p) = {} /\ Dispatch(p) /\ p \in Tasks /\ Home(p) = p
          BY <1>0, <3>2, NudgeAssumption DEF FireHeartbeat, Home
        <4> QED BY <4>1 DEF Active
      <3> QED BY <3>1, <3>2 DEF Send, Interrupt, StartReload, ReloadStep, Drained, DrainTimeout,
                ReloadDone, DrainNext, DrainAcquire, KernelVars, calls, vars
    <2> QED BY <2>1, <2>2, <2>3
  <1>4. LiveInv'
    <2>1. ASSUME NEW m \in Msgs, Deliver(m) PROVE \A p \in PAIs : live'[p] \subseteq live[p] \cup (Msgs \ Overclock)
      BY <1>0, <2>1 DEF Deliver, CanInject
    <2>2. live' = live \/ \E m \in Msgs : Deliver(m)
      BY DEF Send, FireHeartbeat, Interrupt, StartReload, ReloadStep, Drained, DrainTimeout,
             ReloadDone, DrainNext, DrainAcquire, KernelVars, window, vars
    <2> QED BY <2>1, <2>2 DEF LiveInv
  <1>5. StopInv'
    <2>1. \A d \in Calls : pc'[d] \in Leaving => pc'[d] = pc[d]
      BY <1>2 DEF Leaving
    <2>2. CASE cancelled' = cancelled /\ interrupted' = interrupted
      BY <2>1, <2>2 DEF StopInv, StopOf
    <2>3. ASSUME NEW p \in PAIs, Interrupt(p) PROVE StopInv'
      <3>1. /\ \A d \in Calls : pc[d] \notin Leaving
            /\ cancelled' = cancelled \cup Active(p) /\ interrupted' = interrupted \cup Active(p)
        BY <2>3 DEF Interrupt, Serving, Quiet
      <3> QED BY <2>1, <3>1 DEF StopInv, StopOf
    <2>4. (cancelled' = cancelled /\ interrupted' = interrupted) \/ \E p \in PAIs : Interrupt(p)
      BY DEF Send, Deliver, FireHeartbeat, StartReload, ReloadStep, Drained, DrainTimeout,
             ReloadDone, DrainNext, DrainAcquire, KernelVars, vars
    <2> QED BY <2>2, <2>3, <2>4
  <1> QED BY <1>3, <1>4, <1>5

LEMMA MailInit == Init => MailInv
  <1> SUFFICES ASSUME Init PROVE MailInv
    OBVIOUS
  <1>1. ConvInv
    BY DEF Init, ConvInv, ConvOf, Talking
  <1>2. LiveInv /\ StopInv
    BY DEF Init, LiveInv, StopInv, StopOf, Leaving
  <1> QED BY <1>1, <1>2, InvInit DEF MailInv

LEMMA MailNext == MailInv /\ [Next]_vars => MailInv'
  <1> SUFFICES ASSUME MailInv, [Next]_vars PROVE MailInv'
    OBVIOUS
  <1>1. IInv'
    BY InvNext DEF MailInv
  <1>2. CASE \E c \in Calls : Turn(c) \/ Return(c)
    BY <1>1, <1>2, ConvTurn, LiveStep, StopTurn DEF MailInv
  <1>3. CASE \E t \in Tasks : AcquireKernel(t) \/ Cancel(t)
    BY <1>1, <1>3, ConvTask, LiveStep, StopTask DEF MailInv
  <1>4. CASE \/ \E m \in Msgs : Send(m) \/ Deliver(m)
             \/ \E p \in Beating : FireHeartbeat(p)
             \/ \E p \in PAIs : Interrupt(p)
             \/ StartReload \/ ReloadStep \/ UNCHANGED vars
    BY <1>1, <1>4, MailHandlers DEF MailInv
  <1> QED BY <1>2, <1>3, <1>4 DEF Next

-----------------------------------------------------------------------------
(* The refinement of Mailbox: how a step changes the status of messages.   *)

Stays(m) == Status(m)' = Status(m)
Goes(m, from, to) == Status(m) = from /\ Status(m)' = to
Moved(p, from, to) == \A m \in Msgs : Stays(m) \/ (To[m] = p /\ Goes(m, from, to))

\* What a step of the kernel may look like from the mailbox.
MailStep ==
    \/ \A m \in Msgs : Stays(m)
    \/ \E m \in Msgs :
          /\ Goes(m, "unsent", "pending") \/ (Goes(m, "pending", "lost") /\ m \in interrupted)
          /\ \A n \in Msgs \ {m} : Stays(n)
    \/ \E p \in PAIs : Moved(p, "pending", "read") \/ Moved(p, "read", "kept") \/ Moved(p, "read", "lost")

LEMMA StatusIs ==
    ASSUME NEW m \in Msgs
    PROVE  Status(m) = IF m \in history[To[m]] THEN "kept"
                       ELSE IF Reading(m) THEN "read"
                       ELSE IF Pending(m) THEN "pending"
                       ELSE IF m \in sent THEN "lost" ELSE "unsent"
  BY DEF Status

LEMMA StatusWillBe ==
    ASSUME NEW m \in Msgs
    PROVE  Status(m)' = IF m \in history'[To[m]] THEN "kept"
                        ELSE IF Reading(m)' THEN "read"
                        ELSE IF Pending(m)' THEN "pending"
                        ELSE IF m \in sent' THEN "lost" ELSE "unsent"
  BY DEF Status

\* In a spool or a window; Queued is the rest of Pending.
Loose(m) == m \in spool \/ m \in live[To[m]]

LEMMA PendingIs ==
    ASSUME NEW m \in Msgs
    PROVE  (Pending(m) <=> Loose(m) \/ Queued(m)) /\ (Pending(m)' <=> Loose(m)' \/ Queued(m)')
  BY DEF Pending, Loose, Queued

\* A window that closes gives its messages back to the spool.
LEMMA LooseStays ==
    ASSUME IInv, NEW m \in Msgs
    PROVE  /\ UNCHANGED <<spool, live>> => (Loose(m)' <=> Loose(m))
           /\ \A c \in Calls : CloseWindow(c) => (Loose(m)' <=> Loose(m))
  <1>1. UNCHANGED <<spool, live>> => (Loose(m)' <=> Loose(m))
    BY DEF Loose
  <1>2. ASSUME NEW c \in Calls, CloseWindow(c) PROVE Loose(m)' <=> Loose(m)
    <2>1. To[m] \in PAIs /\ Target(c) \in PAIs /\ live \in [PAIs -> SUBSET Msgs]
      BY NudgeAssumption, CallFacts DEF IInv, TypeOK
    <2>2. \A p \in PAIs : m \in live[p] => p = To[m]
      BY DEF IInv, FreshInv, FreshOf
    <2>3. CASE opener[Target(c)] = c
      <3>1. spool' = spool \cup live[Target(c)] /\ live' = [live EXCEPT ![Target(c)] = {}]
        BY <1>2, <2>3 DEF CloseWindow
      <3>2. live'[To[m]] = IF To[m] = Target(c) THEN {} ELSE live[To[m]]
        BY <2>1, <3>1
      <3> QED BY <2>1, <2>2, <3>1, <3>2 DEF Loose
    <2>4. CASE opener[Target(c)] # c
      BY <1>2, <2>4 DEF CloseWindow, Loose
    <2> QED BY <2>3, <2>4
  <1> QED BY <1>1, <1>2

\* Inside a turn and on the way to its end only the kind matters.
LEMMA QueuedInTurn ==
    ASSUME IInv, NEW m \in Msgs, NEW c \in Calls, NEW v \in InTurn, pc[c] \in InTurn,
           pc' = [pc EXCEPT ![c] = v], kind' = kind
    PROVE  Queued(m)' <=> Queued(m)
  <1>1. pc \in [Calls -> PCs] /\ <<m, 0>> \in Calls
    BY DEF IInv, TypeOK, Calls, Tasks
  <1>2. CASE c = <<m, 0>>
    BY <1>1, <1>2 DEF Queued, InTurn, Suspended
  <1>3. CASE c # <<m, 0>>
    BY <1>1, <1>3 DEF Queued
  <1> QED BY <1>2, <1>3

LEMMA QueuedOther ==
    ASSUME NEW m \in Msgs, pc'[<<m, 0>>] = pc[<<m, 0>>], kind'[<<m, 0>>] = kind[<<m, 0>>]
    PROVE  Queued(m)' <=> Queued(m)
  BY DEF Queued

\* A message in a conversation was sent and waits nowhere else.
LEMMA ReadFacts ==
    ASSUME MailInv, NEW c \in Calls, NEW m \in conv[c]
    PROVE  m \in Msgs /\ m \in sent /\ ~Pending(m) /\ Reading(m) /\ To[m] = Target(c)
  <1>1. m \in Msgs /\ Reading(m) /\ To[m] = Target(c)
    BY DEF MailInv, IInv, TypeOK, ConvInv, ConvOf, Reading
  <1>2. m \in sent
    BY SentFacts DEF MailInv
  <1>3. CASE m \notin Overclock
    BY <1>1, <1>2, <1>3 DEF MailInv, IInv, NoRedelivery
  <1>4. CASE m \in Overclock
    <2>1. c = <<m, 0>> /\ pc[c] \in Talking /\ kind[c] = "main" /\ To[m] \in PAIs
      BY <1>4, NudgeAssumption DEF MailInv, ConvInv, ConvOf
    <2> QED BY <1>1, <1>2, <2>1, OwnTurn DEF MailInv, IInv, Talking
  <1> QED BY <1>1, <1>2, <1>3, <1>4

SamePending(m) == m \in history[To[m]] \/ (Pending(m)' <=> Pending(m))

\* Nothing is read or saved.
LEMMA AllStay ==
    ASSUME NEW m \in Msgs, SamePending(m), UNCHANGED <<conv, history, sent>>
    PROVE  Stays(m)
  <1>1. Reading(m)' <=> Reading(m)
    BY DEF Reading
  <1> QED BY <1>1, StatusIs, StatusWillBe DEF Stays, SamePending

\* A conversation is dropped, saved, or takes messages up.
LEMMA DropMoves ==
    ASSUME MailInv, NEW c \in Calls, NEW S \in SUBSET conv[c], conv' = [conv EXCEPT ![c] = S],
           UNCHANGED <<history, sent>>, \A m \in Msgs : SamePending(m)
    PROVE  Moved(Target(c), "read", "lost")
  <1> SUFFICES ASSUME NEW m \in Msgs PROVE Stays(m) \/ (To[m] = Target(c) /\ Goes(m, "read", "lost"))
    BY DEF Moved
  <1>1. conv \in [Calls -> SUBSET Msgs]
    BY DEF MailInv, IInv, TypeOK
  <1>2. Reading(m)' => Reading(m)
    BY <1>1 DEF Reading
  <1>3. CASE m \in history[To[m]] \/ Reading(m)' \/ ~Reading(m)
    BY <1>2, <1>3, StatusIs, StatusWillBe DEF Stays, SamePending
  <1>4. CASE m \notin history[To[m]] /\ ~Reading(m)' /\ Reading(m)
    <2>1. m \in conv[c]
      BY <1>1, <1>4 DEF Reading
    <2>2. m \in sent /\ ~Pending(m) /\ To[m] = Target(c)
      BY <2>1, ReadFacts
    <2> QED BY <1>4, <2>2, StatusIs, StatusWillBe DEF Goes, SamePending
  <1> QED BY <1>3, <1>4

LEMMA SaveMoves ==
    ASSUME MailInv, NEW c \in Calls, Save(c), sent' = sent, \A m \in Msgs : SamePending(m)
    PROVE  Moved(Target(c), "read", "kept")
  <1> SUFFICES ASSUME NEW m \in Msgs PROVE Stays(m) \/ (To[m] = Target(c) /\ Goes(m, "read", "kept"))
    BY DEF Moved
  <1>1. conv \in [Calls -> SUBSET Msgs] /\ history \in [PAIs -> SUBSET Msgs] /\ To[m] \in PAIs /\ Target(c) \in PAIs
    BY NudgeAssumption, CallFacts DEF MailInv, IInv, TypeOK
  <1>2. /\ \A d \in Calls : conv'[d] = IF d = c THEN {} ELSE conv[d]
        /\ history'[To[m]] = IF To[m] = Target(c) THEN history[To[m]] \cup conv[c] ELSE history[To[m]]
    BY <1>1 DEF Save
  <1>3. CASE m \in conv[c]
    <2>1. Reading(m) /\ To[m] = Target(c)
      BY <1>3, ReadFacts
    <2> QED BY <1>2, <1>3, <2>1, StatusIs, StatusWillBe DEF Stays, Goes
  <1>4. CASE m \notin conv[c]
    <2>1. Reading(m)' <=> Reading(m)
      BY <1>2, <1>4 DEF Reading
    <2>2. m \in history'[To[m]] <=> m \in history[To[m]]
      BY <1>2, <1>4
    <2> QED BY <2>1, <2>2, StatusIs, StatusWillBe DEF Stays, SamePending
  <1> QED BY <1>3, <1>4

LEMMA TakeMoves ==
    ASSUME MailInv, NEW c \in Calls, NEW S \in SUBSET Msgs, conv' = [conv EXCEPT ![c] = conv[c] \cup S],
           UNCHANGED <<history, sent>>,
           \A m \in S : To[m] = Target(c) /\ (Pending(m) \/ m \in history[To[m]]),
           \A m \in Msgs \ S : SamePending(m)
    PROVE  Moved(Target(c), "pending", "read")
  <1> SUFFICES ASSUME NEW m \in Msgs PROVE Stays(m) \/ (To[m] = Target(c) /\ Goes(m, "pending", "read"))
    BY DEF Moved
  <1>1. conv \in [Calls -> SUBSET Msgs]
    BY DEF MailInv, IInv, TypeOK
  <1>2. \A d \in Calls : conv'[d] = IF d = c THEN conv[c] \cup S ELSE conv[d]
    BY <1>1
  <1>3. CASE m \in S
    <2>1. Reading(m)' /\ To[m] = Target(c) /\ (Pending(m) \/ m \in history[To[m]])
      BY <1>2, <1>3 DEF Reading
    <2> QED BY <2>1, StatusIs, StatusWillBe DEF Stays, Goes
  <1>4. CASE m \notin S
    <2>1. Reading(m)' <=> Reading(m)
      BY <1>2, <1>4 DEF Reading
    <2> QED BY <1>4, <2>1, StatusIs, StatusWillBe DEF Stays, SamePending
  <1> QED BY <1>3, <1>4

\* A nudge that unwinds before its main turn takes its message with it.
LEMMA UnwindMoves ==
    ASSUME MailInv, NEW c \in Calls, pc[c] # "off", pc'[c] = "unwind", c[1] \in interrupted,
           UNCHANGED <<conv, history, sent>>,
           \A m \in Msgs : Loose(m)' <=> Loose(m),
           \A m \in Msgs : c # <<m, 0>> => (Queued(m)' <=> Queued(m))
    PROVE  MailStep
  <1>1. ASSUME NEW m \in Msgs, c # <<m, 0>> PROVE Stays(m)
    BY <1>1, AllStay, PendingIs DEF SamePending
  <1>2. ASSUME NEW m \in Msgs, c = <<m, 0>> PROVE Stays(m) \/ (Goes(m, "pending", "lost") /\ m \in interrupted)
    <2>1. To[m] \in PAIs /\ m \in interrupted
      BY <1>2, NudgeAssumption
    <2>2. ~Loose(m) /\ m \in sent /\ ~Queued(m)'
      BY <1>2, <2>1 DEF MailInv, IInv, FreshInv, FreshOf, Loose, Queued
    <2>3. ~Pending(m)'
      BY <2>2, PendingIs
    <2>4. Reading(m)' <=> Reading(m)
      BY DEF Reading
    <2> QED BY <2>1, <2>2, <2>3, <2>4, StatusIs, StatusWillBe DEF Stays, Goes
  <1>3. CASE \E m \in Msgs : c = <<m, 0>>
    <2>1. PICK m \in Msgs : c = <<m, 0>>
      BY <1>3
    <2>2. \A n \in Msgs \ {m} : Stays(n)
      BY <1>1, <2>1
    <2> QED BY <1>2, <2>1, <2>2 DEF MailStep
  <1>4. CASE ~ \E m \in Msgs : c = <<m, 0>>
    BY <1>1, <1>4 DEF MailStep
  <1> QED BY <1>3, <1>4

\* The steps of a turn.
LEMMA TurnMoves ==
    ASSUME MailInv, NEW c \in Calls, Turn(c)
    PROVE  MailStep
  <1> USE DEF MailInv
  <1>0. /\ pc \in [Calls -> PCs] /\ conv \in [Calls -> SUBSET Msgs] /\ kind \in [Calls -> {"compact", "main"}]
        /\ live \in [PAIs -> SUBSET Msgs] /\ Target(c) \in PAIs /\ \A m \in Msgs : To[m] \in PAIs /\ <<m, 0>> \in Calls
    <2>1. c \in Calls => Target(c) \in PAIs
      BY CallFacts
    <2>2. \A m \in Msgs : To[m] \in PAIs /\ <<m, 0>> \in Calls
      BY NudgeAssumption DEF Calls, Tasks
    <2> QED BY <2>1, <2>2 DEF IInv, TypeOK
  <1>1. CASE AcquireSlug(c)
    <2>1. PICK k \in {"compact", "main"} : Begin(c, k)
      BY <1>1 DEF AcquireSlug
    <2>2. pc[c] = "slug" /\ UNCHANGED <<sent, spool, live, history>>
      BY <1>1 DEF AcquireSlug
    <2>3. /\ pc'[c] = "model" /\ kind'[c] = k /\ conv' = [conv EXCEPT ![c] = IF k = "main" THEN Opening(c) ELSE {}]
          /\ \A d \in Calls \ {c} : pc'[d] = pc[d] /\ kind'[d] = kind[d]
      BY <1>0, <2>1 DEF Begin
    <2>4. PICK S \in SUBSET Msgs : S = IF k = "main" THEN Opening(c) ELSE {}
      BY DEF Opening
    <2>5. conv[c] = {}
      BY <2>2 DEF ConvInv, ConvOf, Talking
    <2>6. \A m \in S : To[m] = Target(c) /\ Pending(m)
      BY <2>2, <2>4, OpeningFacts DEF Pending
    <2>7. ASSUME NEW m \in Msgs \ S PROVE SamePending(m)
      <3>1. Loose(m)' <=> Loose(m)
        BY <2>2, LooseStays
      <3>2. CASE c = <<m, 0>>
        <4>1. k = "compact"
          BY <2>4, <2>7, <3>2 DEF Opening
        <4> QED BY <2>2, <2>3, <3>1, <3>2, <4>1, PendingIs DEF SamePending, Queued
      <3>3. CASE c # <<m, 0>>
        BY <1>0, <2>3, <3>1, <3>3, QueuedOther, PendingIs DEF SamePending
      <3> QED BY <3>2, <3>3
    <2>8. conv' = [conv EXCEPT ![c] = conv[c] \cup S]
      BY <2>3, <2>4, <2>5
    <2> QED BY <1>0, <2>2, <2>6, <2>7, <2>8, TakeMoves DEF MailStep
  <1>2. CASE DrainInjected(c)
    <2>1. /\ conv' = [conv EXCEPT ![c] = conv[c] \cup live[Target(c)]]
          /\ live' = [live EXCEPT ![Target(c)] = {}]
          /\ UNCHANGED <<sent, spool, pc, kind, history>>
      BY <1>2 DEF DrainInjected
    <2>2. PICK S \in SUBSET Msgs : S = live[Target(c)]
      BY <1>0
    <2>3. \A m \in S : To[m] = Target(c) /\ Pending(m)
      BY <1>0, <2>2 DEF IInv, FreshInv, FreshOf, Pending
    <2>4. ASSUME NEW m \in Msgs \ S PROVE SamePending(m)
      <3>1. m \in live'[To[m]] <=> m \in live[To[m]]
        BY <1>0, <2>1, <2>2, <2>4
      <3> QED BY <2>1, <3>1 DEF SamePending, Pending
    <2> QED BY <1>0, <2>1, <2>2, <2>3, <2>4, TakeMoves DEF MailStep
  <1>3. CASE Reply(c)
    <2>1. /\ CloseWindow(c) /\ pc[c] = "model" /\ kind' = kind /\ sent' = sent
      BY <1>3 DEF Reply
    <2>2. PICK v \in {"review", "replied"} : pc' = [pc EXCEPT ![c] = v]
      BY <1>3 DEF Reply
    <2>3. ASSUME NEW m \in Msgs PROVE SamePending(m)
      BY <2>1, <2>2, LooseStays, QueuedInTurn, PendingIs DEF SamePending, InTurn, Suspended
    <2>4. CASE UNCHANGED <<conv, history>>
      BY <2>1, <2>3, <2>4, AllStay DEF MailStep
    <2>5. CASE Save(c)
      BY <1>0, <2>1, <2>3, <2>5, SaveMoves DEF MailStep
    <2> QED BY <1>3, <2>4, <2>5 DEF Reply
  <1>4. CASE ReviewDone(c)
    <2>1. /\ Save(c) /\ pc[c] = "review" /\ pc' = [pc EXCEPT ![c] = "replied"]
          /\ UNCHANGED <<sent, spool, live, kind>>
      BY <1>4 DEF ReviewDone, window
    <2>2. ASSUME NEW m \in Msgs PROVE SamePending(m)
      BY <2>1, LooseStays, QueuedInTurn, PendingIs DEF SamePending, InTurn, Suspended
    <2> QED BY <1>0, <2>1, <2>2, SaveMoves DEF MailStep
  <1>5. CASE RetryableError(c)
    <2>1. /\ pc[c] = "model" /\ UNCHANGED <<sent, spool, live, kind, history>>
          /\ conv' = [conv EXCEPT ![c] = IF kind[c] = "main" THEN Opening(c) ELSE {}]
      BY <1>5 DEF RetryableError, window
    <2>2. PICK v \in {"model", "backoff"} : pc' = [pc EXCEPT ![c] = v]
      <3>1. pc' = pc => pc' = [pc EXCEPT ![c] = "model"]
        BY <1>0, <2>1
      <3> QED BY <1>5, <3>1 DEF RetryableError
    <2>3. ASSUME NEW m \in Msgs PROVE SamePending(m)
      BY <2>1, <2>2, LooseStays, QueuedInTurn, PendingIs DEF SamePending, InTurn, Suspended
    <2>4. PICK S \in SUBSET conv[c] : S = IF kind[c] = "main" THEN Opening(c) ELSE {}
      BY <2>1 DEF ConvInv, ConvOf, Talking
    <2> QED BY <1>0, <2>1, <2>3, <2>4, DropMoves DEF MailStep
  <1>6. CASE BackoffDone(c)
    <2>1. /\ pc[c] = "backoff" /\ pc' = [pc EXCEPT ![c] = "model"]
          /\ UNCHANGED <<sent, spool, live, kind, conv, history>>
      BY <1>6 DEF BackoffDone, window
    <2>2. ASSUME NEW m \in Msgs PROVE SamePending(m)
      BY <2>1, LooseStays, QueuedInTurn, PendingIs DEF SamePending, InTurn, Suspended
    <2> QED BY <2>1, <2>2, AllStay DEF MailStep
  <1>7. CASE FailQuietly(c)
    <2>1. /\ CloseWindow(c) /\ pc[c] = "model" /\ pc' = [pc EXCEPT ![c] = "failed"]
          /\ conv' = [conv EXCEPT ![c] = {}] /\ UNCHANGED <<sent, kind, history>>
      BY <1>7 DEF FailQuietly
    <2>2. ASSUME NEW m \in Msgs PROVE SamePending(m)
      BY <2>1, LooseStays, QueuedInTurn, PendingIs DEF SamePending, InTurn, Suspended
    <2> QED BY <1>0, <2>1, <2>2, DropMoves DEF MailStep
  <1>8. CASE Escalate(c)
    <2>1. /\ pc[c] = "model" /\ pc' = [pc EXCEPT ![c] = "escalate", ![Nested(c)] = "slug"]
          /\ conv' = [conv EXCEPT ![c] = {}] /\ UNCHANGED <<sent, spool, live, kind, history>>
      BY <1>8 DEF Escalate, window
    <2>2. ASSUME NEW m \in Msgs PROVE SamePending(m)
      <3>1. <<m, 0>> # Nested(c) /\ (pc'[<<m, 0>>] = IF c = <<m, 0>> THEN "escalate" ELSE pc[<<m, 0>>])
        BY <1>0, <2>1 DEF Nested
      <3>2. Queued(m)' <=> Queued(m)
        BY <2>1, <3>1 DEF Queued
      <3> QED BY <2>1, <3>2, LooseStays, PendingIs DEF SamePending
    <2> QED BY <1>0, <2>1, <2>2, DropMoves DEF MailStep
  <1> QED BY <1>1, <1>2, <1>3, <1>4, <1>5, <1>6, <1>7, <1>8 DEF Turn

\* The way out of a turn.
LEMMA ReturnMoves ==
    ASSUME MailInv, NEW c \in Calls, Return(c)
    PROVE  MailStep
  <1> USE DEF MailInv
  <1>0. /\ pc \in [Calls -> PCs] /\ conv \in [Calls -> SUBSET Msgs] /\ kind \in [Calls -> {"compact", "main"}]
        /\ Target(c) \in PAIs /\ \A m \in Msgs : To[m] \in PAIs /\ <<m, 0>> \in Calls
    <2>1. c \in Calls => Target(c) \in PAIs
      BY CallFacts
    <2>2. \A m \in Msgs : To[m] \in PAIs /\ <<m, 0>> \in Calls
      BY NudgeAssumption DEF Calls, Tasks
    <2> QED BY <2>1, <2>2 DEF IInv, TypeOK
  <1>1. CASE AfterCompact(c) \/ OverclockRound(c)
    <2>1. PICK k \in {"compact", "main"} : Begin(c, k) /\ (AfterCompact(c) => k = "main")
      BY <1>1 DEF AfterCompact, OverclockRound
    <2>2. pc[c] \in {"replied", "failed"} /\ UNCHANGED <<sent, spool, live, history>>
      BY <1>1 DEF AfterCompact, OverclockRound
    <2>3. /\ pc'[c] = "model" /\ kind'[c] = k /\ conv' = [conv EXCEPT ![c] = IF k = "main" THEN Opening(c) ELSE {}]
          /\ \A d \in Calls \ {c} : pc'[d] = pc[d] /\ kind'[d] = kind[d]
      BY <1>0, <2>1 DEF Begin
    <2>4. PICK S \in SUBSET Msgs : S = IF k = "main" THEN Opening(c) ELSE {}
      BY DEF Opening
    <2>5. conv[c] = {}
      BY <2>2 DEF ConvInv, ConvOf, Talking
    <2>6. ASSUME NEW m \in Opening(c) PROVE To[m] = Target(c) /\ (Pending(m) \/ m \in history[To[m]])
      <3>1. c = <<m, 0>> /\ To[m] = Target(c)
        BY OpeningFacts
      <3>2. CASE kind[c] = "compact"
        BY <2>2, <3>1, <3>2 DEF Pending
      <3>3. CASE kind[c] = "main"
        <4>1. pc[c] = "replied"
          BY <1>1, <3>3 DEF AfterCompact, OverclockRound
        <4> QED BY <3>1, <3>3, <4>1 DEF ConvInv, ConvOf
      <3> QED BY <1>0, <3>1, <3>2, <3>3
    <2>7. ASSUME NEW m \in Msgs \ S PROVE SamePending(m)
      <3>1. Loose(m)' <=> Loose(m)
        BY <2>2, LooseStays
      <3>2. CASE c = <<m, 0>>
        <4>1. k = "compact" /\ m \in Opening(c)
          BY <2>4, <2>7, <3>2 DEF Opening
        <4>2. pc[c] = "replied" /\ kind[c] = "main"
          BY <1>1, <2>1, <4>1 DEF OverclockRound
        <4> QED BY <2>6, <4>1, <4>2 DEF SamePending, ConvInv, ConvOf
      <3>3. CASE c # <<m, 0>>
        BY <1>0, <2>3, <3>1, <3>3, QueuedOther, PendingIs DEF SamePending
      <3> QED BY <3>2, <3>3
    <2>8. conv' = [conv EXCEPT ![c] = conv[c] \cup S]
      BY <2>3, <2>4, <2>5
    <2>9. \A m \in S : To[m] = Target(c) /\ (Pending(m) \/ m \in history[To[m]])
      BY <2>4, <2>6
    <2> QED BY <1>0, <2>2, <2>7, <2>8, <2>9, TakeMoves DEF MailStep
  <1>2. CASE EndTask(c)
    <2>1. /\ pc'[c] = "off" /\ \A d \in Calls \ {c} : pc'[d] = pc[d] /\ kind'[d] = kind[d]
          /\ pc[c] = "unwind" \/ (pc[c] \in {"replied", "failed"} /\ kind[c] = "main")
          /\ UNCHANGED <<sent, spool, live, conv, history>>
      BY <1>0, <1>2 DEF EndTask, Ends, Forget, window
    <2>2. ASSUME NEW m \in Msgs PROVE SamePending(m)
      <3>1. CASE c = <<m, 0>>
        <4>1. ~Queued(m) /\ ~Queued(m)'
          BY <2>1, <3>1 DEF Queued
        <4> QED BY <2>1, <4>1, LooseStays, PendingIs DEF SamePending
      <3>2. CASE c # <<m, 0>>
        BY <1>0, <2>1, <3>2, QueuedOther, LooseStays, PendingIs DEF SamePending
      <3> QED BY <3>1, <3>2
    <2> QED BY <2>1, <2>2, AllStay DEF MailStep
  <1>3. CASE EndNested(c)
    <2>o. PICK o \in Calls : o = Outer(c)
      BY CallFacts
    <2>1. /\ pc' = [pc EXCEPT ![c] = "off", ![o] = IF pc[c] = "unwind" THEN "unwind" ELSE "failed"]
          /\ CloseWindow(o) /\ kind' = [kind EXCEPT ![c] = "main"] /\ UNCHANGED <<sent, conv, history>>
          /\ c[2] = 1 /\ pc[c] \in Leaving
      BY <1>3, <2>o DEF EndNested, Ends, Forget, Leaving
    <2>2. /\ pc[o] = "escalate" /\ o # c /\ o[1] = c[1] /\ \A m \in Msgs : c # <<m, 0>>
      BY <1>3, <2>1, <2>o, CallFacts DEF Ends, EndNested, IInv, NestInv, Outer
    <2>3. \A m \in Msgs : Loose(m)' <=> Loose(m)
      BY <2>1, LooseStays
    <2>4. \A m \in Msgs : o # <<m, 0>> => (Queued(m)' <=> Queued(m))
      BY <1>0, <2>1, <2>2, QueuedOther
    <2>5. CASE pc[c] = "unwind"
      <3>1. c[1] \in interrupted
        BY <2>5 DEF StopInv, StopOf, Leaving
      <3>2. pc'[o] = "unwind"
        BY <1>0, <2>1, <2>2, <2>5
      <3> QED BY <2>1, <2>2, <2>3, <2>4, <3>1, <3>2, UnwindMoves
    <2>6. CASE pc[c] # "unwind"
      <3>1. pc'[o] = "failed" /\ kind'[o] = kind[o]
        BY <1>0, <2>1, <2>2, <2>6
      <3>2. ASSUME NEW m \in Msgs PROVE Queued(m)' <=> Queued(m)
        <4>1. CASE o = <<m, 0>>
          BY <2>2, <3>1, <4>1 DEF Queued
        <4> QED BY <2>4, <4>1
      <3>3. \A m \in Msgs : SamePending(m)
        BY <2>3, <3>2, PendingIs DEF SamePending
      <3> QED BY <2>1, <3>3, AllStay DEF MailStep
    <2> QED BY <2>5, <2>6
  <1> QED BY <1>1, <1>2, <1>3 DEF Return

\* The kernel's lock, and cancel().
LEMMA TaskMoves ==
    ASSUME MailInv, NEW t \in Tasks, AcquireKernel(t) \/ Cancel(t)
    PROVE  MailStep
  <1> USE DEF MailInv
  <1>0. pc \in [Calls -> PCs] /\ conv \in [Calls -> SUBSET Msgs] /\ kind \in [Calls -> {"compact", "main"}]
    BY DEF IInv, TypeOK
  <1>m. \A m \in Msgs : To[m] \in PAIs /\ <<m, 0>> \in Calls
    BY NudgeAssumption DEF Calls, Tasks
  <1>1. CASE AcquireKernel(t)
    <2>1. /\ pc[<<t, 0>>] = "kernel" /\ pc' = [pc EXCEPT ![<<t, 0>>] = "slug"]
          /\ UNCHANGED <<sent, spool, live, kind, conv, history>>
      BY <1>1 DEF AcquireKernel, window
    <2>2. ASSUME NEW m \in Msgs PROVE SamePending(m)
      <3>1. pc'[<<m, 0>>] = IF m = t THEN "slug" ELSE pc[<<m, 0>>]
        BY <1>0, <1>m, <2>1
      <3>2. Queued(m)' <=> Queued(m)
        BY <2>1, <3>1 DEF Queued
      <3> QED BY <2>1, <3>2, LooseStays, PendingIs DEF SamePending
    <2> QED BY <2>1, <2>2, AllStay DEF MailStep
  <1>c. PICK c \in Calls : c = Innermost(t)
    BY TaskFacts
  <1>t. c[1] = t /\ Target(c) \in PAIs
    BY <1>c, CallFacts DEF Innermost, Nested
  <1>2. CASE CancelWaiting(t)
    <2>1. /\ pc[c] \in {"kernel", "slug"} /\ pc' = [pc EXCEPT ![c] = "unwind"] /\ t \in cancelled
          /\ UNCHANGED <<sent, spool, live, kind, conv, history>>
      BY <1>2, <1>c DEF CancelWaiting, CancelReaches, window
    <2>2. c[1] \in interrupted /\ pc[c] # "off" /\ pc'[c] = "unwind"
      BY <1>0, <1>t, <2>1 DEF StopInv
    <2>3. \A m \in Msgs : Loose(m)' <=> Loose(m)
      BY <2>1, LooseStays
    <2>4. \A m \in Msgs : c # <<m, 0>> => (Queued(m)' <=> Queued(m))
      BY <1>0, <1>m, <2>1, QueuedOther
    <2> QED BY <2>1, <2>2, <2>3, <2>4, UnwindMoves
  <1>3. CASE CancelTurn(t)
    <2>1. /\ pc[c] = "model" /\ pc' = [pc EXCEPT ![c] = "failed"] /\ Save(c) /\ CloseWindow(c)
          /\ UNCHANGED <<sent, kind>>
      BY <1>3, <1>c DEF CancelTurn, CancelReaches
    <2>2. \A m \in Msgs : SamePending(m)
      BY <2>1, LooseStays, QueuedInTurn, PendingIs DEF SamePending, InTurn, Suspended
    <2> QED BY <1>t, <2>1, <2>2, SaveMoves DEF MailStep
  <1>4. CASE CancelDelay(t)
    <2>1. /\ pc[c] \in {"backoff", "review"} /\ pc' = [pc EXCEPT ![c] = "unwind"] /\ t \in cancelled
          /\ CloseWindow(c) /\ conv' = [conv EXCEPT ![c] = {}] /\ UNCHANGED <<sent, kind, history>>
      BY <1>4, <1>c DEF CancelDelay, CancelReaches
    <2>2. c[1] \in interrupted /\ pc[c] # "off" /\ pc'[c] = "unwind"
      BY <1>0, <1>t, <2>1 DEF StopInv
    <2>3. \A m \in Msgs : Loose(m)' <=> Loose(m)
      BY <2>1, LooseStays
    <2>4. \A m \in Msgs : c # <<m, 0>> => (Queued(m)' <=> Queued(m))
      BY <1>0, <1>m, <2>1, QueuedOther
    <2>5. CASE kind[c] = "compact"
      <3>1. conv' = conv
        BY <1>0, <2>1, <2>5 DEF ConvInv, ConvOf
      <3> QED BY <2>1, <2>2, <2>3, <2>4, <3>1, UnwindMoves
    <2>6. CASE kind[c] = "main"
      <3>1. ASSUME NEW m \in Msgs PROVE Queued(m)' <=> Queued(m)
        <4>1. CASE c = <<m, 0>>
          BY <2>1, <2>2, <2>6, <4>1 DEF Queued
        <4> QED BY <2>4, <4>1
      <3>2. \A m \in Msgs : SamePending(m)
        BY <2>3, <3>1, PendingIs DEF SamePending
      <3> QED BY <1>t, <2>1, <3>2, DropMoves DEF MailStep
    <2> QED BY <1>0, <2>5, <2>6
  <1> QED BY <1>1, <1>2, <1>3, <1>4 DEF Cancel

\* The main loop's handlers.
LEMMA HandlerMoves ==
    ASSUME MailInv,
           \/ \E m \in Msgs : Send(m) \/ Deliver(m)
           \/ \E p \in Beating : FireHeartbeat(p)
           \/ \E p \in PAIs : Interrupt(p)
           \/ StartReload \/ ReloadStep \/ UNCHANGED vars
    PROVE  MailStep
  <1> USE DEF MailInv
  <1>0. /\ pc \in [Calls -> PCs] /\ live \in [PAIs -> SUBSET Msgs]
        /\ \A m \in Msgs : To[m] \in PAIs /\ <<m, 0>> \in Calls /\ m \in Tasks
    BY NudgeAssumption DEF IInv, TypeOK, Calls, Tasks
  <1>1. ASSUME NEW m \in Msgs, Send(m) PROVE MailStep
    <2>1. /\ m \notin sent /\ sent' = sent \cup {m} /\ spool' = spool \cup {m}
          /\ UNCHANGED <<pc, kind, live, conv, history>>
      BY <1>1 DEF Send, calls, window
    <2>2. m \notin history[To[m]] /\ ~Reading(m) /\ ~Pending(m)
      BY <1>0, <2>1 DEF IInv, FreshInv, FreshOf, Reading, Pending
    <2>3. m \notin history'[To[m]] /\ ~Reading(m)' /\ Pending(m)'
      BY <2>1, <2>2 DEF Reading, Pending
    <2>4. Goes(m, "unsent", "pending")
      BY <2>1, <2>2, <2>3, StatusIs, StatusWillBe DEF Goes
    <2>5. ASSUME NEW n \in Msgs \ {m} PROVE Stays(n)
      <3>1. /\ n \in history'[To[n]] <=> n \in history[To[n]]
            /\ Reading(n)' <=> Reading(n)
            /\ Pending(n)' <=> Pending(n)
            /\ n \in sent' <=> n \in sent
        BY <2>1 DEF Reading, Pending
      <3> QED BY <3>1, StatusIs, StatusWillBe DEF Stays
    <2> QED BY <2>4, <2>5 DEF MailStep
  <1>2. ASSUME NEW m \in Msgs, Deliver(m) PROVE MailStep
    <2>1. m \in spool /\ spool' = spool \ {m} /\ UNCHANGED <<sent, kind, conv, history>>
      BY <1>2 DEF Deliver
    <2>2. ASSUME NEW n \in Msgs \ {m} PROVE Pending(n)' <=> Pending(n)
      <3>1. pc'[<<n, 0>>] = pc[<<n, 0>>]
        BY <1>0, <1>2, <2>2 DEF Deliver, Dispatch
      <3>2. live' = live \/ live' = [live EXCEPT ![To[m]] = live[To[m]] \cup {m}]
        BY <1>2 DEF Deliver
      <3>3. \A p \in PAIs : n \in live'[p] <=> n \in live[p]
        BY <1>0, <2>2, <3>2
      <3> QED BY <1>0, <2>1, <3>1, <3>3 DEF Pending
    <2>3. Pending(m) /\ Pending(m)'
      <3>1. m \in live'[To[m]] \/ pc'[<<m, 0>>] = "kernel"
        BY <1>0, <1>2 DEF Deliver, Dispatch
      <3> QED BY <2>1, <3>1 DEF Pending
    <2>4. \A n \in Msgs : SamePending(n)
      BY <2>2, <2>3 DEF SamePending
    <2> QED BY <2>1, <2>4, AllStay DEF MailStep
  <1>3. ASSUME NEW p \in Beating, FireHeartbeat(p) PROVE MailStep
    <2>1. UNCHANGED <<sent, spool, kind, live, conv, history>>
      BY <1>3 DEF FireHeartbeat, window
    <2>2. \A m \in Msgs : pc'[<<m, 0>>] = pc[<<m, 0>>]
      <3>1. \A m \in Msgs : m # p
        BY NudgeAssumption
      <3>2. pc' = pc \/ pc' = [pc EXCEPT ![<<p, 0>>] = "kernel"]
        BY <1>3 DEF FireHeartbeat, Dispatch
      <3> QED BY <1>0, <3>1, <3>2
    <2>3. \A m \in Msgs : SamePending(m)
      BY <2>1, <2>2 DEF SamePending, Pending
    <2> QED BY <2>1, <2>3, AllStay DEF MailStep
  <1>4. CASE (\E p \in PAIs : Interrupt(p)) \/ StartReload \/ ReloadStep \/ UNCHANGED vars
    <2>1. UNCHANGED <<sent, spool, pc, kind, live, conv, history>>
      BY <1>4 DEF Interrupt, StartReload, ReloadStep, Drained, DrainTimeout,
                  ReloadDone, DrainNext, DrainAcquire, KernelVars, calls, window, vars
    <2>2. \A m \in Msgs : SamePending(m)
      BY <2>1 DEF SamePending, Pending
    <2> QED BY <2>1, <2>2, AllStay DEF MailStep
  <1> QED BY <1>1, <1>2, <1>3, <1>4

LEMMA StepMoves ==
    ASSUME MailInv, [Next]_vars
    PROVE  MailStep
  BY TurnMoves, ReturnMoves, TaskMoves, HandlerMoves DEF Next

-----------------------------------------------------------------------------
THEOREM MailCorrect == Spec => []MailInv
  BY MailInit, MailNext, PTL DEF Spec

\* A message that no turn has taken is withdrawn only with its own nudge,
\* and only when an interrupt reached that nudge: a provider's failure, a
\* retry or a closing window gives it back instead.
THEOREM WithdrawCorrect == Spec => OnlyInterruptWithdraws
  <1>1. MailInv /\ [Next]_vars =>
           [\A m \in Msgs : Status(m) = "pending" /\ Status(m)' = "lost" => m \in interrupted]_vars
    <2> SUFFICES ASSUME MailInv, [Next]_vars, NEW m \in Msgs, Status(m) = "pending", Status(m)' = "lost"
                 PROVE  m \in interrupted
      OBVIOUS
    <2>1. MailStep
      BY StepMoves
    <2> QED BY <2>1 DEF MailStep, Stays, Goes, Moved
  <1> QED BY <1>1, MailCorrect, PTL DEF Spec, OnlyInterruptWithdraws

\* A step of the kernel is a step of the mailbox, or the mailbox stutters.
LEMMA MailboxMove ==
    ASSUME NEW p \in PAIs, NEW from, NEW to, Moved(p, from, to)
    PROVE  \/ \A m \in Msgs : Stays(m)
           \/ \E S \in SUBSET MB!For(p) : MB!Move(S, from, to)
  <1>1. PICK S \in SUBSET Msgs : S = {m \in Msgs : ~Stays(m)}
    OBVIOUS
  <1>2. \A m \in S : To[m] = p /\ Status(m) = from /\ Status(m)' = to
    BY <1>1 DEF Moved, Goes
  <1>3. S \subseteq MB!For(p)
    BY <1>2 DEF MB!For
  <1>4. \A m \in Msgs \ S : Status(m)' = Status(m)
    BY <1>1 DEF Stays
  <1>5. [m \in Msgs |-> Status(m)]' = [m \in Msgs |-> IF m \in S THEN to ELSE Status(m)]
    BY <1>2, <1>4
  <1>6. S # {} => MB!Move(S, from, to)
    BY <1>2, <1>5 DEF MB!Move
  <1>7. S = {} => \A m \in Msgs : Stays(m)
    BY <1>1
  <1> QED BY <1>3, <1>6, <1>7

LEMMA MailboxStep ==
    ASSUME MailInv, [Next]_vars
    PROVE  [MB!Next]_([m \in Msgs |-> Status(m)])
  <1>1. MailStep
    BY StepMoves
  <1>2. CASE \A m \in Msgs : Stays(m)
    BY <1>2 DEF Stays
  <1>3. ASSUME NEW m \in Msgs, Goes(m, "unsent", "pending") \/ Goes(m, "pending", "lost"),
               \A n \in Msgs \ {m} : Stays(n)
        PROVE  MB!Next
    <2>1. ASSUME NEW from, NEW to, Goes(m, from, to) PROVE MB!Move({m}, from, to)
      <3>1. [n \in Msgs |-> Status(n)]' = [n \in Msgs |-> IF n \in {m} THEN to ELSE Status(n)]
        BY <1>3, <2>1 DEF Stays, Goes
      <3> QED BY <2>1, <3>1 DEF MB!Move, Goes
    <2> QED BY <1>3, <2>1 DEF MB!Next, MB!Send, MB!Withdraw
  <1>4. ASSUME NEW p \in PAIs, Moved(p, "pending", "read") \/ Moved(p, "read", "kept") \/ Moved(p, "read", "lost")
        PROVE  MB!Next \/ \A m \in Msgs : Stays(m)
    BY <1>4, MailboxMove DEF MB!Next, MB!Take, MB!Keep, MB!Drop
  <1> QED BY <1>1, <1>2, <1>3, <1>4 DEF MailStep

\* The kernel implements the mailbox: whichever way a message travels, it is
\* read at most once, never returns to a queue after it was read, stays in
\* the history once it is there, and is lost only by being withdrawn with
\* its own nudge or with the turn that was reading it.
THEOREM MailboxCorrect == Spec => MailboxSpec
  <1>1. Init => MB!Init
    <2> SUFFICES ASSUME Init PROVE \A m \in Msgs : Status(m) = "unsent"
      BY DEF MB!Init
    <2>1. \A m \in Msgs : m \notin history[To[m]] /\ ~Reading(m) /\ ~Pending(m) /\ m \notin sent
      BY NudgeAssumption DEF Init, Reading, Pending, Calls, Tasks
    <2> QED BY <2>1, StatusIs
  <1>2. MailInv /\ [Next]_vars => [MB!Next]_([m \in Msgs |-> Status(m)])
    BY MailboxStep
  <1> QED BY <1>1, <1>2, MailCorrect, PTL DEF Spec, MailboxSpec, MB!Spec
=============================================================================
