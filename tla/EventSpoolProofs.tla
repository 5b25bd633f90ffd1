-------------------------- MODULE EventSpoolProofs --------------------------
(***************************************************************************)
(* Proofs about EventSpool, for any PAIs, events, threshold and number of  *)
(* boots: an event is dispatched at most once, in the order of the names   *)
(* unless the watch missed it, and a summary that reaches a PAI counts     *)
(* exactly what is in the archive, wherever boots are killed.              *)
(***************************************************************************)
EXTENDS EventSpool, FiniteSetTheorems, TLAPS

Born == {i \in Items : place[i] # "unborn"}

\* File names are given once.
NamesInv == Len(stamps) = Cardinality(Born)

\* A boot's number is new, and it starts with empty queues.
BootInv ==
    /\ kernel # "down" => boots > 0
    /\ kernel \notin {"catchup", "up"} => queue = <<>> /\ notices = <<>>
    /\ \A s \in Summaries :
          place[s] # "unborn" => s[2] <= boots /\ (kernel \in {"cleaning", "hooks"} => s[2] < boots)

\* No summary of an earlier boot survives the clean phase.
CleanInv ==
    \A s \in Summaries : place[s] = "spool" =>
        /\ kernel = "cleaning" => <<s, "spool">> \in todo
        /\ kernel # "hooks"
        /\ kernel \in {"backfill", "catchup", "up"} => s[2] = boots

\* The storms are disjoint; a summary counts what is archived for it and
\* what is still to be archived.
StormInv ==
    /\ \A p \in PAIs : storms[p] # {} => kernel = "backfill"
    /\ \A p \in PAIs : storms[p] \subseteq Spool \cap Events
    /\ \A p, q \in PAIs : p # q => storms[p] \cap storms[q] = {}
    /\ \A s \in Summaries : place[s] = "unborn" => archive[s] = {}

CountInv ==
    kernel = "backfill" => \A p \in PAIs :
        /\ Begun(p) =>
              /\ place[<<p, boots>>] = "spool"
              /\ counted[<<p, boots>>] = archive[<<p, boots>>] \cup storms[p]
              /\ Cardinality(counted[<<p, boots>>]) > Threshold
        /\ ~Begun(p) => storms[p] = {} \/ Cardinality(storms[p]) > Threshold

Good(s) == archive[s] = counted[s] /\ Cardinality(counted[s]) > Threshold

Known == Elements(queue) \cup Elements(notices) \cup Elements(handled)

SummaryInv ==
    \A s \in Summaries :
        /\ kernel \in {"catchup", "up"} /\ place[s] = "spool" => Good(s)
        /\ s \in Known => Good(s)
        /\ s \in Elements(handled) => place[s] = "read"

\* Only what was read has been dispatched, and that once.
ConsumedInv ==
    \A i \in Items, p \in PAIs :
        nudges[i][p] <= 1 /\ (nudges[i][p] > 0 => place[i] = "read")

-----------------------------------------------------------------------------
(* Sets and sequences. *)

\* PAIs, events and boots are finitely many, so are their files.
LEMMA ItemsFinite == IsFiniteSet(Items)
<1>1. IsFiniteSet(1..MaxBoots)
  BY FS_Interval, SpoolAssumption
<1>2. IsFiniteSet(Summaries)
  BY <1>1, FS_Product, SpoolAssumption DEF Summaries
<1> QED
  BY <1>2, FS_Union, SpoolAssumption DEF Items

\* The items that satisfy a condition are finitely many.
LEMMA SubsetFinite ==
    ASSUME NEW S \in SUBSET Items
    PROVE  IsFiniteSet(S) /\ Cardinality(S) \in Nat /\ Cardinality(S) <= Cardinality(Items)
BY ItemsFinite, FS_Subset, FS_CardinalityType

\* A summary is the pair of its PAI and its boot, and no event.
LEMMA SummaryFacts ==
    ASSUME NEW s \in Summaries
    PROVE  /\ s \in Items /\ s \notin Events
           /\ s[1] \in PAIs /\ s[2] \in 1..MaxBoots /\ s = <<s[1], s[2]>>
BY SpoolAssumption DEF Summaries, Items

\* Setting one place of a function keeps its type.
LEMMA UpdateType ==
    ASSUME NEW S, NEW T, NEW f \in [S -> T], NEW x \in S, NEW v \in T
    PROVE  [f EXCEPT ![x] = v] \in [S -> T]
OBVIOUS

\* What a queue holds after a path is put at its end ...
LEMMA AppendElements ==
    ASSUME NEW S, NEW q \in Seq(S), NEW x \in S
    PROVE  Append(q, x) \in Seq(S) /\ Elements(Append(q, x)) = Elements(q) \cup {x}
<1>1. Append(q, x) \in Seq(S)
  OBVIOUS
<1>2. DOMAIN Append(q, x) = (DOMAIN q) \cup {Len(q) + 1}
  OBVIOUS
<1>3. \A k \in DOMAIN q : Append(q, x)[k] = q[k]
  OBVIOUS
<1>4. Append(q, x)[Len(q) + 1] = x
  OBVIOUS
<1> QED
  BY <1>1, <1>2, <1>3, <1>4 DEF Elements

\* ... and after one is taken from its head.
LEMMA TailElements ==
    ASSUME NEW S, NEW q \in Seq(S), q # <<>>
    PROVE  /\ Tail(q) \in Seq(S) /\ Head(q) \in S
           /\ Elements(Tail(q)) \subseteq Elements(q) /\ Head(q) \in Elements(q)
<1>1. Tail(q) \in Seq(S) /\ Head(q) \in S
  OBVIOUS
<1>2. \A k \in DOMAIN Tail(q) : k + 1 \in DOMAIN q /\ Tail(q)[k] = q[k + 1]
  OBVIOUS
<1>3. 1 \in DOMAIN q /\ Head(q) = q[1]
  OBVIOUS
<1> QED
  BY <1>1, <1>2, <1>3 DEF Elements

\* An empty queue holds nothing.
LEMMA EmptyElements == Elements(<<>>) = {}
BY DEF Elements

\* A listing of the spool holds the files of the spool.
LEMMA ListingFacts ==
    ASSUME NEW q \in Listings
    PROVE  q \in Seq(Items) /\ Elements(q) = Spool
<1>1. Spool \in SUBSET Items
  BY DEF Spool
<1>2. Cardinality(Spool) \in Nat
  BY <1>1, SubsetFinite
<1>3. q \in [1..Cardinality(Spool) -> Spool] /\ Elements(q) = Spool
  BY DEF Listings
<1>4. q \in Seq(Spool)
  BY <1>2, <1>3
<1> QED
  BY <1>1, <1>3, <1>4

-----------------------------------------------------------------------------
(* Types. *)

Places == {"unborn", "tmp", "spool", "wiped", "archived", "bad", "read"}

\* An item gets its name with its file.
LEMMA NamedType ==
    ASSUME TypeOK, NamesInv, NEW i \in Items, place[i] = "unborn", Named(i),
           NEW v \in Places \ {"unborn"}, place' = [place EXCEPT ![i] = v]
    PROVE  /\ place' \in [Items -> Places]
           /\ stamps' \in Seq(Items) /\ Len(stamps') <= Cardinality(Items)
           /\ earlier' \in [Items -> SUBSET Items]
           /\ NamesInv'
<1>1. place \in [Items -> Places] /\ place' \in [Items -> Places]
  BY DEF TypeOK, Places
<1>2. Born' = Born \cup {i}
  BY <1>1 DEF Born
<1>3. i \notin Born /\ Born \in SUBSET Items /\ Born' \in SUBSET Items
  BY <1>1 DEF Born
<1>4. Cardinality(Born') = Cardinality(Born) + 1
  BY <1>2, <1>3, SubsetFinite, FS_AddElement
<1>5. stamps' \in Seq(Items) /\ Len(stamps') = Len(stamps) + 1
  BY DEF Named, TypeOK
<1>6. earlier' \in [Items -> SUBSET Items]
  BY DEF Named, TypeOK
<1>7. Cardinality(Born') <= Cardinality(Items)
  BY <1>3, SubsetFinite
<1> QED
  BY <1>1, <1>4, <1>5, <1>6, <1>7 DEF NamesInv

\* A file that moves keeps its name.
LEMMA MovedType ==
    ASSUME TypeOK, NamesInv, NEW i \in Items, place[i] # "unborn",
           NEW v \in Places \ {"unborn"}, place' = [place EXCEPT ![i] = v],
           UNCHANGED stamps
    PROVE  place' \in [Items -> Places] /\ NamesInv'
<1>1. place \in [Items -> Places] /\ place' \in [Items -> Places]
  BY DEF TypeOK, Places
<1>2. Born' = Born
  BY <1>1 DEF Born
<1> QED
  BY <1>1, <1>2 DEF NamesInv

\* Nothing is named when no file and no name changes.
LEMMA StayNames == UNCHANGED <<place, stamps>> /\ NamesInv => NamesInv'
BY DEF NamesInv, Born

\* Emitters keep the types: a file is named once, when it is written.
LEMMA TypeEmit ==
    ASSUME TypeOK, NamesInv, NEW e \in Events, EmitWrites(e) \/ EmitRenames(e)
    PROVE  TypeOK' /\ NamesInv'
<1>0. e \in Items
  BY DEF Items
<1>1. CASE EmitWrites(e)
  <2>1. "tmp" \in Places \ {"unborn"} /\ place[e] = "unborn" /\ Named(e)
        /\ place' = [place EXCEPT ![e] = "tmp"]
    BY <1>1 DEF EmitWrites, Places
  <2>2. /\ place' \in [Items -> Places]
        /\ stamps' \in Seq(Items) /\ Len(stamps') <= Cardinality(Items)
        /\ earlier' \in [Items -> SUBSET Items]
        /\ NamesInv'
    BY <1>0, <2>1, NamedType
  <2>3. content' \in [Items -> Content]
    BY <1>0, <1>1, SpoolAssumption DEF EmitWrites, TypeOK
  <2> QED
    BY <1>1, <2>2, <2>3 DEF EmitWrites, TypeOK, Places, clean, backfill, watch, done
<1>2. CASE EmitRenames(e)
  <2>1. "spool" \in Places \ {"unborn"} /\ place[e] # "unborn" /\ UNCHANGED stamps
        /\ place' = [place EXCEPT ![e] = "spool"]
    BY <1>2 DEF EmitRenames, Places
  <2>2. place' \in [Items -> Places] /\ NamesInv'
    BY <1>0, <2>1, MovedType
  <2>3. notices' \in Seq(Items) /\ gap' \subseteq Items
    BY <1>0, <1>2, AppendElements DEF EmitRenames, TypeOK
  <2> QED
    BY <1>2, <2>2, <2>3 DEF EmitRenames, TypeOK, Places, clean, backfill, done
<1> QED
  BY <1>1, <1>2

\* The clean phase keeps the types.
LEMMA TypeClean ==
    ASSUME TypeOK, NamesInv,
           \/ CleanLists \/ CleanDone
           \/ \E x \in todo : CleanUnlinks(x) \/ CleanRaises(x)
    PROVE  TypeOK' /\ NamesInv'
<1> USE DEF files, backfill, watch, done, clean, KernelRest
<1>1. CASE CleanLists
  <2>1. todo' \subseteq Items \X {"tmp", "spool"}
    BY <1>1 DEF CleanLists
  <2>2. boots' \in 0..MaxBoots
    BY <1>1, SpoolAssumption DEF CleanLists, TypeOK
  <2> QED
    BY <1>1, <2>1, <2>2, StayNames DEF CleanLists, TypeOK, Phases
<1>2. CASE CleanDone
  BY <1>2, StayNames DEF CleanDone, TypeOK, Phases
<1>3. ASSUME NEW x \in todo, CleanUnlinks(x) PROVE TypeOK' /\ NamesInv'
  <2>1. x[1] \in Items /\ x[2] \in {"tmp", "spool"}
    BY DEF TypeOK
  <2>2. "wiped" \in Places \ {"unborn"} /\ place[x[1]] # "unborn" /\ UNCHANGED stamps
        /\ place' = [place EXCEPT ![x[1]] = "wiped"]
    BY <1>3, <2>1 DEF CleanUnlinks, Places
  <2>3. place' \in [Items -> Places] /\ NamesInv'
    BY <2>1, <2>2, MovedType
  <2> QED
    BY <1>3, <2>3 DEF CleanUnlinks, TypeOK, Places
<1>4. ASSUME NEW x \in todo, CleanRaises(x) PROVE TypeOK' /\ NamesInv'
  BY <1>4, StayNames DEF CleanRaises, TypeOK, Phases
<1> QED
  BY <1>1, <1>2, <1>3, <1>4

\* The backfill keeps the types: one new name per PAI and boot.
LEMMA TypeBackfill ==
    ASSUME TypeOK, NamesInv, BootInv, StormInv,
           \/ BackfillRaises \/ BackfillScans
           \/ \E p \in PAIs : BackfillEmits(p) \/ \E e \in storms[p] : BackfillArchives(p, e)
    PROVE  TypeOK' /\ NamesInv'
<1> USE DEF files, watch, done, clean, KernelRest
<1>1. CASE BackfillRaises
  BY <1>1, StayNames DEF BackfillRaises, TypeOK, Phases, backfill
<1>2. CASE BackfillScans
  <2>1. storms' \in [PAIs -> SUBSET Events]
    BY <1>2 DEF BackfillScans, Storm
  <2> QED
    BY <1>2, <2>1, StayNames DEF BackfillScans, TypeOK, Phases
<1>3. ASSUME NEW p \in PAIs, BackfillEmits(p) PROVE TypeOK' /\ NamesInv'
  <2> DEFINE s == <<p, boots>>
  <2>1. s \in Summaries /\ s \in Items
    BY <1>3 DEF BackfillEmits, BootInv, TypeOK, Summaries, Items
  <2>2. "spool" \in Places \ {"unborn"} /\ place[s] = "unborn" /\ Named(s)
        /\ place' = [place EXCEPT ![s] = "spool"]
    BY <1>3 DEF BackfillEmits, Begun, Places
  <2>3. /\ place' \in [Items -> Places]
        /\ stamps' \in Seq(Items) /\ Len(stamps') <= Cardinality(Items)
        /\ earlier' \in [Items -> SUBSET Items]
        /\ NamesInv'
    BY <2>1, <2>2, NamedType
  <2>4. counted' \in [Summaries -> SUBSET Events]
    BY <1>3, <2>1 DEF BackfillEmits, TypeOK
  <2> QED
    BY <1>3, <2>3, <2>4 DEF BackfillEmits, TypeOK, Places
<1>4. ASSUME NEW p \in PAIs, NEW e \in storms[p], BackfillArchives(p, e)
      PROVE  TypeOK' /\ NamesInv'
  <2>1. e \in Events /\ e \in Items /\ place[e] = "spool"
    BY DEF StormInv, Spool, Items
  <2>2. "archived" \in Places \ {"unborn"} /\ place[e] # "unborn" /\ UNCHANGED stamps
        /\ place' = [place EXCEPT ![e] = "archived"]
    BY <1>4, <2>1 DEF BackfillArchives, Places
  <2>3. place' \in [Items -> Places] /\ NamesInv'
    BY <2>1, <2>2, MovedType
  <2>4. storms' \in [PAIs -> SUBSET Events]
    BY <1>4, <2>1 DEF BackfillArchives, TypeOK
  <2>5. <<p, boots>> \in Summaries
    BY <1>4 DEF BackfillArchives, BootInv, TypeOK, Summaries
  <2>6. archive' \in [Summaries -> SUBSET Events]
    <3>1. archive \in [Summaries -> SUBSET Events]
      BY DEF TypeOK
    <3>2. archive[<<p, boots>>] \cup {e} \in SUBSET Events
      BY <2>1, <2>5, <3>1
    <3>3. archive' = [archive EXCEPT ![<<p, boots>>] = archive[<<p, boots>>] \cup {e}]
      BY <1>4 DEF BackfillArchives
    <3> QED
      BY <2>5, <3>1, <3>2, <3>3, UpdateType
  <2> QED
    BY <1>4, <2>3, <2>4, <2>6 DEF BackfillArchives, TypeOK, Places
<1> QED
  BY <1>1, <1>2, <1>3, <1>4

\* So do the catch-up, the observer and an end of the kernel.
LEMMA TypeUp ==
    ASSUME TypeOK, NamesInv,
           CatchUp \/ ObserverStarts \/ Stop \/ Observe \/ \E i \in Items : Redeliver(i)
    PROVE  TypeOK' /\ NamesInv'
<1> USE DEF files, watch, done, clean, KernelRest
<1>1. CASE CatchUp
  <2>1. queue' \in Seq(Items)
    BY <1>1, ListingFacts DEF CatchUp
  <2> QED
    BY <1>1, <2>1, StayNames DEF CatchUp, TypeOK, Phases, backfill
<1>2. CASE ObserverStarts
  BY <1>2, StayNames DEF ObserverStarts, TypeOK, Phases, backfill
<1>3. CASE Stop
  <2>1. storms' \in [PAIs -> SUBSET Events] /\ notices' \in Seq(Items) /\ queue' \in Seq(Items)
    BY <1>3 DEF Stop
  <2> QED
    BY <1>3, <2>1, StayNames DEF Stop, TypeOK, Phases
<1>4. CASE Observe
  <2>1. notices' \in Seq(Items) /\ Head(notices) \in Items
    BY <1>4, TailElements DEF Observe, TypeOK
  <2>2. queue' \in Seq(Items)
    BY <1>4, <2>1, AppendElements DEF Observe, TypeOK
  <2> QED
    BY <1>4, <2>1, <2>2, StayNames DEF Observe, TypeOK, backfill
<1>5. ASSUME NEW i \in Items, Redeliver(i) PROVE TypeOK' /\ NamesInv'
  <2>1. notices' \in Seq(Items)
    BY <1>5, AppendElements DEF Redeliver, TypeOK
  <2>2. repeats' \in 0..MaxRepeats
    BY <1>5, SpoolAssumption DEF Redeliver, TypeOK
  <2> QED
    BY <1>5, <2>1, <2>2, StayNames DEF Redeliver, TypeOK, backfill
<1> QED
  BY <1>1, <1>2, <1>3, <1>4, <1>5

\* The main loop keeps the types, whatever the file holds.
LEMMA TypeTake ==
    ASSUME TypeOK, NamesInv, NEW i \in Items,
           \/ TakeGone(i) \/ TakeMalformed(i) \/ TakeUndecodable(i)
           \/ TakeRaises(i) \/ TakeDispatches(i)
    PROVE  TypeOK' /\ NamesInv'
<1> USE DEF done, backfill, clean, TakeRest, Taking
<1>0. Taking(i)
  BY DEF TakeGone, TakeMalformed, TakeUndecodable, TakeRaises, TakeDispatches
<1>1. queue' \in Seq(Items)
  BY <1>0, TailElements DEF TypeOK
<1>2. CASE TakeGone(i)
  BY <1>1, <1>2, StayNames DEF TakeGone, TypeOK
<1>3. CASE TakeUndecodable(i)
  BY <1>1, <1>3, StayNames DEF TakeUndecodable, TypeOK
<1>4. CASE TakeMalformed(i)
  <2>1. place' \in [Items -> Places] /\ NamesInv'
    BY <1>4, MovedType DEF TakeMalformed, Places, Spool
  <2> QED
    BY <1>1, <1>4, <2>1 DEF TakeMalformed, TypeOK, Places
<1>5. CASE TakeRaises(i)
  <2>1. place' \in [Items -> Places] /\ NamesInv'
    BY <1>5, MovedType DEF TakeRaises, Places, Spool
  <2> QED
    BY <1>1, <1>5, <2>1 DEF TakeRaises, TypeOK, Places
<1>6. CASE TakeDispatches(i)
  <2>1. place' \in [Items -> Places] /\ NamesInv'
    BY <1>6, MovedType DEF TakeDispatches, Places, Spool
  <2>2. handled' \in Seq(Items)
    BY <1>6, AppendElements DEF TakeDispatches, TypeOK
  <2>3. nudges' \in [Items -> [PAIs -> Nat]]
    BY <1>6 DEF TakeDispatches, TypeOK
  <2> QED
    BY <1>1, <1>6, <2>1, <2>2, <2>3 DEF TakeDispatches, TypeOK, Places
<1> QED
  BY <1>2, <1>3, <1>4, <1>5, <1>6


-----------------------------------------------------------------------------
(* The invariant, action by action. *)

Core == BootInv /\ CleanInv /\ StormInv /\ CountInv /\ SummaryInv /\ ConsumedInv

\* What was not read has nudged nobody.
LEMMA Quiet ==
    ASSUME TypeOK, Core, NEW i \in Items, NEW p \in PAIs, place[i] # "read"
    PROVE  nudges[i][p] = 0
<1>1. nudges[i][p] \in Nat
  BY DEF TypeOK
<1>2. ~(nudges[i][p] > 0)
  BY DEF Core, ConsumedInv
<1> QED
  BY <1>1, <1>2

\* An emitter moves a file that is no summary and that no storm holds.
LEMMA CoreEmit ==
    ASSUME TypeOK, Core, NEW e \in Events, EmitWrites(e) \/ EmitRenames(e)
    PROVE  Core'
<1> USE DEF clean, backfill, watch, done
<1> DEFINE v == place'[e]
<1>1. /\ e \in Items /\ place[e] \in {"unborn", "tmp"} /\ v \in {"tmp", "spool"}
      /\ \A i \in Items : i # e => place'[i] = place[i]
      /\ UNCHANGED <<kernel, todo, storms, counted, archive, queue, handled, nudges, boots>>
  BY DEF EmitWrites, EmitRenames, TypeOK, Items
<1>2. \A s \in Summaries : s \in Items /\ place'[s] = place[s]
  BY <1>1, SummaryFacts
<1>3. notices' = notices \/ (kernel = "up" /\ notices' = Append(notices, e))
  BY DEF EmitWrites, EmitRenames
<1>4. Elements(notices') \subseteq Elements(notices) \cup {e}
  <2>1. notices \in Seq(Items)
    BY DEF TypeOK
  <2>2. Elements(Append(notices, e)) = Elements(notices) \cup {e}
    BY <1>1, <2>1, AppendElements
  <2> QED
    BY <1>3, <2>2
<1>5. BootInv'
  BY <1>1, <1>2, <1>3 DEF Core, BootInv
<1>6. CleanInv'
  BY <1>1, <1>2 DEF Core, CleanInv
<1>7. StormInv'
  BY <1>1, <1>2 DEF Core, StormInv, Spool
<1>8. CountInv'
  <2>1. \A p \in PAIs : kernel = "backfill" => <<p, boots>> \in Summaries
    BY DEF Core, BootInv, TypeOK, Summaries
  <2> QED
    BY <1>1, <1>2, <2>1 DEF Core, CountInv, Begun
<1>9. SummaryInv'
  <2>1. \A s \in Summaries : s \in Known' => s \in Known
    BY <1>1, <1>4, SummaryFacts DEF Known
  <2> QED
    BY <1>1, <1>2, <2>1 DEF Core, SummaryInv, Good
<1>10. ConsumedInv'
  BY <1>1 DEF Core, ConsumedInv
<1> QED
  BY <1>5, <1>6, <1>7, <1>8, <1>9, <1>10 DEF Core

\* The clean phase moves only files that were not read, and ends with every
\* summary gone.
LEMMA CoreClean ==
    ASSUME TypeOK, Core,
           \/ CleanLists \/ CleanDone \/ BackfillRaises
           \/ \E x \in todo : CleanUnlinks(x) \/ CleanRaises(x)
    PROVE  Core'
<1> USE DEF files, backfill, watch, done, clean, KernelRest
<1>1. CASE CleanLists
  <2>1. BootInv'
    BY <1>1 DEF Core, CleanLists, BootInv, TypeOK, Summaries
  <2>2. CleanInv'
    BY <1>1, SummaryFacts DEF Core, CleanLists, CleanInv
  <2>3. StormInv' /\ CountInv'
    BY <1>1 DEF Core, CleanLists, StormInv, CountInv, Spool
  <2>4. SummaryInv' /\ ConsumedInv'
    BY <1>1 DEF Core, CleanLists, SummaryInv, ConsumedInv, Known, Good
  <2> QED
    BY <2>1, <2>2, <2>3, <2>4 DEF Core
<1>2. ASSUME CleanDone \/ BackfillRaises \/ \E x \in todo : CleanRaises(x)
      PROVE  Core'
  <2>0. /\ kernel \in {"cleaning", "hooks"} /\ kernel' \in {"down", "hooks"}
        /\ kernel' = "hooks" => todo = {} /\ kernel = "cleaning"
        /\ UNCHANGED <<place, backfill, watch, done, boots>>
    BY <1>2 DEF CleanDone, BackfillRaises, CleanRaises
  <2>1. BootInv'
    BY <2>0 DEF Core, BootInv
  <2>2. CleanInv'
    BY <2>0 DEF Core, CleanInv
  <2>3. StormInv' /\ CountInv'
    BY <2>0 DEF Core, StormInv, CountInv, Spool
  <2>4. SummaryInv' /\ ConsumedInv'
    BY <2>0 DEF Core, SummaryInv, ConsumedInv, Known, Good
  <2> QED
    BY <2>1, <2>2, <2>3, <2>4 DEF Core
<1>3. ASSUME NEW x \in todo, CleanUnlinks(x) PROVE Core'
  <2>0. /\ x[1] \in Items /\ place[x[1]] \in {"tmp", "spool"} /\ place'[x[1]] = "wiped"
        /\ \A i \in Items : i # x[1] => place'[i] = place[i]
        /\ kernel = "cleaning" /\ todo' = todo \ {x}
        /\ UNCHANGED <<kernel, backfill, watch, done, boots>>
    BY <1>3 DEF CleanUnlinks, TypeOK
  <2>1. BootInv'
    BY <2>0, SummaryFacts DEF Core, BootInv
  <2>2. CleanInv'
    BY <2>0, SummaryFacts DEF Core, CleanInv
  <2>3. StormInv'
    BY <2>0, SummaryFacts DEF Core, StormInv, Spool
  <2>4. CountInv'
    BY <2>0 DEF Core, CountInv
  <2>5. SummaryInv'
    BY <2>0, SummaryFacts DEF Core, SummaryInv, Known, Good
  <2>6. ConsumedInv'
    BY <2>0 DEF Core, ConsumedInv
  <2> QED
    BY <2>1, <2>2, <2>3, <2>4, <2>5, <2>6 DEF Core
<1> QED
  BY <1>1, <1>2, <1>3

\* The storms of two PAIs share no file: an event has one primary PAI.
LEMMA StormFacts ==
    /\ \A p \in PAIs : Storm(p) \subseteq Spool \cap Events
    /\ \A p, q \in PAIs : p # q => Storm(p) \cap Storm(q) = {}
    /\ \A p \in PAIs : Storm(p) = {} \/ Cardinality(Storm(p)) > Threshold
BY DEF Storm

\* The scan starts with no summary of this boot, and with storms that are
\* disjoint and above the threshold.
LEMMA CoreScans ==
    ASSUME TypeOK, Core, BackfillScans
    PROVE  Core'
<1> USE DEF files, watch, done, clean, KernelRest
<1>0. /\ kernel = "hooks" /\ kernel' = "backfill"
      /\ storms' = [p \in PAIs |-> Storm(p)]
      /\ UNCHANGED <<place, counted, archive, queue, notices, handled, nudges, boots, todo>>
  BY DEF BackfillScans
<1>1. \A p \in PAIs : place[<<p, boots>>] = "unborn"
  <2>1. \A p \in PAIs : <<p, boots>> \in Summaries
    BY <1>0 DEF Core, BootInv, TypeOK, Summaries
  <2>2. boots \in Nat
    BY SpoolAssumption DEF TypeOK
  <2> QED
    BY <1>0, <2>1, <2>2 DEF Core, BootInv
<1>2. BootInv'
  <2>1. \A s \in Summaries : s[2] \in Nat
    BY SummaryFacts
  <2> QED
    BY <1>0, <2>1 DEF Core, BootInv
<1>3. CleanInv'
  BY <1>0 DEF Core, CleanInv
<1>4. StormInv'
  BY <1>0, StormFacts DEF Core, StormInv, Spool
<1>5. CountInv'
  BY <1>0, <1>1, StormFacts DEF CountInv, Begun
<1>6. SummaryInv' /\ ConsumedInv'
  BY <1>0 DEF Core, SummaryInv, ConsumedInv, Known, Good
<1> QED
  BY <1>2, <1>3, <1>4, <1>5, <1>6 DEF Core

\* A summary counts its storm before any file of it has moved.
LEMMA CoreEmits ==
    ASSUME TypeOK, Core, NEW p \in PAIs, BackfillEmits(p)
    PROVE  Core'
<1> DEFINE s == <<p, boots>>
<1>0. /\ kernel = "backfill" /\ storms[p] # {} /\ place[s] = "unborn"
      /\ place' = [place EXCEPT ![s] = "spool"]
      /\ counted' = [counted EXCEPT ![s] = storms[p]]
      /\ UNCHANGED <<kernel, todo, storms, archive, queue, notices, handled, nudges, boots>>
  BY DEF BackfillEmits, Begun, clean, watch, done, KernelRest
<1>1. s \in Summaries /\ s \in Items /\ s \notin Events /\ boots \in Nat
  <2>1. s \in Summaries /\ boots \in Nat
    BY <1>0, SpoolAssumption DEF Core, BootInv, TypeOK, Summaries
  <2> QED
    BY <2>1, SummaryFacts
<1>2. /\ place'[s] = "spool" /\ \A i \in Items : i # s => place'[i] = place[i]
      /\ counted'[s] = storms[p] /\ \A t \in Summaries : t # s => counted'[t] = counted[t]
  BY <1>0, <1>1 DEF TypeOK
<1>3. \A t \in Summaries : t \in Items /\ t[2] \in Nat
  BY SummaryFacts
<1>4. archive[s] = {} /\ Cardinality(storms[p]) > Threshold
  BY <1>0, <1>1 DEF Core, StormInv, CountInv, Begun
<1>5. BootInv'
  BY <1>0, <1>1, <1>2, <1>3 DEF Core, BootInv
<1>6. CleanInv'
  BY <1>0, <1>1, <1>2, <1>3 DEF Core, CleanInv
<1>7. StormInv'
  BY <1>0, <1>1, <1>2, <1>3 DEF Core, StormInv, Spool
<1>8. CountInv'
  <2>1. \A q \in PAIs : <<q, boots>> \in Summaries /\ (q # p => <<q, boots>> # s)
    BY <1>1 DEF Summaries
  <2> QED
    BY <1>0, <1>2, <1>3, <1>4, <2>1 DEF Core, CountInv, Begun
<1>9. SummaryInv'
  <2>1. Known' = Known
    BY <1>0 DEF Known
  <2>2. s \notin Known
    <3>1. ~(Cardinality({}) > Threshold)
      BY FS_EmptySet, SpoolAssumption
    <3>2. ~Good(s)
      BY <1>4, <3>1 DEF Good
    <3> QED
      BY <1>1, <3>2 DEF Core, SummaryInv
  <2>3. \A t \in Summaries \ {s} : Good(t)' = Good(t)
    BY <1>0, <1>2 DEF Good
  <2>4. s \notin Elements(handled)
    BY <2>2 DEF Known
  <2> QED
    BY <1>0, <1>2, <1>3, <2>1, <2>2, <2>3, <2>4 DEF Core, SummaryInv
<1>10. ConsumedInv'
  BY <1>0, <1>2 DEF Core, ConsumedInv
<1> QED
  BY <1>5, <1>6, <1>7, <1>8, <1>9, <1>10 DEF Core

\* A move takes a file from one storm to the archive of its summary.
LEMMA CoreArchives ==
    ASSUME TypeOK, Core, NEW p \in PAIs, NEW e \in storms[p], BackfillArchives(p, e)
    PROVE  Core'
<1> DEFINE s == <<p, boots>>
<1>0. /\ kernel = "backfill" /\ Begun(p)
      /\ storms' = [storms EXCEPT ![p] = @ \ {e}]
      /\ place' = [place EXCEPT ![e] = "archived"]
      /\ archive' = [archive EXCEPT ![s] = archive[s] \cup {e}]
      /\ UNCHANGED <<kernel, todo, counted, queue, notices, handled, nudges, boots>>
  BY DEF BackfillArchives, clean, watch, done, KernelRest
<1>1. /\ e \in Events /\ e \in Items /\ e \notin Summaries /\ place[e] = "spool"
      /\ \A q \in PAIs : q # p => e \notin storms[q]
  BY SpoolAssumption DEF Core, StormInv, Spool, Items
<1>2. s \in Summaries
  BY <1>0 DEF Core, BootInv, TypeOK, Summaries
<1>3. /\ \A t \in Summaries : t \in Items /\ place'[t] = place[t]
      /\ place'[e] = "archived" /\ \A i \in Items : i # e => place'[i] = place[i]
  BY <1>0, <1>1, SummaryFacts DEF TypeOK
<1>4. /\ storms'[p] = storms[p] \ {e}
      /\ \A q \in PAIs : q # p => storms'[q] = storms[q]
      /\ archive'[s] = archive[s] \cup {e}
      /\ \A t \in Summaries : t # s => archive'[t] = archive[t]
  BY <1>0, <1>2 DEF TypeOK
<1>5. BootInv' /\ CleanInv'
  BY <1>0, <1>3 DEF Core, BootInv, CleanInv
<1>6. StormInv'
  BY <1>0, <1>1, <1>2, <1>3, <1>4 DEF Core, StormInv, Spool, Begun
<1>7. CountInv'
  <2>1. \A q \in PAIs : <<q, boots>> \in Summaries /\ (q # p => <<q, boots>> # s)
    BY <1>2 DEF Summaries
  <2> QED
    BY <1>0, <1>3, <1>4, <2>1 DEF Core, CountInv, Begun
<1>8. SummaryInv'
  <2>1. Known' = Known
    BY <1>0 DEF Known
  <2>2. s \in Known => e \in archive[s]
    <3>1. counted[s] = archive[s] \cup storms[p]
      BY <1>0 DEF Core, CountInv
    <3> QED
      BY <1>2, <3>1 DEF Core, SummaryInv, Good
  <2>3. \A t \in Summaries : t \in Known => (Good(t) => Good(t)')
    <3>1. \A t \in Summaries : t \in Known => archive'[t] = archive[t]
      BY <1>4, <2>2
    <3> QED
      BY <1>0, <3>1 DEF Good
  <2>4. kernel' = "backfill" /\ handled' = handled /\ \A t \in Summaries : place'[t] = place[t]
    BY <1>0, <1>3
  <2> QED
    BY <2>1, <2>3, <2>4 DEF Core, SummaryInv
<1>9. ConsumedInv'
  BY <1>1, <1>3, <1>0 DEF Core, ConsumedInv
<1> QED
  BY <1>5, <1>6, <1>7, <1>8, <1>9 DEF Core

\* The summaries that the catch-up finds are those of this boot, and each
\* of their storms is archived.
LEMMA CoreCatchUp ==
    ASSUME TypeOK, Core, CatchUp
    PROVE  Core'
<1>0. /\ kernel = "backfill" /\ kernel' = "catchup" /\ Elements(queue') = Spool
      /\ \A p \in PAIs : storms[p] = {}
      /\ UNCHANGED <<place, counted, archive, storms, notices, handled, nudges, boots, todo>>
  BY ListingFacts DEF CatchUp, files, clean, backfill, done, KernelRest
<1>1. \A s \in Summaries : place[s] = "spool" => Good(s)
  <2> TAKE s \in Summaries
  <2> HAVE place[s] = "spool"
  <2>1. s[1] \in PAIs /\ s = <<s[1], boots>>
    BY <1>0, SummaryFacts DEF Core, CleanInv
  <2> QED
    BY <1>0, <2>1 DEF Core, CountInv, Begun, Good
<1>2. BootInv'
  BY <1>0 DEF Core, BootInv
<1>3. CleanInv'
  BY <1>0 DEF Core, CleanInv
<1>4. StormInv' /\ CountInv'
  BY <1>0 DEF Core, StormInv, CountInv, Spool
<1>5. SummaryInv'
  <2>1. \A s \in Summaries : s \in Known' => s \in Known \/ place[s] = "spool"
    BY <1>0 DEF Known, Spool
  <2>2. \A s \in Summaries : Good(s)' = Good(s)
    BY <1>0 DEF Good
  <2> QED
    BY <1>0, <1>1, <2>1, <2>2 DEF Core, SummaryInv
<1>6. ConsumedInv'
  BY <1>0 DEF Core, ConsumedInv
<1> QED
  BY <1>2, <1>3, <1>4, <1>5, <1>6 DEF Core

\* Going up changes no file; going down forgets the queues and the storms.
LEMMA CoreStarts ==
    ASSUME TypeOK, Core, ObserverStarts \/ Stop
    PROVE  Core'
<1>0. /\ kernel' \in {"up", "down"} /\ (kernel' = "up" => kernel = "catchup")
      /\ UNCHANGED <<place, counted, archive, handled, nudges, boots>>
      /\ \/ UNCHANGED <<todo, queue, notices, storms>> /\ kernel' = "up"
         \/ queue' = <<>> /\ notices' = <<>> /\ storms' = [p \in PAIs |-> {}] /\ kernel' = "down"
  BY DEF ObserverStarts, Stop, files, clean, backfill, watch, done, KernelRest
<1>1. BootInv' /\ CleanInv'
  BY <1>0 DEF Core, BootInv, CleanInv
<1>2. StormInv' /\ CountInv'
  BY <1>0 DEF Core, StormInv, CountInv, Spool
<1>3. SummaryInv'
  <2>1. Known' \subseteq Known
    BY <1>0, EmptyElements DEF Known
  <2> QED
    BY <1>0, <2>1 DEF Core, SummaryInv, Good
<1>4. ConsumedInv'
  BY <1>0 DEF Core, ConsumedInv
<1> QED
  BY <1>1, <1>2, <1>3, <1>4 DEF Core

-----------------------------------------------------------------------------
(* While the kernel is up: files only leave the spool for "read" or "bad". *)

UpStep ==
    /\ kernel = "up"
    /\ UNCHANGED <<kernel, todo, storms, counted, archive, boots>>
    /\ \A i \in Items : place'[i] = place[i] \/ (place[i] = "spool" /\ place'[i] \in {"read", "bad"})

\* While the kernel is up, what it comes to know of is in the spool, where
\* every summary is good.
LEMMA CoreUp ==
    ASSUME TypeOK, Core, UpStep,
           Known' \subseteq Known \cup Spool,
           \A i \in Elements(handled') : i \in Elements(handled) \/ place'[i] = "read",
           ConsumedInv'
    PROVE  Core'
<1>0. \A s \in Summaries : s \in Items
  BY SummaryFacts
<1>1. BootInv'
  BY <1>0 DEF UpStep, Core, BootInv
<1>2. CleanInv'
  BY <1>0 DEF UpStep, Core, CleanInv
<1>3. StormInv' /\ CountInv'
  <2>1. \A p \in PAIs : storms[p] = {}
    BY DEF UpStep, Core, StormInv
  <2> QED
    BY <1>0, <2>1 DEF UpStep, Core, StormInv, CountInv, Spool
<1>4. SummaryInv'
  <2>1. \A s \in Summaries : Good(s)' = Good(s)
    BY DEF UpStep, Good
  <2>2. \A s \in Summaries : s \in Known' => Good(s)
    BY DEF UpStep, Core, SummaryInv, Spool
  <2> QED
    BY <1>0, <2>1, <2>2 DEF UpStep, Core, SummaryInv
<1> QED
  BY <1>1, <1>2, <1>3, <1>4 DEF Core

\* The observer's thread queues a path that is in the spool.
LEMMA CoreObserve ==
    ASSUME TypeOK, Core, Observe \/ \E i \in Items : Redeliver(i)
    PROVE  Core'
<1> USE DEF files, clean, backfill, done
<1>0. UpStep /\ UNCHANGED <<place, handled, nudges>>
  BY DEF Observe, Redeliver, UpStep
<1>1. notices \in Seq(Items) /\ queue \in Seq(Items)
  BY DEF TypeOK
<1>2. CASE Observe
  <2>1. Elements(notices') \subseteq Elements(notices) /\ Head(notices) \in Items
    BY <1>1, <1>2, TailElements DEF Observe
  <2>2. Elements(Append(queue, Head(notices))) = Elements(queue) \cup {Head(notices)}
    BY <1>1, <2>1, AppendElements
  <2>3. Elements(queue') \subseteq Elements(queue) \cup Spool
    BY <1>2, <2>2 DEF Observe
  <2>4. Known' \subseteq Known \cup Spool
    BY <1>0, <2>1, <2>3 DEF Known
  <2>5. ConsumedInv'
    BY <1>0 DEF Core, ConsumedInv
  <2> QED
    BY <1>0, <2>4, <2>5, CoreUp
<1>3. ASSUME NEW i \in Items, Redeliver(i) PROVE Core'
  <2>1. Elements(notices') = Elements(notices) \cup {i} /\ i \in Spool
    BY <1>1, <1>3, AppendElements DEF Redeliver
  <2>2. UNCHANGED queue
    BY <1>3 DEF Redeliver
  <2>3. Known' \subseteq Known \cup Spool
    BY <1>0, <2>1, <2>2 DEF Known
  <2>4. ConsumedInv'
    BY <1>0 DEF Core, ConsumedInv
  <2> QED
    BY <1>0, <2>3, <2>4, CoreUp
<1> QED
  BY <1>2, <1>3

\* The main loop unlinks a file before it dispatches what it read from it:
\* a path that is queued a second time finds no file.
LEMMA CoreTake ==
    ASSUME TypeOK, Core, NEW i \in Items,
           \/ TakeGone(i) \/ TakeMalformed(i) \/ TakeUndecodable(i)
           \/ TakeRaises(i) \/ TakeDispatches(i)
    PROVE  Core'
<1>0. Taking(i) /\ queue \in Seq(Items) /\ handled \in Seq(Items)
  BY DEF TakeGone, TakeMalformed, TakeUndecodable, TakeRaises, TakeDispatches, TypeOK
<1>1. Elements(queue') \subseteq Elements(queue) /\ UNCHANGED notices
  BY <1>0, TailElements DEF TakeGone, TakeMalformed, TakeUndecodable, TakeRaises,
                            TakeDispatches, Taking, TakeRest
<1>2. UpStep
  BY <1>0 DEF TakeGone, TakeMalformed, TakeUndecodable, TakeRaises, TakeDispatches,
              Taking, TakeRest, UpStep, TypeOK, Spool, clean, backfill
<1>3. CASE UNCHANGED done
  <2>1. Known' \subseteq Known
    BY <1>1, <1>3 DEF Known, done
  <2>2. ConsumedInv'
    BY <1>2, <1>3 DEF Core, ConsumedInv, UpStep, done
  <2> QED
    BY <1>2, <1>3, <2>1, <2>2, CoreUp DEF done
<1>4. CASE TakeDispatches(i)
  <2>1. /\ i \in Spool /\ place[i] = "spool" /\ place'[i] = "read"
        /\ handled' = Append(handled, i)
    BY <1>4 DEF TakeDispatches, Spool, TypeOK
  <2>2. Elements(handled') = Elements(handled) \cup {i}
    BY <1>0, <2>1, AppendElements
  <2>3. Known' \subseteq Known \cup Spool
    BY <1>1, <2>1, <2>2 DEF Known
  <2>4. ConsumedInv'
    <3>1. \A p \in PAIs : nudges[i][p] = 0
      BY <2>1, Quiet
    <3>2. \A p \in PAIs : nudges'[i][p] \in {0, 1}
      BY <1>4, <3>1 DEF TakeDispatches, TypeOK
    <3>3. \A j \in Items : j # i => nudges'[j] = nudges[j] /\ place'[j] = place[j]
      BY <1>4 DEF TakeDispatches, TypeOK
    <3> QED
      BY <2>1, <3>2, <3>3 DEF Core, ConsumedInv
  <2> QED
    BY <1>2, <2>1, <2>2, <2>3, <2>4, CoreUp
<1> QED
  BY <1>3, <1>4 DEF TakeGone, TakeMalformed, TakeUndecodable, TakeRaises

-----------------------------------------------------------------------------
(* The theorems. *)

IInv == TypeOK /\ NamesInv /\ Core

\* An empty spool satisfies the invariant.
LEMMA InvInit == Init => IInv
<1> SUFFICES ASSUME Init PROVE IInv
  OBVIOUS
<1>1. Born = {} /\ Cardinality({}) = 0
  BY FS_EmptySet DEF Init, Born
<1>2. NamesInv
  BY <1>1 DEF NamesInv, Init
<1>3. TypeOK
  <2>1. Cardinality(Items) \in Nat
    BY ItemsFinite, FS_CardinalityType
  <2> QED
    BY <2>1, SpoolAssumption DEF Init, TypeOK, Content
<1>4. BootInv /\ CleanInv /\ StormInv /\ CountInv
  BY SummaryFacts DEF Init, BootInv, CleanInv, StormInv, CountInv, Spool
<1>5. SummaryInv /\ ConsumedInv
  BY EmptyElements, SummaryFacts DEF Init, SummaryInv, ConsumedInv, Known
<1> QED
  BY <1>2, <1>3, <1>4, <1>5 DEF IInv, Core

\* Every step preserves it.
LEMMA InvNext == IInv /\ [Next]_vars => IInv'
<1> SUFFICES ASSUME TypeOK, NamesInv, Core, [Next]_vars PROVE IInv'
  BY DEF IInv
<1>0. BootInv /\ StormInv
  BY DEF Core
<1>1. CASE Emitters
  BY <1>1, TypeEmit, CoreEmit DEF Emitters, IInv
<1>2. CASE Boot
  <2>1. CASE CleanLists \/ CleanDone \/ \E x \in todo : CleanUnlinks(x) \/ CleanRaises(x)
    BY <2>1, TypeClean, CoreClean DEF IInv
  <2>2. CASE BackfillRaises
    BY <1>0, <2>2, TypeBackfill, CoreClean DEF IInv
  <2>3. CASE BackfillScans
    BY <1>0, <2>3, TypeBackfill, CoreScans DEF IInv
  <2>4. CASE CatchUp
    BY <2>4, TypeUp, CoreCatchUp DEF IInv
  <2>5. CASE ObserverStarts
    BY <2>5, TypeUp, CoreStarts DEF IInv
  <2>6. ASSUME NEW p \in PAIs, BackfillEmits(p) PROVE IInv'
    BY <1>0, <2>6, TypeBackfill, CoreEmits DEF IInv
  <2>7. ASSUME NEW p \in PAIs, NEW e \in storms[p], BackfillArchives(p, e) PROVE IInv'
    BY <1>0, <2>7, TypeBackfill, CoreArchives DEF IInv
  <2> QED
    BY <1>2, <2>1, <2>2, <2>3, <2>4, <2>5, <2>6, <2>7 DEF Boot
<1>3. CASE Stop
  BY <1>3, TypeUp, CoreStarts DEF IInv
<1>4. CASE Observe \/ \E i \in Items : Redeliver(i)
  BY <1>4, TypeUp, CoreObserve DEF IInv
<1>5. CASE Take
  BY <1>5, TypeTake, CoreTake DEF Take, IInv
<1>6. CASE UNCHANGED vars
  <2> USE DEF vars, files, clean, backfill, watch, done
  <2>1. TypeOK' /\ NamesInv'
    BY <1>6, StayNames DEF TypeOK
  <2>2. BootInv' /\ CleanInv' /\ StormInv' /\ CountInv'
    BY <1>6 DEF Core, BootInv, CleanInv, StormInv, CountInv, Begun, Spool
  <2>3. SummaryInv' /\ ConsumedInv'
    BY <1>6 DEF Core, SummaryInv, ConsumedInv, Known, Good
  <2> QED
    BY <2>1, <2>2, <2>3 DEF Core, IInv
<1> QED
  BY <1>1, <1>2, <1>3, <1>4, <1>5, <1>6 DEF Next

\* Every value of the model stays in its type, for any number of boots.
THEOREM SpoolInvCorrect == Spec => []IInv
BY InvInit, InvNext, PTL DEF Spec

\* However boots, redeliveries and emitters interleave, no PAI is nudged
\* twice for one event, and what is in the archive nudged none.
THEOREM ConsumedCorrect == Spec => []ConsumedOnce
<1>1. IInv => ConsumedOnce
  <2> SUFFICES ASSUME TypeOK, Core, NEW i \in Items, NEW p \in PAIs
               PROVE  nudges[i][p] <= (IF place[i] = "archived" THEN 0 ELSE 1)
    BY DEF IInv, ConsumedOnce
  <2>1. CASE place[i] = "archived"
    BY <2>1, Quiet
  <2>2. CASE place[i] # "archived"
    BY <2>2 DEF Core, ConsumedInv
  <2> QED
    BY <2>1, <2>2
<1> QED
  BY <1>1, SpoolInvCorrect, PTL

\* A summary that the kernel queues or dispatches counts exactly what its
\* archive holds, whenever earlier boots were killed.
THEOREM SummaryCorrect == Spec => []SummaryTrue
<1>1. IInv => SummaryTrue
  BY DEF IInv, Core, SummaryInv, SummaryTrue, Good, Known
<1> QED
  BY <1>1, SpoolInvCorrect, PTL

\* The type invariant, with the number of names that were given.
THEOREM SpoolTypeCorrect == Spec => []TypeOK
<1>1. IInv => TypeOK
  BY DEF IInv
<1> QED
  BY <1>1, SpoolInvCorrect, PTL

-----------------------------------------------------------------------------
(* Order. *)

Seen(i) == place[i] \notin {"unborn", "tmp"}

\* A name is given after the names of all that was in place at that time.
NamedInv ==
    /\ \A i \in Items : i \notin earlier[i] /\ \A j \in earlier[i] : Seen(j)
    /\ \A k, l \in DOMAIN stamps : stamps[l] \in earlier[stamps[k]] => l < k
    /\ \A k \in DOMAIN stamps : place[stamps[k]] # "unborn"

\* The kernel knows of files that were renamed, and of none in the gap.
SeenInv ==
    /\ \A i \in Elements(queue) \cup Elements(notices) : Seen(i) /\ i \notin gap
    /\ \A i \in gap : Seen(i)
    /\ \A i \in Elements(handled) : place[i] = "read"
    /\ kernel \in {"cleaning", "hooks", "backfill"} => gap = {}

\* What the kernel will take from the spool, unless it ends before.
Takeable == {i \in Spool \ gap : content[i] # "undecodable"}

\* It is queued or reported, and before whatever got its name later.
PipeInv ==
    /\ kernel \in {"catchup", "up"} => Takeable \subseteq Elements(queue) \cup Elements(notices)
    /\ \A b \in DOMAIN queue : \A j \in earlier[queue[b]] \cap Takeable :
          \E a \in DOMAIN queue : a < b /\ queue[a] = j
    /\ \A b \in DOMAIN notices : \A j \in earlier[notices[b]] \cap Takeable :
          j \in Elements(queue) \/ \E a \in DOMAIN notices : a < b /\ notices[a] = j

\* What an item that was dispatched has overtaken is never dispatched: it is
\* in the gap, or does not decode, and the next clean phase unlinks it.
PassedInv ==
    \A i \in Elements(handled) : \A j \in earlier[i] \cap Spool :
        \/ kernel = "down"
        \/ kernel = "cleaning" /\ <<j, "spool">> \in todo
        \/ kernel = "up" /\ j \notin Takeable

OrderInv == NamedInv /\ SeenInv /\ PipeInv /\ PassedInv /\ InOrder

\* Nothing becomes unseen while names stay.
LEMMA NamesStay ==
    ASSUME TypeOK, NamedInv, UNCHANGED <<stamps, earlier>>,
           \A i \in Items : /\ Seen(i) => Seen(i)'
                            /\ place[i] # "unborn" => place'[i] # "unborn"
    PROVE  NamedInv'
<1>1. \A k \in DOMAIN stamps : stamps[k] \in Items
  BY DEF TypeOK
<1>2. \A i \in Items : earlier[i] \subseteq Items
  BY DEF TypeOK
<1> QED
  BY <1>1, <1>2 DEF NamedInv

\* A new name comes last, and nothing was named after it.
LEMMA NamesGrow ==
    ASSUME TypeOK, NamedInv, NEW i \in Items, place[i] = "unborn", Named(i),
           NEW v \in {"tmp", "spool"}, place' = [place EXCEPT ![i] = v]
    PROVE  /\ NamedInv'
           /\ \A j \in Items \ {i} : earlier'[j] = earlier[j] /\ place'[j] = place[j]
           /\ \A j \in Items : i \notin earlier'[j]
<1>1. /\ place \in [Items -> Places] /\ stamps \in Seq(Items) /\ earlier \in [Items -> SUBSET Items]
      /\ stamps' = Append(stamps, i)
      /\ earlier' = [earlier EXCEPT ![i] = {j \in Items : Seen(j)}]
  BY DEF TypeOK, Places, Named, Seen
<1>2. \A j \in Items \ {i} : earlier'[j] = earlier[j] /\ place'[j] = place[j]
  BY <1>1
<1>3. earlier'[i] = {j \in Items : Seen(j)} /\ place'[i] = v
  BY <1>1
<1>4. ~Seen(i)
  BY DEF Seen
<1>5. \A j \in Items : i \notin earlier'[j]
  BY <1>2, <1>3, <1>4 DEF NamedInv
<1>6. \A j \in Items : \A x \in earlier'[j] : Seen(x)'
  <2>1. \A j \in Items : \A x \in earlier'[j] : x \in Items /\ x # i /\ Seen(x)
    BY <1>1, <1>2, <1>3, <1>5 DEF NamedInv
  <2> QED
    BY <1>2, <2>1 DEF Seen
<1>7. /\ DOMAIN stamps' = DOMAIN stamps \cup {Len(stamps) + 1} /\ stamps'[Len(stamps) + 1] = i
      /\ \A k \in DOMAIN stamps : /\ stamps'[k] = stamps[k] /\ k < Len(stamps) + 1
                                  /\ stamps[k] \in Items \ {i}
      /\ \A k \in DOMAIN stamps' : k \in Nat
  BY <1>1 DEF NamedInv
<1>8. \A k, l \in DOMAIN stamps' : stamps'[l] \in earlier'[stamps'[k]] => l < k
  <2> SUFFICES ASSUME NEW k \in DOMAIN stamps', NEW l \in DOMAIN stamps',
                      stamps'[l] \in earlier'[stamps'[k]]
               PROVE  l < k
    OBVIOUS
  <2>1. l \in DOMAIN stamps
    BY <1>5, <1>7
  <2>2. CASE k = Len(stamps) + 1
    BY <1>7, <2>1, <2>2
  <2>3. CASE k \in DOMAIN stamps
    BY <1>2, <1>7, <2>1, <2>3 DEF NamedInv
  <2> QED
    BY <1>7, <2>2, <2>3
<1>9. \A k \in DOMAIN stamps' : place'[stamps'[k]] # "unborn"
  BY <1>2, <1>3, <1>7 DEF NamedInv
<1> QED
  BY <1>2, <1>5, <1>6, <1>8, <1>9 DEF NamedInv

\* A kernel that is not up knows of nothing.
LEMMA NoPipe ==
    ASSUME BootInv, kernel \notin {"catchup", "up"}
    PROVE  PipeInv /\ Elements(queue) = {} /\ Elements(notices) = {}
BY EmptyElements DEF BootInv, PipeInv

\* What was dispatched, queued or named is an item.
LEMMA ItemFacts ==
    ASSUME TypeOK
    PROVE  /\ Elements(queue) \cup Elements(notices) \cup Elements(handled) \subseteq Items
           /\ \A i \in Items : earlier[i] \subseteq Items
           /\ \A b \in DOMAIN queue : queue[b] \in Elements(queue)
           /\ \A b \in DOMAIN notices : notices[b] \in Elements(notices)
           /\ \A b \in DOMAIN handled : handled[b] \in Elements(handled)
BY DEF TypeOK, Elements

\* Emitters: a file is named before it is reported, and reported after all
\* that was there when it got its name.
LEMMA OrderEmit ==
    ASSUME TypeOK, OrderInv, NEW e \in Events, EmitWrites(e) \/ EmitRenames(e)
    PROVE  OrderInv'
<1> USE DEF OrderInv
<1>0. e \in Items
  BY DEF Items
<1>1. CASE EmitWrites(e)
  <2>1. /\ place[e] = "unborn" /\ Named(e) /\ place' = [place EXCEPT ![e] = "tmp"]
        /\ UNCHANGED <<kernel, todo, notices, queue, gap, handled>>
        /\ \E c \in Contents[e] : content' = [content EXCEPT ![e] = c]
    BY <1>1 DEF EmitWrites, clean, watch, done
  <2>2. /\ NamedInv'
        /\ \A j \in Items \ {e} : earlier'[j] = earlier[j] /\ place'[j] = place[j]
        /\ \A j \in Items : e \notin earlier'[j]
    BY <1>0, <2>1, NamesGrow
  <2>3. place'[e] = "tmp" /\ ~Seen(e) /\ place[e] # "spool"
    BY <1>0, <2>1 DEF TypeOK, Seen
  <2>4. SeenInv'
    <3>1. \A j \in Items : Seen(j) => j # e /\ Seen(j)'
      BY <2>2, <2>3 DEF Seen
    <3>2. \A j \in Elements(handled) : j # e /\ place'[j] = place[j]
      BY <2>1, <2>2, ItemFacts DEF SeenInv
    <3>3. gap \subseteq Items
      BY DEF TypeOK
    <3> QED
      BY <2>1, <3>1, <3>2, <3>3, ItemFacts DEF SeenInv
  <2>5. Spool' = Spool /\ Takeable' = Takeable
    <3>1. Spool' = Spool
      BY <2>2, <2>3 DEF Spool
    <3>2. \A j \in Items \ {e} : content'[j] = content[j]
      BY <2>1 DEF TypeOK
    <3> QED
      BY <2>1, <2>3, <3>1, <3>2 DEF Takeable, Spool
  <2>6. \A j \in Elements(queue) \cup Elements(notices) \cup Elements(handled) : earlier'[j] = earlier[j]
    BY <2>1, <2>2, <2>3, ItemFacts DEF SeenInv, Seen
  <2>7. PipeInv'
    BY <2>1, <2>5, <2>6, ItemFacts DEF PipeInv
  <2>8. PassedInv' /\ InOrder'
    BY <2>1, <2>5, <2>6, ItemFacts DEF PassedInv, InOrder
  <2> QED
    BY <2>2, <2>4, <2>7, <2>8
<1>2. CASE EmitRenames(e)
  <2>1. /\ place[e] = "tmp" /\ place' = [place EXCEPT ![e] = "spool"]
        /\ notices' = (IF kernel = "up" THEN Append(notices, e) ELSE notices)
        /\ gap' = (IF kernel = "catchup" THEN gap \cup {e} ELSE gap)
        /\ UNCHANGED <<content, stamps, earlier, kernel, todo, queue, handled>>
    BY <1>2 DEF EmitRenames, clean, done
  <2>2. /\ \A j \in Items \ {e} : place'[j] = place[j]
        /\ place'[e] = "spool" /\ ~Seen(e) /\ Seen(e)'
    BY <1>0, <2>1 DEF TypeOK, Seen
  <2>3. \A j \in Items : Seen(j) => Seen(j)' /\ j # e
    BY <2>2 DEF Seen
  <2>4. NamedInv'
    BY <2>1, <2>2, <2>3, NamesStay
  <2>5. \A j \in Items : e \notin earlier[j]
    BY <2>2 DEF NamedInv
  <2>6. /\ notices \in Seq(Items) /\ gap \subseteq Items /\ e \notin gap
        /\ Elements(notices') \subseteq Elements(notices) \cup {e}
    BY <1>0, <2>1, <2>2, AppendElements DEF TypeOK, SeenInv
  <2>7. SeenInv'
    <3>1. \A j \in Elements(handled) : place'[j] = "read"
      BY <2>1, <2>2, <2>3, ItemFacts DEF SeenInv
    <3>2. \A j \in gap' : Seen(j)'
      BY <2>1, <2>2, <2>3, <2>6 DEF SeenInv
    <3>3. \A j \in Elements(queue) : Seen(j)' /\ j \notin gap'
      BY <2>1, <2>2, <2>3, ItemFacts DEF SeenInv
    <3>4. \A j \in Elements(notices') : Seen(j)' /\ j \notin gap'
      <4>1. CASE kernel = "up"
        BY <2>1, <2>2, <2>3, <2>6, <4>1, ItemFacts DEF SeenInv
      <4>2. CASE kernel # "up"
        BY <2>1, <2>2, <2>3, <4>2, ItemFacts DEF SeenInv
      <4> QED
        BY <4>1, <4>2
    <3> QED
      BY <2>1, <3>1, <3>2, <3>3, <3>4 DEF SeenInv
  <2>8. /\ Spool' = Spool \cup {e}
        /\ Takeable' \subseteq Takeable \cup {e}
        /\ kernel = "catchup" => Takeable' \subseteq Takeable
    BY <1>0, <2>1, <2>2 DEF Spool, Takeable
  <2>9. PipeInv'
    <3>1. \A i \in Items : earlier'[i] \cap Takeable' \subseteq earlier[i] \cap Takeable
      BY <2>1, <2>5, <2>8
    <3>2. \A b \in DOMAIN queue : \A j \in earlier'[queue[b]] \cap Takeable' :
             \E a \in DOMAIN queue : a < b /\ queue[a] = j
      BY <3>1, ItemFacts DEF PipeInv
    <3>3. CASE kernel = "up"
      <4>1. /\ DOMAIN notices' = DOMAIN notices \cup {Len(notices) + 1} /\ notices'[Len(notices) + 1] = e
            /\ \A b \in DOMAIN notices : notices'[b] = notices[b] /\ b < Len(notices) + 1
            /\ Elements(notices') = Elements(notices) \cup {e}
        BY <1>0, <2>1, <2>6, <3>3, AppendElements
      <4>2. \A j \in earlier'[e] \cap Takeable' :
               j \in Elements(queue) \/ \E a \in DOMAIN notices : notices[a] = j
        BY <1>0, <3>1, <3>3 DEF PipeInv, Elements
      <4>3. \A b \in DOMAIN notices' : \A j \in earlier'[notices'[b]] \cap Takeable' :
               j \in Elements(queue) \/ \E a \in DOMAIN notices' : a < b /\ notices'[a] = j
        <5> SUFFICES ASSUME NEW b \in DOMAIN notices', NEW j \in earlier'[notices'[b]] \cap Takeable',
                            j \notin Elements(queue)
                     PROVE  \E a \in DOMAIN notices' : a < b /\ notices'[a] = j
          OBVIOUS
        <5>1. CASE b = Len(notices) + 1
          BY <4>1, <4>2, <5>1
        <5>2. CASE b \in DOMAIN notices
          <6>1. j \in earlier[notices[b]] \cap Takeable
            BY <3>1, <4>1, <5>2, ItemFacts
          <6>2. PICK a \in DOMAIN notices : a < b /\ notices[a] = j
            BY <5>2, <6>1 DEF PipeInv
          <6> QED
            BY <4>1, <6>2
        <5> QED
          BY <4>1, <5>1, <5>2
      <4>4. Takeable' \subseteq Elements(queue') \cup Elements(notices')
        BY <2>1, <2>8, <3>3, <4>1 DEF PipeInv
      <4> QED
        BY <2>1, <3>2, <3>3, <4>3, <4>4 DEF PipeInv
    <3>4. CASE kernel # "up"
      <4>1. \A b \in DOMAIN notices : \A j \in earlier'[notices[b]] \cap Takeable' :
               j \in Elements(queue) \/ \E a \in DOMAIN notices : a < b /\ notices[a] = j
        BY <3>1, ItemFacts DEF PipeInv
      <4> QED
        BY <2>1, <2>8, <3>2, <3>4, <4>1 DEF PipeInv
    <3> QED
      BY <3>3, <3>4
  <2>10. PassedInv' /\ InOrder'
    <3>1. \A i \in Elements(handled) : \A j \in earlier[i] \cap Spool' :
             j \in Spool /\ j # e
      BY <2>5, <2>8, ItemFacts
    <3>2. \A j \in Takeable' : j # e => j \in Takeable
      BY <2>8
    <3> QED
      BY <2>1, <3>1, <3>2, ItemFacts DEF PassedInv, InOrder
  <2> QED
    BY <2>4, <2>7, <2>9, <2>10
<1> QED
  BY <1>1, <1>2

\* Steps of a kernel that is not up, on files that it takes from the spool.
LEMMA OrderDown ==
    ASSUME TypeOK, BootInv', OrderInv, UNCHANGED <<stamps, earlier, handled>>,
           \A i \in Items : /\ Seen(i) => Seen(i)'
                            /\ place[i] # "unborn" => place'[i] # "unborn"
                            /\ place[i] = "read" => place'[i] = "read",
           kernel' \notin {"catchup", "up"}, gap' \subseteq gap,
           kernel' \in {"cleaning", "hooks", "backfill"} => gap' = {},
           PassedInv'
    PROVE  OrderInv'
<1>1. NamedInv' /\ InOrder'
  BY NamesStay DEF OrderInv, InOrder
<1>2. Elements(queue') = {} /\ Elements(notices') = {} /\ PipeInv'
  BY EmptyElements DEF BootInv, PipeInv
<1>3. SeenInv'
  <2>1. gap \subseteq Items
    BY DEF TypeOK
  <2> QED
    BY <1>2, <2>1, ItemFacts DEF OrderInv, SeenInv
<1> QED
  BY <1>1, <1>2, <1>3 DEF OrderInv

\* The clean phase and the ends of a kernel: what was overtaken is listed and
\* unlinked before anything is dispatched again.
LEMMA OrderClean ==
    ASSUME TypeOK, BootInv', OrderInv,
           \/ CleanLists \/ CleanDone \/ BackfillRaises \/ Stop
           \/ \E x \in todo : CleanUnlinks(x) \/ CleanRaises(x)
    PROVE  OrderInv'
<1> USE DEF files, clean, backfill, watch, done, KernelRest
<1>1. CASE CleanLists
  <2>1. UNCHANGED <<place, stamps, earlier, handled>> /\ kernel' = "cleaning" /\ gap' = {}
        /\ todo' = {<<i, place[i]>> : i \in {j \in Items : place[j] \in {"tmp", "spool"}}}
    BY <1>1 DEF CleanLists
  <2>2. PassedInv'
    BY <2>1 DEF PassedInv, Spool
  <2> QED
    BY <2>1, <2>2, OrderDown DEF Seen
<1>2. CASE CleanDone
  <2>1. UNCHANGED <<place, stamps, earlier, handled, gap>> /\ kernel' = "hooks"
        /\ kernel = "cleaning" /\ todo = {}
    BY <1>2 DEF CleanDone
  <2>2. PassedInv'
    BY <2>1 DEF OrderInv, PassedInv, Spool
  <2>3. gap' = {}
    BY <2>1 DEF OrderInv, SeenInv
  <2> QED
    BY <2>1, <2>2, <2>3, OrderDown DEF Seen
<1>3. CASE BackfillRaises \/ Stop \/ \E x \in todo : CleanRaises(x)
  <2>1. UNCHANGED <<place, stamps, earlier, handled, gap>> /\ kernel' = "down"
    BY <1>3 DEF BackfillRaises, Stop, CleanRaises
  <2>2. PassedInv'
    BY <2>1 DEF PassedInv
  <2> QED
    BY <2>1, <2>2, OrderDown DEF Seen
<1>4. ASSUME NEW x \in todo, CleanUnlinks(x) PROVE OrderInv'
  <2>1. UNCHANGED <<stamps, earlier, handled, gap, kernel>> /\ kernel = "cleaning"
        /\ todo' = todo \ {x} /\ place' = [place EXCEPT ![x[1]] = "wiped"]
        /\ place[x[1]] = x[2] /\ place[x[1]] \in {"tmp", "spool"} /\ x[1] \in Items
    BY <1>4 DEF CleanUnlinks, TypeOK
  <2>2. place'[x[1]] = "wiped" /\ \A j \in Items \ {x[1]} : place'[j] = place[j]
    BY <2>1 DEF TypeOK
  <2>3. PassedInv'
    <3>1. \A j \in Spool' : j \in Spool /\ j # x[1] /\ <<j, "spool">> # x
      BY <2>2 DEF Spool
    <3> QED
      BY <2>1, <3>1 DEF OrderInv, PassedInv
  <2>4. gap' = {}
    BY <2>1 DEF OrderInv, SeenInv
  <2>5. \A i \in Items : /\ Seen(i) => Seen(i)'
                         /\ place[i] # "unborn" => place'[i] # "unborn"
                         /\ place[i] = "read" => place'[i] = "read"
    BY <2>1, <2>2 DEF Seen
  <2> QED
    BY <2>1, <2>3, <2>4, <2>5, OrderDown
<1> QED
  BY <1>1, <1>2, <1>3, <1>4

\* The backfill: nothing that was overtaken is left.
LEMMA OrderBackfill ==
    ASSUME TypeOK, BootInv, BootInv', StormInv, OrderInv,
           \/ BackfillScans
           \/ \E p \in PAIs : BackfillEmits(p) \/ \E e \in storms[p] : BackfillArchives(p, e)
    PROVE  OrderInv'
<1> USE DEF files, clean, backfill, watch, done, KernelRest
<1>1. CASE BackfillScans
  <2>1. UNCHANGED <<place, stamps, earlier, handled, gap>> /\ kernel = "hooks" /\ kernel' = "backfill"
    BY <1>1 DEF BackfillScans
  <2>2. gap' = {}
    BY <2>1 DEF OrderInv, SeenInv
  <2>3. PassedInv'
    BY <2>1 DEF OrderInv, PassedInv, Spool
  <2> QED
    BY <2>1, <2>2, <2>3, OrderDown DEF Seen
<1>2. ASSUME NEW p \in PAIs, BackfillEmits(p) PROVE OrderInv'
  <2> DEFINE s == <<p, boots>>
  <2>1. /\ kernel = "backfill" /\ place[s] = "unborn" /\ Named(s)
        /\ place' = [place EXCEPT ![s] = "spool"]
        /\ UNCHANGED <<content, kernel, todo, notices, queue, gap, handled>>
    BY <1>2 DEF BackfillEmits, Begun
  <2>2. s \in Items
    BY <2>1 DEF BootInv, TypeOK, Summaries, Items
  <2>3. /\ NamedInv'
        /\ \A j \in Items \ {s} : earlier'[j] = earlier[j] /\ place'[j] = place[j]
        /\ \A j \in Items : s \notin earlier'[j]
    BY <2>1, <2>2, NamesGrow DEF OrderInv
  <2>4. PipeInv' /\ Elements(queue') = {} /\ Elements(notices') = {}
    BY <2>1, NoPipe DEF OrderInv, BootInv, PipeInv
  <2>5. \A i \in Elements(handled) : i \in Items \ {s} /\ place[i] = "read"
    BY <2>1, ItemFacts DEF OrderInv, SeenInv
  <2>6. SeenInv'
    BY <2>1, <2>3, <2>4, <2>5 DEF OrderInv, SeenInv
  <2>7. PassedInv'
    <3> SUFFICES ASSUME NEW i \in Elements(handled), NEW j \in earlier'[i] \cap Spool' PROVE FALSE
      BY <2>1 DEF PassedInv
    <3>1. j \in earlier[i] /\ j # s /\ j \in Items
      BY <2>3, <2>5 DEF Spool
    <3>2. j \in Spool
      BY <2>3, <3>1 DEF Spool
    <3> QED
      BY <2>1, <3>1, <3>2 DEF OrderInv, PassedInv
  <2>8. InOrder'
    <3>1. \A k \in DOMAIN handled : earlier'[handled[k]] = earlier[handled[k]]
      BY <2>3, <2>5, ItemFacts
    <3> QED
      BY <2>1, <3>1 DEF OrderInv, InOrder
  <2> QED
    BY <2>3, <2>4, <2>6, <2>7, <2>8 DEF OrderInv
<1>3. ASSUME NEW p \in PAIs, NEW e \in storms[p], BackfillArchives(p, e) PROVE OrderInv'
  <2>1. /\ UNCHANGED <<stamps, earlier, handled, gap, kernel>> /\ kernel = "backfill"
        /\ place' = [place EXCEPT ![e] = "archived"]
    BY <1>3 DEF BackfillArchives
  <2>2. e \in Items /\ place[e] = "spool"
    BY DEF StormInv, Spool
  <2>3. place'[e] = "archived" /\ \A j \in Items \ {e} : place'[j] = place[j]
    BY <2>1, <2>2 DEF TypeOK
  <2>4. \A i \in Items : /\ Seen(i) => Seen(i)'
                         /\ place[i] # "unborn" => place'[i] # "unborn"
                         /\ place[i] = "read" => place'[i] = "read"
    BY <2>2, <2>3 DEF Seen
  <2>5. gap' = {}
    BY <2>1 DEF OrderInv, SeenInv
  <2>6. PassedInv'
    <3>1. Spool' \subseteq Spool
      BY <2>2, <2>3 DEF Spool
    <3> QED
      BY <2>1, <3>1 DEF OrderInv, PassedInv
  <2> QED
    BY <2>1, <2>4, <2>5, <2>6, OrderDown
<1> QED
  BY <1>1, <1>2, <1>3

\* The listing is in the order of the names; what comes later is in the gap.
LEMMA OrderCatchUp ==
    ASSUME TypeOK, BootInv, OrderInv, CatchUp \/ ObserverStarts
    PROVE  OrderInv'
<1> USE DEF files, clean, backfill, watch, done, KernelRest
<1>1. UNCHANGED <<place, content, stamps, earlier, notices, gap, handled>>
  BY DEF CatchUp, ObserverStarts
<1>2. NamedInv' /\ InOrder' /\ Spool' = Spool /\ Takeable' = Takeable
  BY <1>1 DEF OrderInv, NamedInv, InOrder, Spool, Takeable, Seen
<1>3. CASE CatchUp
  <2>1. kernel = "backfill" /\ kernel' = "catchup" /\ queue' \in Listings /\ ByName(queue')
    BY <1>3 DEF CatchUp
  <2>2. Elements(queue') = Spool /\ queue' \in Seq(Items) /\ Elements(notices) = {} /\ notices = <<>>
    BY <2>1, ListingFacts, NoPipe DEF BootInv
  <2>3. gap = {}
    BY <2>1 DEF OrderInv, SeenInv
  <2>4. SeenInv'
    <3>1. \A i \in Spool : Seen(i)'
      BY <1>1 DEF Spool, Seen
    <3> QED
      BY <1>1, <2>1, <2>2, <2>3, <3>1 DEF OrderInv, SeenInv
  <2>5. PipeInv'
    <3>1. ASSUME NEW b \in DOMAIN queue', NEW j \in earlier[queue'[b]] \cap Takeable
          PROVE  \E a \in DOMAIN queue' : a < b /\ queue'[a] = j
      <4>1. PICK a \in DOMAIN queue' : queue'[a] = j
        BY <2>2, <3>1 DEF Elements, Takeable
      <4>2. queue'[b] \in Spool
        BY <2>2 DEF Elements
      <4>3. a # b
        BY <3>1, <4>1, <4>2 DEF OrderInv, NamedInv, Spool
      <4>4. ~(b < a)
        <5>1. CASE b < a
          <6>1. PICK m, n \in DOMAIN stamps : m < n /\ stamps[m] = queue'[b] /\ stamps[n] = j
            BY <1>1, <2>1, <4>1, <5>1 DEF ByName
          <6>2. n < m
            BY <3>1, <6>1 DEF OrderInv, NamedInv
          <6> QED
            BY <6>1, <6>2 DEF TypeOK
        <5> QED
          BY <5>1
      <4> QED
        BY <2>2, <4>1, <4>3, <4>4
    <3>2. Takeable' \subseteq Elements(queue')
      BY <1>2, <2>2 DEF Takeable
    <3> QED
      BY <1>1, <1>2, <2>2, <3>1, <3>2 DEF PipeInv
  <2>6. PassedInv'
    BY <1>1, <1>2, <2>1 DEF OrderInv, PassedInv
  <2> QED
    BY <1>2, <2>4, <2>5, <2>6 DEF OrderInv
<1>4. CASE ObserverStarts
  <2>1. kernel = "catchup" /\ kernel' = "up" /\ UNCHANGED queue
    BY <1>4 DEF ObserverStarts
  <2>2. SeenInv' /\ PipeInv' /\ PassedInv'
    BY <1>1, <1>2, <2>1 DEF OrderInv, SeenInv, PipeInv, PassedInv, Seen
  <2> QED
    BY <1>2, <2>2 DEF OrderInv
<1> QED
  BY <1>3, <1>4

\* A queue without its head.
LEMMA TailFacts ==
    ASSUME NEW S, NEW q \in Seq(S), q # <<>>
    PROVE  /\ 1 \in DOMAIN q /\ q[1] = Head(q) /\ DOMAIN q \subseteq Nat \ {0}
           /\ \A b \in DOMAIN Tail(q) : b \in Nat /\ b + 1 \in DOMAIN q /\ Tail(q)[b] = q[b + 1]
           /\ \A a \in DOMAIN q : a # 1 => a - 1 \in DOMAIN Tail(q) /\ Tail(q)[a - 1] = q[a]
           /\ Elements(q) = {Head(q)} \cup Elements(Tail(q))
<1>1. 1 \in DOMAIN q /\ q[1] = Head(q) /\ DOMAIN q \subseteq Nat \ {0}
  OBVIOUS
<1>2. \A b \in DOMAIN Tail(q) : b \in Nat /\ b + 1 \in DOMAIN q /\ Tail(q)[b] = q[b + 1]
  OBVIOUS
<1>3. \A a \in DOMAIN q : a # 1 => a - 1 \in DOMAIN Tail(q) /\ Tail(q)[a - 1] = q[a]
  OBVIOUS
<1>4. Elements(q) \subseteq {Head(q)} \cup Elements(Tail(q))
  <2> SUFFICES ASSUME NEW a \in DOMAIN q PROVE q[a] = Head(q) \/ q[a] \in Elements(Tail(q))
    BY DEF Elements
  <2>1. a # 1 => q[a] \in Elements(Tail(q))
    BY <1>3 DEF Elements
  <2> QED
    BY <1>1, <2>1
<1>5. Elements(Tail(q)) \subseteq Elements(q)
  BY TailElements
<1>6. Head(q) \in Elements(q)
  BY TailElements
<1> QED
  BY <1>1, <1>2, <1>3, <1>4, <1>5, <1>6

\* A queue with one path more.
LEMMA AppendFacts ==
    ASSUME NEW S, NEW q \in Seq(S), NEW x \in S
    PROVE  /\ DOMAIN Append(q, x) = DOMAIN q \cup {Len(q) + 1} /\ Len(q) \in Nat
           /\ Append(q, x)[Len(q) + 1] = x
           /\ \A b \in DOMAIN q : b \in Nat /\ b < Len(q) + 1 /\ Append(q, x)[b] = q[b]
OBVIOUS

\* The observer's thread: what waits in front of a notice is queued when the
\* notice is, and a file that is reported again has all it follows before it.
LEMMA OrderObserve ==
    ASSUME TypeOK, OrderInv, Observe \/ \E i \in Items : Redeliver(i)
    PROVE  OrderInv'
<1> USE DEF files, clean, backfill, done
<1>1. UNCHANGED <<place, content, stamps, earlier, kernel, todo, gap, handled>> /\ kernel = "up"
  BY DEF Observe, Redeliver
<1>2. /\ NamedInv' /\ InOrder' /\ PassedInv' /\ Spool' = Spool /\ Takeable' = Takeable
      /\ notices \in Seq(Items) /\ queue \in Seq(Items)
  BY <1>1 DEF OrderInv, NamedInv, InOrder, PassedInv, Spool, Takeable, Seen, TypeOK
<1>3. CASE Observe
  <2> DEFINE h == Head(notices)
  <2>1. notices # <<>> /\ notices' = Tail(notices)
        /\ queue' = (IF h \in Spool THEN Append(queue, h) ELSE queue)
    BY <1>3 DEF Observe
  <2>2. /\ 1 \in DOMAIN notices /\ notices[1] = h /\ DOMAIN notices \subseteq Nat \ {0}
        /\ \A b \in DOMAIN notices' : b \in Nat /\ b + 1 \in DOMAIN notices /\ notices'[b] = notices[b + 1]
        /\ \A a \in DOMAIN notices : a # 1 => a - 1 \in DOMAIN notices' /\ notices'[a - 1] = notices[a]
        /\ Elements(notices) = {h} \cup Elements(notices')
    BY <1>2, <2>1, TailFacts
  <2>3. h \in Items
    BY <1>2, <2>1
  <2> HIDE DEF h
  <2>4. Elements(queue') = IF h \in Spool THEN Elements(queue) \cup {h} ELSE Elements(queue)
    <3>1. Elements(Append(queue, h)) = Elements(queue) \cup {h}
      BY <1>2, <2>3, AppendElements
    <3> QED
      BY <2>1, <3>1
  <2>5. SeenInv'
    BY <1>1, <2>2, <2>4 DEF OrderInv, SeenInv, Seen
  <2>6. Takeable \subseteq Elements(queue') \cup Elements(notices')
    BY <1>1, <2>2, <2>4 DEF OrderInv, PipeInv, Takeable
  <2>7. ASSUME NEW b \in DOMAIN queue', NEW j \in earlier[queue'[b]] \cap Takeable
        PROVE  \E a \in DOMAIN queue' : a < b /\ queue'[a] = j
    <3>1. CASE h \notin Spool
      BY <2>1, <2>7, <3>1 DEF OrderInv, PipeInv
    <3>2. CASE h \in Spool
      <4>1. /\ DOMAIN queue' = DOMAIN queue \cup {Len(queue) + 1} /\ queue'[Len(queue) + 1] = h
            /\ \A a \in DOMAIN queue : a \in Nat /\ a < Len(queue) + 1 /\ queue'[a] = queue[a]
        BY <1>2, <2>1, <2>3, <3>2, AppendFacts
      <4>2. CASE b \in DOMAIN queue
        BY <2>7, <4>1, <4>2 DEF OrderInv, PipeInv
      <4>3. CASE b = Len(queue) + 1
        <5>1. j \in earlier[notices[1]] \cap Takeable
          BY <2>2, <2>7, <4>1, <4>3
        <5>2. ~ \E a \in DOMAIN notices : a < 1
          BY <2>2
        <5>3. j \in Elements(queue)
          BY <2>2, <5>1, <5>2 DEF OrderInv, PipeInv
        <5> QED
          BY <4>1, <4>3, <5>3 DEF Elements
      <4> QED
        BY <4>1, <4>2, <4>3
    <3> QED
      BY <3>1, <3>2
  <2>8. ASSUME NEW b \in DOMAIN notices', NEW j \in earlier[notices'[b]] \cap Takeable
        PROVE  j \in Elements(queue') \/ \E a \in DOMAIN notices' : a < b /\ notices'[a] = j
    <3>1. b \in Nat /\ b + 1 \in DOMAIN notices /\ j \in earlier[notices[b + 1]] \cap Takeable
      BY <2>2, <2>8
    <3>2. CASE j \in Elements(queue)
      BY <2>4, <3>2
    <3>3. ASSUME NEW a \in DOMAIN notices, a < b + 1, notices[a] = j
          PROVE  j \in Elements(queue') \/ \E c \in DOMAIN notices' : c < b /\ notices'[c] = j
      <4>1. CASE a = 1
        BY <2>2, <2>4, <3>3, <4>1 DEF Takeable
      <4>2. CASE a # 1
        <5>1. a - 1 \in DOMAIN notices' /\ notices'[a - 1] = j /\ a - 1 < b
          BY <2>2, <3>1, <3>3, <4>2
        <5> QED
          BY <5>1
      <4> QED
        BY <4>1, <4>2
    <3> QED
      BY <3>1, <3>2, <3>3 DEF OrderInv, PipeInv
  <2>9. PipeInv'
    BY <1>1, <1>2, <2>6, <2>7, <2>8 DEF PipeInv
  <2> QED
    BY <1>2, <2>5, <2>9 DEF OrderInv
<1>4. ASSUME NEW i \in Items, Redeliver(i) PROVE OrderInv'
  <2>1. i \in Spool \ gap /\ notices' = Append(notices, i) /\ UNCHANGED queue
    BY <1>4 DEF Redeliver
  <2>2. /\ DOMAIN notices' = DOMAIN notices \cup {Len(notices) + 1} /\ notices'[Len(notices) + 1] = i
        /\ \A b \in DOMAIN notices : b \in Nat /\ b < Len(notices) + 1 /\ notices'[b] = notices[b]
    BY <1>2, <2>1, AppendFacts
  <2>3. Elements(notices') = Elements(notices) \cup {i}
    BY <1>2, <2>1, AppendElements
  <2>4. SeenInv'
    BY <1>1, <2>1, <2>3 DEF OrderInv, SeenInv, Seen, Spool
  <2>5. ASSUME NEW b \in DOMAIN notices', NEW j \in earlier[notices'[b]] \cap Takeable
        PROVE  j \in Elements(queue) \/ \E a \in DOMAIN notices' : a < b /\ notices'[a] = j
    <3>1. CASE b \in DOMAIN notices
      BY <2>2, <2>5, <3>1 DEF OrderInv, PipeInv
    <3>2. CASE b = Len(notices) + 1
      BY <1>1, <2>2, <3>2 DEF OrderInv, PipeInv, Elements
    <3> QED
      BY <2>2, <3>1, <3>2
  <2>6. Takeable \subseteq Elements(queue) \cup Elements(notices')
    BY <1>1, <2>3 DEF OrderInv, PipeInv
  <2>7. \A b \in DOMAIN queue : \A j \in earlier[queue[b]] \cap Takeable :
           \E a \in DOMAIN queue : a < b /\ queue[a] = j
    BY DEF OrderInv, PipeInv
  <2>8. PipeInv'
    <3>1. Takeable' = Takeable /\ earlier' = earlier /\ queue' = queue
      BY <1>1, <1>2, <2>1
    <3>2. \A b \in DOMAIN notices' : \A j \in earlier[notices'[b]] \cap Takeable :
             j \in Elements(queue) \/ \E a \in DOMAIN notices' : a < b /\ notices'[a] = j
      BY <2>5
    <3> QED
      BY <2>6, <2>7, <3>1, <3>2 DEF PipeInv
  <2> QED
    BY <1>2, <2>4, <2>8 DEF OrderInv
<1> QED
  BY <1>3, <1>4

\* The main loop: the path at the head has nothing before it, and what is
\* dispatched was not overtaken.
LEMMA OrderTake ==
    ASSUME TypeOK, OrderInv, NEW i \in Items,
           \/ TakeGone(i) \/ TakeMalformed(i) \/ TakeUndecodable(i)
           \/ TakeRaises(i) \/ TakeDispatches(i)
    PROVE  OrderInv'
<1> USE DEF clean, backfill
<1>1. /\ UNCHANGED <<content, stamps, earlier, kernel, todo, notices, gap>> /\ kernel = "up"
      /\ queue # <<>> /\ i = Head(queue) /\ queue' = Tail(queue)
      /\ queue \in Seq(Items) /\ handled \in Seq(Items) /\ place \in [Items -> Places]
  BY DEF TakeGone, TakeMalformed, TakeUndecodable, TakeRaises, TakeDispatches, Taking,
         TakeRest, TypeOK, Places
<1>2. /\ 1 \in DOMAIN queue /\ queue[1] = i /\ DOMAIN queue \subseteq Nat \ {0}
      /\ \A b \in DOMAIN queue' : b \in Nat /\ b + 1 \in DOMAIN queue /\ queue'[b] = queue[b + 1]
      /\ \A a \in DOMAIN queue : a # 1 => a - 1 \in DOMAIN queue' /\ queue'[a - 1] = queue[a]
      /\ Elements(queue) = {i} \cup Elements(queue')
  BY <1>1, TailFacts
<1>3. \A j \in Items : j # i => place'[j] = place[j]
  BY <1>1 DEF TakeGone, TakeMalformed, TakeUndecodable, TakeRaises, TakeDispatches
<1>4. /\ place'[i] = place[i] \/ (place[i] = "spool" /\ place'[i] \in {"bad", "read"})
      /\ place'[i] = "spool" => place[i] = "spool" /\ content[i] = "undecodable"
  BY <1>1 DEF TakeGone, TakeMalformed, TakeUndecodable, TakeRaises, TakeDispatches, Spool
<1>5. Spool' \subseteq Spool /\ Takeable' = Takeable \ {i}
  BY <1>1, <1>3, <1>4 DEF Spool, Takeable
<1>6. \A j \in Items : /\ Seen(j) => Seen(j)'
                       /\ place[j] # "unborn" => place'[j] # "unborn"
                       /\ place[j] = "read" => place'[j] = "read"
  BY <1>3, <1>4 DEF Seen
<1>7. NamedInv'
  BY <1>1, <1>6, NamesStay DEF OrderInv
<1>8. PipeInv'
  <2>1. Takeable' \subseteq Elements(queue') \cup Elements(notices)
    BY <1>1, <1>2, <1>5 DEF OrderInv, PipeInv
  <2>2. ASSUME NEW b \in DOMAIN queue', NEW j \in earlier[queue'[b]] \cap Takeable'
        PROVE  \E a \in DOMAIN queue' : a < b /\ queue'[a] = j
    <3>1. b \in Nat /\ b + 1 \in DOMAIN queue /\ j \in earlier[queue[b + 1]] \cap Takeable /\ j # i
      BY <1>2, <1>5, <2>2
    <3>2. PICK a \in DOMAIN queue : a < b + 1 /\ queue[a] = j
      BY <3>1 DEF OrderInv, PipeInv
    <3>3. a - 1 \in DOMAIN queue' /\ queue'[a - 1] = j /\ a - 1 < b
      BY <1>2, <3>1, <3>2
    <3> QED
      BY <3>3
  <2>3. ASSUME NEW b \in DOMAIN notices, NEW j \in earlier[notices[b]] \cap Takeable'
        PROVE  j \in Elements(queue') \/ \E a \in DOMAIN notices : a < b /\ notices[a] = j
    BY <1>2, <1>5, <2>3 DEF OrderInv, PipeInv
  <2> QED
    BY <1>1, <2>1, <2>2, <2>3 DEF PipeInv
<1>9. CASE UNCHANGED handled
  <2>1. SeenInv'
    <3>1. gap \subseteq Items
      BY DEF TypeOK
    <3> QED
      BY <1>1, <1>2, <1>6, <1>9, <3>1, ItemFacts DEF OrderInv, SeenInv
  <2>2. PassedInv' /\ InOrder'
    BY <1>1, <1>5, <1>9 DEF OrderInv, PassedInv, InOrder
  <2> QED
    BY <1>7, <1>8, <2>1, <2>2 DEF OrderInv
<1>10. CASE TakeDispatches(i)
  <2>1. handled' = Append(handled, i) /\ place'[i] = "read" /\ i \in Spool /\ content[i] = "event"
    BY <1>1, <1>10 DEF TakeDispatches
  <2>2. Elements(handled') = Elements(handled) \cup {i}
    BY <1>1, <2>1, AppendElements
  <2>3. SeenInv'
    <3>1. gap \subseteq Items
      BY DEF TypeOK
    <3>2. \A j \in Elements(handled') : place'[j] = "read"
      BY <1>6, <2>1, <2>2, ItemFacts DEF OrderInv, SeenInv
    <3> QED
      BY <1>1, <1>2, <1>6, <3>1, <3>2, ItemFacts DEF OrderInv, SeenInv
  <2>4. PassedInv'
    <3>1. \A k \in Elements(handled) : \A j \in earlier[k] \cap Spool : j \notin Takeable
      BY <1>1 DEF OrderInv, PassedInv
    <3>2. \A j \in earlier[i] : j \notin Takeable
      BY <1>2 DEF OrderInv, PipeInv
    <3> QED
      BY <1>1, <1>5, <2>2, <3>1, <3>2 DEF PassedInv
  <2>5. i \in Takeable
    BY <1>2, <2>1 DEF OrderInv, SeenInv, Takeable
  <2>6. InOrder'
    <3>1. \A k \in Elements(handled) : i \notin earlier[k]
      BY <1>1, <2>1, <2>5 DEF OrderInv, PassedInv
    <3>2. /\ DOMAIN handled' = DOMAIN handled \cup {Len(handled) + 1} /\ handled'[Len(handled) + 1] = i
          /\ \A b \in DOMAIN handled : b \in Nat /\ b < Len(handled) + 1 /\ handled'[b] = handled[b]
          /\ Len(handled) \in Nat
      BY <1>1, <2>1, AppendFacts
    <3> SUFFICES ASSUME NEW k \in DOMAIN handled', NEW l \in DOMAIN handled', k < l
                 PROVE  handled'[l] \notin earlier[handled'[k]]
      BY <1>1 DEF InOrder
    <3>3. k \in DOMAIN handled
      BY <3>2
    <3>4. CASE l = Len(handled) + 1
      BY <3>1, <3>2, <3>3, <3>4, ItemFacts
    <3>5. CASE l \in DOMAIN handled
      BY <3>2, <3>3, <3>5 DEF OrderInv, InOrder
    <3> QED
      BY <3>2, <3>4, <3>5
  <2> QED
    BY <1>7, <1>8, <2>3, <2>4, <2>6 DEF OrderInv
<1> QED
  BY <1>9, <1>10 DEF TakeGone, TakeMalformed, TakeUndecodable, TakeRaises, done

\* With no file there is nothing to order ...
LEMMA OrderInit == Init => OrderInv
<1> SUFFICES ASSUME Init PROVE OrderInv
  OBVIOUS
<1>1. Elements(queue) = {} /\ Elements(notices) = {} /\ Elements(handled) = {}
  BY EmptyElements DEF Init
<1>2. NamedInv /\ InOrder
  BY DEF Init, NamedInv, InOrder
<1>3. SeenInv /\ PassedInv
  BY <1>1 DEF Init, SeenInv, PassedInv
<1>4. PipeInv
  BY DEF Init, PipeInv
<1> QED
  BY <1>2, <1>3, <1>4 DEF OrderInv

\* ... and every step keeps the order.
LEMMA OrderNext == IInv /\ OrderInv /\ [Next]_vars => OrderInv'
<1> SUFFICES ASSUME IInv, OrderInv, [Next]_vars PROVE OrderInv'
  OBVIOUS
<1>0. TypeOK /\ BootInv /\ StormInv /\ BootInv'
  BY InvNext DEF IInv, Core
<1>1. CASE Emitters
  BY <1>0, <1>1, OrderEmit DEF Emitters
<1>2. CASE Boot
  BY <1>0, <1>2, OrderClean, OrderBackfill, OrderCatchUp DEF Boot
<1>3. CASE Stop
  BY <1>0, <1>3, OrderClean
<1>4. CASE Observe \/ \E i \in Items : Redeliver(i)
  BY <1>0, <1>4, OrderObserve
<1>5. CASE Take
  BY <1>0, <1>5, OrderTake DEF Take
<1>6. CASE UNCHANGED vars
  <2> USE DEF vars, files, clean, backfill, watch, done
  <2>1. NamedInv' /\ SeenInv' /\ InOrder'
    BY <1>6 DEF OrderInv, NamedInv, SeenInv, InOrder, Seen
  <2>2. PipeInv' /\ PassedInv'
    BY <1>6 DEF OrderInv, PipeInv, PassedInv, Takeable, Spool
  <2> QED
    BY <2>1, <2>2 DEF OrderInv
<1> QED
  BY <1>1, <1>2, <1>3, <1>4, <1>5, <1>6 DEF Next

\* What waits for the kernel is in the order of the names, and what was
\* overtaken will not be dispatched.
THEOREM OrderInvCorrect == Spec => []OrderInv
BY OrderInit, OrderNext, SpoolInvCorrect, PTL DEF Spec

\* An event that was in the spool when another got its name is dispatched
\* before it or never, through the catch-up at boot, the hop through the
\* observer's thread, redeliveries and kernels that end.
THEOREM InOrderCorrect == Spec => []InOrder
<1>1. OrderInv => InOrder
  BY DEF OrderInv
<1> QED
  BY <1>1, OrderInvCorrect, PTL

-----------------------------------------------------------------------------
(* The refinement of Delivery. *)

\* The clean phase's list is empty in the other phases; a summary is written
\* in one step; a storm is of files that decode.
ListedInv ==
    /\ kernel # "cleaning" => todo = {}
    /\ \A s \in Summaries : place[s] # "tmp" /\ content[s] = "event"
    /\ \A p \in PAIs : \A e \in storms[p] : content[e] = "event"

\* It is what Init gives, and what each step keeps.
LEMMA ListedInit == Init => ListedInv
BY SummaryFacts DEF Init, ListedInv

LEMMA ListedNext == IInv /\ ListedInv /\ [Next]_vars => ListedInv'
<1> SUFFICES ASSUME TypeOK, StormInv, BootInv, ListedInv, [Next]_vars PROVE ListedInv'
  BY DEF IInv, Core
<1> USE DEF files, clean, backfill, watch, done, KernelRest
<1>0. \A s \in Summaries : s \in Items /\ s \notin Events
  BY SummaryFacts
<1>1. CASE Emitters
  <2> SUFFICES ASSUME NEW e \in Events, EmitWrites(e) \/ EmitRenames(e) PROVE ListedInv'
    BY <1>1 DEF Emitters
  <2>1. /\ UNCHANGED <<kernel, todo, storms>> /\ e \in Items
        /\ \A i \in Items : i # e => place'[i] = place[i] /\ content'[i] = content[i]
    BY DEF EmitWrites, EmitRenames, TypeOK, Items
  <2>2. \A p \in PAIs : \A i \in storms[p] : i \in Items /\ content'[i] = content[i]
    BY <2>1 DEF EmitWrites, EmitRenames, StormInv, Spool
  <2> QED
    BY <1>0, <2>1, <2>2 DEF ListedInv
<1>2. CASE Boot
  <2>1. CASE CleanLists \/ CleanDone \/ BackfillRaises \/ CatchUp \/ ObserverStarts
    BY <2>1 DEF CleanLists, CleanDone, BackfillRaises, CatchUp, ObserverStarts, ListedInv
  <2>2. ASSUME NEW x \in todo, CleanUnlinks(x) \/ CleanRaises(x) PROVE ListedInv'
    <3>1. \A s \in Summaries : place'[s] # "tmp"
      BY <1>0, <2>2 DEF CleanUnlinks, CleanRaises, ListedInv, TypeOK
    <3> QED
      BY <2>2, <3>1 DEF CleanUnlinks, CleanRaises, ListedInv
  <2>3. CASE BackfillScans
    BY <2>3 DEF BackfillScans, ListedInv, Storm
  <2>4. ASSUME NEW p \in PAIs, BackfillEmits(p) PROVE ListedInv'
    <3>1. \A s \in Summaries : place'[s] # "tmp"
      BY <1>0, <2>4 DEF BackfillEmits, ListedInv, TypeOK
    <3> QED
      BY <2>4, <3>1 DEF BackfillEmits, ListedInv
  <2>5. ASSUME NEW p \in PAIs, NEW e \in storms[p], BackfillArchives(p, e) PROVE ListedInv'
    <3>1. \A s \in Summaries : place'[s] # "tmp"
      BY <1>0, <2>5 DEF BackfillArchives, ListedInv, TypeOK
    <3>2. \A q \in PAIs : storms'[q] \subseteq storms[q]
      BY <2>5 DEF BackfillArchives, TypeOK
    <3> QED
      BY <2>5, <3>1, <3>2 DEF BackfillArchives, ListedInv
  <2> QED
    BY <1>2, <2>1, <2>2, <2>3, <2>4, <2>5 DEF Boot
<1>3. CASE Stop
  BY <1>3 DEF Stop, ListedInv
<1>4. CASE Observe \/ \E i \in Items : Redeliver(i)
  BY <1>4 DEF Observe, Redeliver, ListedInv
<1>5. CASE Take
  <2> SUFFICES ASSUME NEW i \in Items,
                      \/ TakeGone(i) \/ TakeMalformed(i) \/ TakeUndecodable(i)
                      \/ TakeRaises(i) \/ TakeDispatches(i)
               PROVE  ListedInv'
    BY <1>5 DEF Take
  <2>1. UNCHANGED <<content, kernel, todo, storms>>
    BY DEF TakeGone, TakeMalformed, TakeUndecodable, TakeRaises, TakeDispatches, TakeRest
  <2>2. \A s \in Summaries : place'[s] # "tmp"
    BY <1>0 DEF TakeGone, TakeMalformed, TakeUndecodable, TakeRaises, TakeDispatches, ListedInv, TypeOK
  <2> QED
    BY <2>1, <2>2 DEF ListedInv
<1>6. CASE UNCHANGED vars
  BY <1>6 DEF vars, ListedInv
<1> QED
  BY <1>1, <1>2, <1>3, <1>4, <1>5, <1>6 DEF Next

\* What the mapping says of an item, before and after a step.
LEMMA StatusIs ==
    ASSUME NEW i \in Items
    PROVE  /\ place[i] = "unborn" => DeliveryStatus(i) = "unsent"
           /\ place[i] = "tmp" => DeliveryStatus(i) = "named"
           /\ place[i] = "spool" /\ Doomed(i) => DeliveryStatus(i) = "lost"
           /\ place[i] = "spool" /\ ~Doomed(i) => DeliveryStatus(i) = "waiting"
           /\ place[i] = "wiped" => DeliveryStatus(i) = "lost"
           /\ place[i] = "archived" => DeliveryStatus(i) = "archived"
           /\ place[i] \in {"bad", "read"} => DeliveryStatus(i) = "taken"
BY DEF DeliveryStatus

LEMMA StatusBecomes ==
    ASSUME NEW i \in Items
    PROVE  /\ place'[i] = "unborn" => DeliveryStatus(i)' = "unsent"
           /\ place'[i] = "tmp" => DeliveryStatus(i)' = "named"
           /\ place'[i] = "spool" /\ Doomed(i)' => DeliveryStatus(i)' = "lost"
           /\ place'[i] = "spool" /\ ~Doomed(i)' => DeliveryStatus(i)' = "waiting"
           /\ place'[i] = "wiped" => DeliveryStatus(i)' = "lost"
           /\ place'[i] = "archived" => DeliveryStatus(i)' = "archived"
           /\ place'[i] \in {"bad", "read"} => DeliveryStatus(i)' = "taken"
BY DEF DeliveryStatus

Stays(i) == DeliveryStatus(i)' = DeliveryStatus(i)
Only(i, st) == DeliveryStatus(i)' = st /\ \A j \in Items \ {i} : Stays(j)

\* A file that is not moved, and that no less awaits the kernel, stays.
LEMMA StaysPut ==
    ASSUME TypeOK, NEW i \in Items, place'[i] = place[i],
           place[i] = "spool" => (Doomed(i)' <=> Doomed(i))
    PROVE  Stays(i)
<1>1. place[i] \in Places
  BY DEF TypeOK, Places
<1> QED
  BY <1>1, StatusIs, StatusBecomes DEF Stays, Places

LEMMA OnlyBecomes ==
    ASSUME NEW i \in Items, NEW st, Only(i, st)
    PROVE  DL!Becomes(i, st)
<1>1. [j \in Items |-> DeliveryStatus(j)]' = [[j \in Items |-> DeliveryStatus(j)] EXCEPT ![i] = st]
  BY DEF Only, Stays
<1> QED
  BY <1>1 DEF DL!Becomes

\* The mapped state and its step.
DlVars == <<[i \in Items |-> DeliveryStatus(i)], earlier, nudges, counted, archive>>
DlStep == [DL!Next]_DlVars

LEMMA DlStutters ==
    ASSUME \A i \in Items : Stays(i), UNCHANGED <<earlier, nudges, counted, archive>>
    PROVE  DlStep
<1>1. [i \in Items |-> DeliveryStatus(i)]' = [i \in Items |-> DeliveryStatus(i)]
  BY DEF Stays
<1> QED
  BY <1>1 DEF DlStep, DlVars

LEMMA DlItems ==
    /\ DL!Items = Items
    /\ DL!Waiting = {i \in Items : DeliveryStatus(i) = "waiting"}
BY DEF DL!Items, DL!Waiting, Items

\* What waits in the model is what the kernel will take.
LEMMA WaitingIs ==
    ASSUME TypeOK
    PROVE  DL!Waiting = {i \in Spool : ~Doomed(i)}
<1>1. \A i \in Items : place[i] \in Places
  BY DEF TypeOK, Places
<1>2. \A i \in Items : DeliveryStatus(i) = "waiting" <=> (place[i] = "spool" /\ ~Doomed(i))
  BY <1>1, StatusIs DEF Places
<1> QED
  BY <1>2, DlItems DEF Spool

\* A name is taken after the same items in both.
LEMMA NamedIs ==
    ASSUME TypeOK, NEW i \in Items, Named(i)
    PROVE  DL!Named(i)
<1>1. \A j \in Items : place[j] \in Places
  BY DEF TypeOK, Places
<1>2. \A j \in Items : (DeliveryStatus(j) \notin {"unsent", "named"}) <=> place[j] \notin {"unborn", "tmp"}
  BY <1>1, StatusIs DEF Places
<1>3. {j \in Items : place[j] \notin {"unborn", "tmp"}}
        = {j \in Items : [k \in Items |-> DeliveryStatus(k)][j] \notin {"unsent", "named"}}
  BY <1>2
<1> QED
  BY <1>3, DlItems DEF Named, DL!Named

\* Emitters: a name, and then the file, for the kernel or in vain.
LEMMA DlEmit ==
    ASSUME TypeOK, NEW e \in Events, EmitWrites(e) \/ EmitRenames(e)
    PROVE  DlStep
<1>0. e \in Items /\ place \in [Items -> Places]
  BY DEF Items, TypeOK, Places
<1>1. UNCHANGED <<kernel, todo, nudges, counted, archive>>
  BY DEF EmitWrites, EmitRenames, clean, backfill, done
<1>2. ASSUME NEW j \in Items, j # e PROVE Stays(j)
  <2>1. place'[j] = place[j] /\ content'[j] = content[j]
    BY <1>0, <1>2 DEF EmitWrites, EmitRenames, TypeOK
  <2>2. j \in gap' <=> j \in gap
    BY <1>2 DEF EmitWrites, EmitRenames, watch
  <2>3. Doomed(j)' <=> Doomed(j)
    BY <1>1, <2>1, <2>2 DEF Doomed
  <2> QED
    BY <2>1, <2>3, StaysPut
<1>3. CASE EmitWrites(e)
  <2>1. place[e] = "unborn" /\ place'[e] = "tmp" /\ Named(e)
    BY <1>0, <1>3 DEF EmitWrites
  <2>2. DeliveryStatus(e) = "unsent" /\ DL!Becomes(e, "named") /\ DL!Named(e)
    <3>1. DeliveryStatus(e)' = "named" /\ DeliveryStatus(e) = "unsent"
      BY <1>0, <2>1, StatusIs, StatusBecomes
    <3>2. Only(e, "named")
      BY <1>2, <3>1 DEF Only
    <3> QED
      BY <1>0, <2>1, <3>1, <3>2, OnlyBecomes, NamedIs
  <2>3. DL!Name(e)
    BY <1>0, <1>1, <2>2 DEF DL!Name
  <2> QED
    BY <2>3 DEF DlStep, DL!Next
<1>4. CASE EmitRenames(e)
  <2>1. place[e] = "tmp" /\ place'[e] = "spool" /\ UNCHANGED earlier
    BY <1>0, <1>4 DEF EmitRenames
  <2>2. DeliveryStatus(e) = "named" /\ DeliveryStatus(e)' \in {"waiting", "lost"}
    BY <1>0, <2>1, StatusIs, StatusBecomes
  <2>3. DL!Becomes(e, "waiting") \/ DL!Becomes(e, "lost")
    BY <1>0, <1>2, <2>2, OnlyBecomes DEF Only
  <2>4. DL!Post(e)
    BY <1>0, <1>1, <2>1, <2>2, <2>3 DEF DL!Post
  <2> QED
    BY <2>4 DEF DlStep, DL!Next
<1> QED
  BY <1>3, <1>4

\* An end of the kernel: all that waits is lost in one step.
LEMMA DlLose ==
    ASSUME TypeOK, kernel' = "down", UNCHANGED <<place, earlier, nudges, counted, archive>>
    PROVE  DlStep
<1>1. ASSUME NEW i \in Items
      PROVE  DeliveryStatus(i)' = IF i \in DL!Waiting THEN "lost" ELSE DeliveryStatus(i)
  <2>1. Doomed(i)' /\ place'[i] = place[i]
    BY DEF Doomed
  <2>2. CASE place[i] = "spool"
    BY <2>1, <2>2, StatusIs, StatusBecomes, WaitingIs DEF Spool
  <2>3. CASE place[i] # "spool"
    BY <2>1, <2>3, StaysPut, WaitingIs DEF Stays, Spool
  <2> QED
    BY <2>2, <2>3
<1>2. [i \in Items |-> DeliveryStatus(i)]'
        = [i \in Items |-> IF i \in DL!Waiting THEN "lost" ELSE [j \in Items |-> DeliveryStatus(j)][i]]
  BY <1>1
<1>3. DL!Lose
  BY <1>2, DlItems DEF DL!Lose
<1> QED
  BY <1>3 DEF DlStep, DL!Next

\* The clean phase: what is listed was lost before, and what is not listed
\* comes through.
LEMMA DlClean ==
    ASSUME TypeOK, BootInv, ListedInv,
           \/ CleanLists \/ CleanDone
           \/ \E x \in todo : CleanUnlinks(x) \/ CleanRaises(x)
    PROVE  DlStep
<1> USE DEF files, backfill, watch, done, KernelRest
<1>0. place \in [Items -> Places]
  BY DEF TypeOK, Places
<1>1. CASE CleanLists
  <2>1. /\ kernel = "down" /\ UNCHANGED <<files, nudges, counted, archive>>
        /\ todo' = {<<j, place[j]>> : j \in {k \in Items : place[k] \in {"tmp", "spool"}}}
    BY <1>1 DEF CleanLists
  <2>2. ASSUME NEW i \in Items PROVE Stays(i)
    <3>1. Doomed(i)
      BY <2>1 DEF Doomed
    <3>2. place[i] = "spool" => Doomed(i)'
      <4>1. place[i] = "spool" => <<i, place[i]>> \in todo'
        BY <2>1
      <4> QED
        BY <4>1 DEF Doomed
    <3> QED
      BY <2>1, <3>1, <3>2, StaysPut
  <2> QED
    BY <2>1, <2>2, DlStutters
<1>2. CASE CleanDone
  <2>1. /\ kernel = "cleaning" /\ kernel' = "hooks" /\ todo = {}
        /\ UNCHANGED <<files, todo, gap, nudges, counted, archive>>
    BY <1>2 DEF CleanDone, clean
  <2>2. \A i \in Items : Doomed(i)' <=> Doomed(i)
    BY <2>1 DEF Doomed
  <2> QED
    BY <2>1, <2>2, StaysPut, DlStutters
<1>3. ASSUME NEW x \in todo, CleanUnlinks(x) PROVE DlStep
  <2> DEFINE i == x[1]
  <2>1. /\ kernel = "cleaning" /\ place[i] = x[2] /\ todo' = todo \ {x}
        /\ place' = [place EXCEPT ![i] = "wiped"]
        /\ UNCHANGED <<content, earlier, kernel, gap, nudges, counted, archive>>
        /\ i \in Items /\ place[i] \in {"tmp", "spool"}
    BY <1>3 DEF CleanUnlinks, TypeOK
  <2>2. place'[i] = "wiped" /\ \A j \in Items \ {i} : place'[j] = place[j]
    BY <1>0, <2>1
  <2>3. DeliveryStatus(i)' = "lost"
    BY <2>1, <2>2, StatusBecomes
  <2>4. ASSUME NEW j \in Items \ {i} PROVE Stays(j)
    <3>1. (\E y \in todo' : y[1] = j) <=> (\E y \in todo : y[1] = j)
      BY <2>1, <2>4
    <3>2. Doomed(j)' <=> Doomed(j)
      BY <2>1, <3>1 DEF Doomed
    <3> QED
      BY <2>2, <3>2, StaysPut
  <2>5. CASE place[i] = "spool"
    <3>1. Doomed(i)
      BY DEF Doomed
    <3>2. Stays(i)
      BY <2>1, <2>3, <2>5, <3>1, StatusIs DEF Stays
    <3> QED
      BY <2>1, <2>4, <3>2, DlStutters
  <2>6. CASE place[i] = "tmp"
    <3>1. i \in Events
      BY <2>1, <2>6 DEF ListedInv, Items
    <3>2. DL!Becomes(i, "lost") /\ DeliveryStatus(i) = "named"
      BY <2>1, <2>3, <2>4, <2>6, OnlyBecomes, StatusIs DEF Only
    <3>3. DL!Withdraw(i)
      BY <2>1, <3>2 DEF DL!Withdraw
    <3> QED
      BY <3>1, <3>3 DEF DlStep, DL!Next
  <2> QED
    BY <2>1, <2>5, <2>6
<1>4. ASSUME NEW x \in todo, CleanRaises(x) PROVE DlStep
  <2>1. kernel' = "down" /\ UNCHANGED <<place, earlier, nudges, counted, archive>>
    BY <1>4 DEF CleanRaises
  <2> QED
    BY <2>1, DlLose
<1> QED
  BY <1>1, <1>2, <1>3, <1>4

\* In the backfill nothing decodable is doomed, the storms least of all.
LEMMA StormWaits ==
    ASSUME TypeOK, StormInv, ListedInv, SeenInv, NEW p \in PAIs, kernel = "backfill"
    PROVE  /\ storms[p] \subseteq DL!Waiting \cap Events
           /\ \A s \in Summaries : place[s] = "spool" => s \in DL!Waiting
<1>1. todo = {} /\ gap = {}
  BY DEF ListedInv, SeenInv
<1>2. \A i \in Spool : content[i] = "event" => ~Doomed(i)
  BY <1>1 DEF Doomed
<1>3. \A s \in Summaries : place[s] = "spool" => s \in Spool
  BY SummaryFacts DEF Spool
<1>4. storms[p] \subseteq Spool \cap Events
  BY DEF StormInv
<1> QED
  BY <1>2, <1>3, <1>4, WaitingIs DEF ListedInv

\* The backfill, file by file.
LEMMA DlBackfill ==
    ASSUME TypeOK, BootInv, StormInv, CountInv, ListedInv, SeenInv,
           \/ BackfillRaises \/ BackfillScans
           \/ \E p \in PAIs : BackfillEmits(p) \/ \E e \in storms[p] : BackfillArchives(p, e)
    PROVE  DlStep
<1> USE DEF files, clean, watch, done, KernelRest
<1>0. place \in [Items -> Places]
  BY DEF TypeOK, Places
<1>1. CASE BackfillRaises
  <2>1. kernel' = "down" /\ UNCHANGED <<place, earlier, nudges, counted, archive>>
    BY <1>1 DEF BackfillRaises, backfill
  <2> QED
    BY <2>1, DlLose
<1>2. CASE BackfillScans
  <2>1. /\ kernel = "hooks" /\ kernel' = "backfill"
        /\ UNCHANGED <<files, todo, gap, nudges, counted, archive>>
    BY <1>2 DEF BackfillScans
  <2>2. \A i \in Items : Doomed(i)' <=> Doomed(i)
    BY <2>1 DEF Doomed
  <2> QED
    BY <2>1, <2>2, StaysPut, DlStutters
<1>3. ASSUME NEW p \in PAIs, BackfillEmits(p) PROVE DlStep
  <2>0. <<p, boots>> \in Summaries
    BY <1>3 DEF BackfillEmits, Begun, BootInv, TypeOK, Summaries
  <2> PICK s \in Summaries : s = <<p, boots>>
    BY <2>0
  <2>1. /\ kernel = "backfill" /\ storms[p] # {} /\ place[s] = "unborn"
        /\ place' = [place EXCEPT ![s] = "spool"] /\ Named(s)
        /\ counted' = [counted EXCEPT ![s] = storms[p]]
        /\ UNCHANGED <<content, kernel, todo, gap, nudges, archive>>
        /\ s \in Items
    BY <1>3 DEF BackfillEmits, Begun, Items
  <2>2. place'[s] = "spool" /\ \A j \in Items \ {s} : place'[j] = place[j]
    BY <1>0, <2>1
  <2>3. \A j \in Items : Doomed(j)' <=> Doomed(j)
    BY <2>1 DEF Doomed
  <2>4. todo = {} /\ gap = {} /\ content[s] = "event"
    BY <2>1 DEF ListedInv, SeenInv
  <2>5. ~Doomed(s)
    BY <2>1, <2>4 DEF Doomed
  <2>6. DeliveryStatus(s) = "unsent" /\ DeliveryStatus(s)' = "waiting"
    BY <2>1, <2>2, <2>3, <2>5, StatusIs, StatusBecomes
  <2>7. Only(s, "waiting")
    BY <2>2, <2>3, <2>6, StaysPut DEF Only
  <2>8. DL!Becomes(s, "waiting") /\ DL!Named(s)
    BY <2>1, <2>7, OnlyBecomes, NamedIs
  <2>9. storms[p] \subseteq DL!Waiting \cap Events
    BY <2>1, StormWaits
  <2>10. DL!Summarise(s, storms[p])
    BY <2>1, <2>6, <2>8, <2>9 DEF DL!Summarise
  <2>11. storms[p] \in SUBSET Events
    BY <2>9
  <2> QED
    BY <2>1, <2>10, <2>11 DEF DlStep, DL!Next
<1>4. ASSUME NEW p \in PAIs, NEW e \in storms[p], BackfillArchives(p, e) PROVE DlStep
  <2>0. <<p, boots>> \in Summaries
    BY <1>4 DEF BackfillArchives, Begun, BootInv, TypeOK, Summaries
  <2> PICK s \in Summaries : s = <<p, boots>>
    BY <2>0
  <2>1. /\ kernel = "backfill" /\ Begun(p)
        /\ place' = [place EXCEPT ![e] = "archived"]
        /\ archive' = [archive EXCEPT ![s] = archive[s] \cup {e}]
        /\ UNCHANGED <<content, earlier, kernel, todo, gap, nudges, counted>>
        /\ s \in Items
    BY <1>4 DEF BackfillArchives, Items
  <2>2. place[s] = "spool" /\ counted[s] = archive[s] \cup storms[p]
    BY <2>1 DEF CountInv
  <2>3. s \in DL!Waiting /\ e \in DL!Waiting /\ e \in Events /\ e \in Items
    BY <2>1, <2>2, StormWaits DEF Items
  <2>4. place'[e] = "archived" /\ \A j \in Items \ {e} : place'[j] = place[j]
    BY <1>0, <2>1, <2>3
  <2>5. \A j \in Items : Doomed(j)' <=> Doomed(j)
    BY <2>1 DEF Doomed
  <2>6. Only(e, "archived")
    BY <2>3, <2>4, <2>5, StaysPut, StatusBecomes DEF Only
  <2>7. DL!Becomes(e, "archived")
    BY <2>3, <2>6, OnlyBecomes
  <2>8. DL!Archive(s, e)
    BY <2>1, <2>2, <2>3, <2>7 DEF DL!Archive
  <2> QED
    BY <2>1, <2>3, <2>8 DEF DlStep, DL!Next
<1> QED
  BY <1>1, <1>2, <1>3, <1>4

\* The listing, the observer and its reports move no file.
LEMMA DlWatch ==
    ASSUME TypeOK, SeenInv,
           CatchUp \/ ObserverStarts \/ Observe \/ \E i \in Items : Redeliver(i)
    PROVE  DlStep
<1>1. /\ UNCHANGED <<place, content, earlier, todo, gap, nudges, counted, archive>>
      /\ kernel # "down" /\ kernel' # "down"
  BY DEF CatchUp, ObserverStarts, Observe, Redeliver, files, clean, backfill, watch, done, KernelRest
<1>2. \A i \in Items : Doomed(i)' <=> Doomed(i)
  BY <1>1 DEF Doomed
<1> QED
  BY <1>1, <1>2, StaysPut, DlStutters

\* The path at the head, if its file is there and decodes, is what is due.
LEMMA HeadIsDue ==
    ASSUME TypeOK, OrderInv, SummaryInv, ListedInv, NEW i \in Items, Taking(i), i \in Spool,
           content[i] # "undecodable"
    PROVE  DL!Due(i)
<1>1. /\ kernel = "up" /\ queue \in Seq(Items) /\ queue # <<>> /\ i = Head(queue)
      /\ 1 \in DOMAIN queue /\ queue[1] = i /\ DOMAIN queue \subseteq Nat \ {0}
  BY TailFacts DEF Taking, TypeOK
<1>2. i \in Elements(queue)
  BY <1>1 DEF Elements
<1>3. todo = {} /\ i \notin gap
  BY <1>1, <1>2 DEF ListedInv, OrderInv, SeenInv
<1>4. ~Doomed(i)
  BY <1>1, <1>3 DEF Doomed
<1>5. earlier[i] \cap Takeable = {}
  <2>1. ~ \E a \in DOMAIN queue : a < 1
    BY <1>1
  <2> QED
    BY <1>1, <2>1 DEF OrderInv, PipeInv
<1>6. DL!Waiting \subseteq Takeable
  BY WaitingIs DEF Doomed, Takeable
<1>7. i \in Summaries => archive[i] = counted[i]
  BY <1>2 DEF SummaryInv, Known, Good
<1> QED
  BY <1>4, <1>5, <1>6, <1>7, WaitingIs DEF DL!Due

\* The main loop takes what is due, or nothing.
LEMMA DlTake ==
    ASSUME TypeOK, Core, OrderInv, ListedInv, NEW i \in Items,
           \/ TakeGone(i) \/ TakeMalformed(i) \/ TakeUndecodable(i)
           \/ TakeRaises(i) \/ TakeDispatches(i)
    PROVE  DlStep
<1>0. /\ place \in [Items -> Places]
      /\ UNCHANGED <<content, earlier, kernel, todo, gap, counted, archive>> /\ Taking(i)
  BY DEF TakeGone, TakeMalformed, TakeUndecodable, TakeRaises, TakeDispatches, TakeRest, TypeOK,
         Places, clean, backfill
<1>1. \A j \in Items : Doomed(j)' <=> Doomed(j)
  BY <1>0 DEF Doomed
<1>2. CASE TakeGone(i) \/ TakeUndecodable(i)
  <2>1. UNCHANGED <<place, nudges>>
    BY <1>2 DEF TakeGone, TakeUndecodable, done
  <2> QED
    BY <1>0, <1>1, <2>1, StaysPut, DlStutters
<1>3. CASE TakeMalformed(i) \/ TakeRaises(i) \/ TakeDispatches(i)
  <2>1. /\ i \in Spool /\ place'[i] \in {"bad", "read"} /\ content[i] # "undecodable"
        /\ \A j \in Items \ {i} : place'[j] = place[j]
    BY <1>0, <1>3 DEF TakeMalformed, TakeRaises, TakeDispatches
  <2>2. DL!Due(i)
    BY <1>0, <2>1, HeadIsDue DEF Core
  <2>3. DeliveryStatus(i)' = "taken"
    BY <2>1, StatusBecomes
  <2>4. Only(i, "taken")
    BY <1>1, <2>1, <2>3, StaysPut DEF Only
  <2>5. DL!Becomes(i, "taken")
    BY <2>4, OnlyBecomes
  <2>6. CASE TakeMalformed(i) \/ TakeRaises(i)
    <3>1. DL!Refuse(i)
      BY <1>0, <2>2, <2>5, <2>6 DEF DL!Refuse, TakeMalformed, TakeRaises, done
    <3> QED
      BY <3>1, DlItems DEF DlStep, DL!Next
  <2>7. CASE TakeDispatches(i)
    <3>1. \A p \in PAIs : nudges[i][p] = 0
      BY <2>1, Quiet DEF Spool
    <3>2. nudges' = [nudges EXCEPT ![i] = [p \in PAIs |-> nudges[i][p] + (IF p \in Recipients(i) THEN 1 ELSE 0)]]
      BY <2>7 DEF TakeDispatches
    <3>3. [p \in PAIs |-> nudges[i][p] + (IF p \in Recipients(i) THEN 1 ELSE 0)]
            = [p \in PAIs |-> IF p \in [j \in Items |-> Recipients(j)][i] THEN 1 ELSE 0]
      BY <3>1
    <3>4. DL!Take(i)
      BY <1>0, <2>2, <2>5, <3>2, <3>3 DEF DL!Take
    <3> QED
      BY <3>4, DlItems DEF DlStep, DL!Next
  <2> QED
    BY <1>3, <2>6, <2>7
<1> QED
  BY <1>2, <1>3

\* Each step of the spool is a step of the delivery, or the delivery stutters.
LEMMA DlNext == IInv /\ OrderInv /\ ListedInv /\ [Next]_vars => DlStep
<1> SUFFICES ASSUME TypeOK, Core, OrderInv, ListedInv, [Next]_vars PROVE DlStep
  BY DEF IInv
<1>0. BootInv /\ StormInv /\ CountInv /\ SeenInv
  BY DEF Core, OrderInv
<1>1. CASE Emitters
  BY <1>1, DlEmit DEF Emitters
<1>2. CASE Boot
  BY <1>0, <1>2, DlClean, DlBackfill, DlWatch DEF Boot
<1>3. CASE Stop
  <2>1. kernel' = "down" /\ UNCHANGED <<place, earlier, nudges, counted, archive>>
    BY <1>3 DEF Stop, files, KernelRest, done
  <2> QED
    BY <2>1, DlLose
<1>4. CASE Observe \/ \E i \in Items : Redeliver(i)
  BY <1>0, <1>4, DlWatch
<1>5. CASE Take
  BY <1>5, DlTake DEF Take
<1>6. CASE UNCHANGED vars
  <2>1. UNCHANGED <<place, content, earlier, kernel, todo, gap, nudges, counted, archive>>
    BY <1>6 DEF vars, files, clean, backfill, watch, done
  <2>2. \A i \in Items : Doomed(i)' <=> Doomed(i)
    BY <2>1 DEF Doomed
  <2> QED
    BY <2>1, <2>2, StaysPut, DlStutters
<1> QED
  BY <1>1, <1>2, <1>3, <1>4, <1>5, <1>6 DEF Next

\* An empty spool is one in which nothing was sent.
LEMMA DlInit == Init => DL!Init
<1> SUFFICES ASSUME Init PROVE DL!Init
  OBVIOUS
<1>1. \A i \in Items : DeliveryStatus(i) = "unsent"
  BY StatusIs DEF Init
<1> QED
  BY <1>1, DlItems DEF Init, DL!Init

\* EventSpool implements Delivery: whatever boots, clean phases, storms,
\* redeliveries and kills lie in between, a file is lost when it is shown or
\* with all that wait, a lost one never comes back, what waits is taken in
\* the order of the names and nudges its readers once, and a summary is
\* taken when its archive holds what it claims.
THEOREM DeliveryCorrect == Spec => DeliverySpec
<1>1. Spec => []ListedInv
  BY ListedInit, ListedNext, SpoolInvCorrect, PTL DEF Spec
<1>2. IInv /\ OrderInv /\ ListedInv /\ [Next]_vars
        => [DL!Next]_<<[i \in Items |-> DeliveryStatus(i)], earlier, nudges, counted, archive>>
  BY DlNext DEF DlStep, DlVars
<1> QED
  BY <1>1, <1>2, DlInit, SpoolInvCorrect, OrderInvCorrect, PTL DEF Spec, DeliverySpec, DL!Spec
=============================================================================
