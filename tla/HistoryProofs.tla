---------------------------- MODULE HistoryProofs ----------------------------
(***************************************************************************)
(* Proofs about History, for any thresholds, number of turns, crashes and  *)
(* console commands: a turn that was saved is in the transcript or in an   *)
(* archive, and one that a reset has taken out is in no later prompt, but  *)
(* for the exceptions that the history variables name.                     *)
(***************************************************************************)
EXTENDS History, TLAPS

\* What may be left of a reset, before and after its archive.
Unarchived ==
    {<<"session", "archive", "replace", "gauge">>, <<"archive", "replace", "session", "gauge">>,
     <<"archive", "replace", "gauge">>}
Archived ==
    {<<"replace", "session", "gauge">>, <<"replace", "gauge">>, <<"session", "gauge">>, <<"gauge">>}

\* A reset that replaces the file and does not forget the session after it;
\* one that has replaced and has the session to forget; the kernel's own.
Bare == {<<"archive", "replace", "gauge">>, <<"replace", "gauge">>}
Late == {<<"session", "gauge">>}
KernelOnly ==
    {<<"archive", "replace", "session", "gauge">>, <<"replace", "session", "gauge">>,
     <<"session", "gauge">>}

TurnRecords ==
    [phase : {"idle", "checked", "calling", "replied", "saved"}, kind : {"work", "compact"},
     number : Nat, base : SUBSET (Turns \cup {Summary}), retried : BOOLEAN]

TypeInv ==
    /\ todo \in [Writers -> Unarchived \cup Archived \cup {<< >>}]
    /\ turn \in TurnRecords /\ started \in Nat
    /\ live \subseteq Turns \cup {Summary} /\ session \subseteq Turns
    /\ saved \subseteq Turns /\ forgot \subseteq Turns

\* Turns are numbered in the order in which they begin.
NumberInv ==
    /\ turn.number <= started
    /\ turn.phase # "idle" => turn.number \in Turns
    /\ turn.phase # "idle" /\ turn.kind = "compact" =>
          turn.number + 1 <= started /\ turn.number + 1 \in Turns

\* What a turn finds is of earlier turns.
KnownInv ==
    /\ \A x \in forgot \cup (live \cap Turns) :
          /\ x <= started
          /\ turn.phase \in {"checked", "calling", "replied"} => x < turn.number
          /\ turn.phase = "saved" => x <= turn.number
    /\ \A x \in session :
          /\ x <= started
          /\ turn.phase \in {"checked", "calling"} => x < turn.number
          /\ turn.phase \in {"replied", "saved"} => x <= turn.number
    /\ turn.phase \in {"calling", "replied"} => \A x \in turn.base \cap Turns : x < turn.number

\* The kernel's turns and resets, and the console's, are not at once.
ApartInv == turn.phase # "idle" \/ todo["kernel"] # << >> => todo["console"] = << >>

\* A reset that has archived may drop the file; a turn that replies may put
\* what it loaded in the file's place.
ArchivedInv == \A w \in Writers : todo[w] \in Archived => live \cap Turns \subseteq archives

LoadedInv ==
    turn.phase \in {"calling", "replied"} /\ todo["kernel"] \notin Unarchived =>
        live \cap Turns \subseteq turn.base \cup archives

SavedInv == saved \subseteq live \cup archives

SafeInv == ~overlap => ApartInv /\ ArchivedInv /\ LoadedInv /\ SavedInv

\* What was forgotten is not in the file, not in what a turn has loaded, and
\* in the session only while the reset that forgot it is to clear that too.
ForgetInv ==
    /\ live \cap forgot = {} /\ leaked = {}
    /\ turn.phase \in {"calling", "replied"} => turn.base \cap forgot = {}
    /\ todo["kernel"] \notin Late => session \cap forgot = {}
    /\ \A w \in Writers : todo[w] \in Bare => session = {}

\* Only the kernel forgets the session last; a turn that overflowed restarts
\* from nothing; without claudecode there is no session.
ResetInv ==
    /\ todo["console"] \notin KernelOnly
    /\ turn.phase \in {"calling", "replied"} /\ todo["kernel"] # << >> => turn.base = {}
    /\ ~claude => session = {}

HistoryInv ==
    /\ TypeInv /\ NumberInv /\ KnownInv /\ ResetInv /\ SafeInv
    /\ ~torn /\ ~overlap => ForgetInv

-----------------------------------------------------------------------------
(* Resets. *)

\* One write less: what is left is the rest of a reset.
LEMMA Rests ==
    ASSUME NEW t \in Unarchived \cup Archived
    PROVE  /\ t # << >> /\ Tail(t) \in Unarchived \cup Archived \cup {<< >>}
           /\ Head(t) = "archive" => t \in Unarchived /\ Tail(t) \in Archived
           /\ Head(t) = "replace" => t \in Archived /\ Tail(t) \in Archived
           /\ Head(t) \in {"session", "gauge"} /\ t \in Unarchived => Tail(t) \in Unarchived
           /\ Head(t) \in {"session", "gauge"} /\ t \in Archived => Tail(t) \in Archived \cup {<< >>}
<1>1. /\ Tail(<<"session", "archive", "replace", "gauge">>) = <<"archive", "replace", "gauge">>
      /\ Tail(<<"archive", "replace", "session", "gauge">>) = <<"replace", "session", "gauge">>
      /\ Tail(<<"archive", "replace", "gauge">>) = <<"replace", "gauge">>
      /\ Tail(<<"replace", "session", "gauge">>) = <<"session", "gauge">>
      /\ Tail(<<"replace", "gauge">>) = <<"gauge">>
      /\ Tail(<<"session", "gauge">>) = <<"gauge">>
      /\ Tail(<<"gauge">>) = << >>
  OBVIOUS
<1>2. CASE t = <<"session", "archive", "replace", "gauge">>
  BY <1>1, <1>2 DEF Unarchived, Archived
<1>3. CASE t = <<"archive", "replace", "session", "gauge">>
  BY <1>1, <1>3 DEF Unarchived, Archived
<1>4. CASE t = <<"archive", "replace", "gauge">>
  BY <1>1, <1>4 DEF Unarchived, Archived
<1>5. CASE t = <<"replace", "session", "gauge">>
  BY <1>1, <1>5 DEF Unarchived, Archived
<1>6. CASE t = <<"replace", "gauge">>
  BY <1>1, <1>6 DEF Unarchived, Archived
<1>7. CASE t = <<"session", "gauge">>
  BY <1>1, <1>7 DEF Unarchived, Archived
<1>8. CASE t = <<"gauge">>
  BY <1>1, <1>8 DEF Unarchived, Archived
<1> QED
  BY <1>2, <1>3, <1>4, <1>5, <1>6, <1>7, <1>8 DEF Unarchived, Archived

\* A replacement without the session still to forget comes after that.
LEMMA RestsOfSession ==
    ASSUME NEW t \in Unarchived \cup Archived
    PROVE  /\ Head(t) = "archive" => (t \in Bare <=> Tail(t) \in Bare) /\ Tail(t) \notin Late
           /\ Head(t) = "replace" => (t \in Bare \/ t \in KernelOnly) /\ Tail(t) \notin Bare
           /\ Head(t) = "replace" => (t \in Bare \/ Tail(t) \in Late)
           /\ Head(t) = "gauge" => Tail(t) \notin Bare \cup Late
           /\ Head(t) = "session" => Tail(t) \notin Late
           /\ Head(t) # "session" => t \notin Late
           /\ t \notin KernelOnly => Tail(t) \notin KernelOnly
<1>1. /\ Tail(<<"session", "archive", "replace", "gauge">>) = <<"archive", "replace", "gauge">>
      /\ Tail(<<"archive", "replace", "session", "gauge">>) = <<"replace", "session", "gauge">>
      /\ Tail(<<"archive", "replace", "gauge">>) = <<"replace", "gauge">>
      /\ Tail(<<"replace", "session", "gauge">>) = <<"session", "gauge">>
      /\ Tail(<<"replace", "gauge">>) = <<"gauge">>
      /\ Tail(<<"session", "gauge">>) = <<"gauge">>
      /\ Tail(<<"gauge">>) = << >>
  OBVIOUS
<1> USE DEF Bare, Late, KernelOnly
<1>2. CASE t = <<"session", "archive", "replace", "gauge">>
  BY <1>1, <1>2
<1>3. CASE t = <<"archive", "replace", "session", "gauge">>
  BY <1>1, <1>3
<1>4. CASE t = <<"archive", "replace", "gauge">>
  BY <1>1, <1>4
<1>5. CASE t = <<"replace", "session", "gauge">>
  BY <1>1, <1>5
<1>6. CASE t = <<"replace", "gauge">>
  BY <1>1, <1>6
<1>7. CASE t = <<"session", "gauge">>
  BY <1>1, <1>7
<1>8. CASE t = <<"gauge">>
  BY <1>1, <1>8
<1> QED
  BY <1>2, <1>3, <1>4, <1>5, <1>6, <1>7, <1>8 DEF Unarchived, Archived

\* The three kinds of reset begin with what is not archived.
LEMMA Begins ==
    /\ OfAction \in Unarchived /\ OfKernel \in Unarchived /\ OfOnboarding \in Unarchived
    /\ Unarchived \cap Archived = {} /\ << >> \notin Unarchived \cup Archived
    /\ OfAction \notin KernelOnly \cup Bare \cup Late /\ OfKernel \notin Bare \cup Late
    /\ << >> \notin Bare \cup Late \cup KernelOnly /\ Late \subseteq KernelOnly
BY DEF OfAction, OfKernel, OfOnboarding, Unarchived, Archived, Bare, Late, KernelOnly

\* Each write of a reset keeps the invariant.
LEMMA WriteNext ==
    ASSUME HistoryInv, NEW w \in Writers,
           Archives(w) \/ Replaces(w) \/ ClearsSession(w) \/ ZeroesGauge(w)
    PROVE  HistoryInv'
<1> DEFINE t == todo[w]
<1>1. t \in Unarchived \cup Archived
  BY DEF Archives, Replaces, ClearsSession, ZeroesGauge, Free, HistoryInv, TypeInv
<1>2. /\ todo' = [todo EXCEPT ![w] = Tail(t)]
      /\ todo \in [Writers -> Unarchived \cup Archived \cup {<< >>}]
      /\ UNCHANGED <<claude, turn, started, saved, leaked, torn, overlap>>
  BY DEF Archives, Replaces, ClearsSession, ZeroesGauge, Done, HistoryInv, TypeInv, History, Files
<1>3. /\ todo'[w] = Tail(t) /\ Tail(t) \in Unarchived \cup Archived \cup {<< >>}
      /\ \A v \in Writers \ {w} : todo'[v] = todo[v]
  BY <1>1, <1>2, Rests
<1>4. /\ live' \subseteq Turns \cup {Summary} /\ session' \subseteq session
      /\ live' \cap Turns \subseteq live \cap Turns
      /\ forgot' \subseteq forgot \cup (live \cap Turns)
  BY DEF Archives, Replaces, ClearsSession, ZeroesGauge, Turns, Summary, HistoryInv, TypeInv, History
<1>5. TypeInv' /\ NumberInv' /\ KnownInv'
  BY <1>2, <1>3, <1>4 DEF HistoryInv, TypeInv, NumberInv, KnownInv, TurnRecords, Turns
<1>6. ResetInv'
  <2>1. todo'["console"] \notin KernelOnly
    BY <1>1, <1>2, <1>3, RestsOfSession DEF HistoryInv, ResetInv, Writers
  <2>2. todo'["kernel"] # << >> => todo["kernel"] # << >>
    BY <1>1, <1>2, <1>3, Begins DEF Writers
  <2> QED
    BY <1>2, <1>4, <2>1, <2>2 DEF HistoryInv, ResetInv
<1>7. SafeInv'
  <2> SUFFICES ASSUME ~overlap PROVE ApartInv' /\ ArchivedInv' /\ LoadedInv' /\ SavedInv'
    BY <1>2 DEF SafeInv
  <2>1. ApartInv /\ ArchivedInv /\ LoadedInv /\ SavedInv
    BY DEF HistoryInv, SafeInv
  <2>2. t # << >>
    BY <1>1, Rests
  <2>3. ApartInv'
    BY <1>2, <1>3, <2>1, <2>2 DEF ApartInv, Writers
  <2>4. CASE Archives(w)
    <3>1. live' = live /\ archives' = archives \cup (live \cap Turns)
      BY <2>4 DEF Archives
    <3> QED
      BY <1>2, <2>1, <2>3, <3>1 DEF ArchivedInv, LoadedInv, SavedInv
  <2>5. CASE Replaces(w)
    <3>1. live' \cap Turns = {} /\ archives' = archives
      BY <2>5 DEF Replaces, Turns, Summary
    <3>2. live \cap Turns \subseteq archives
      BY <1>1, <2>1, <2>5, Rests DEF Replaces, ArchivedInv
    <3> QED
      BY <1>2, <2>1, <2>3, <3>1, <3>2 DEF ArchivedInv, LoadedInv, SavedInv, HistoryInv, TypeInv
  <2>6. CASE ClearsSession(w) \/ ZeroesGauge(w)
    <3>1. live' = live /\ archives' = archives
      BY <2>6 DEF ClearsSession, ZeroesGauge
    <3>2. (t \in Unarchived => Tail(t) \in Unarchived) /\ (Tail(t) \in Archived => t \in Archived)
      BY <1>1, <2>6, Rests, Begins DEF ClearsSession, ZeroesGauge
    <3> QED
      BY <1>1, <1>2, <1>3, <2>1, <2>3, <3>1, <3>2 DEF ArchivedInv, LoadedInv, SavedInv, Writers
  <2> QED
    BY <2>4, <2>5, <2>6
<1>8. ASSUME ~torn, ~overlap PROVE ForgetInv'
  <2>1. ForgetInv /\ ApartInv
    BY <1>8 DEF HistoryInv, SafeInv
  <2>2. CASE Archives(w)
    <3>1. UNCHANGED <<live, session, forgot>>
      BY <2>2 DEF Archives, History
    <3>2. (t \in Bare <=> Tail(t) \in Bare) /\ Tail(t) \notin Late /\ t \notin Late
      BY <1>1, <2>2, RestsOfSession DEF Archives
    <3> QED
      BY <1>2, <1>3, <2>1, <3>1, <3>2 DEF ForgetInv, Writers
  <2>3. CASE Replaces(w)
    <3>1. /\ live' \cap Turns = {} /\ forgot' = forgot \cup (live \cap Turns)
          /\ session' = session /\ live' \subseteq Turns \cup {Summary}
      BY <2>3, <1>4 DEF Replaces, Turns, Summary
    <3>2. /\ t \in Bare \/ (t \in KernelOnly /\ Tail(t) \in Late)
          /\ Tail(t) \notin Bare /\ t \notin Late /\ t # << >>
      BY <1>1, <2>3, RestsOfSession, Rests DEF Replaces
    <3>3. live' \cap forgot' = {}
      BY <3>1, <1>5 DEF TypeInv
    <3>4. turn.phase \in {"calling", "replied"} => turn'.base \cap forgot' = {}
      <4>1. turn.phase \in {"calling", "replied"} => w = "kernel" /\ turn.base = {}
        BY <1>1, <2>1, <3>2 DEF ApartInv, Writers, HistoryInv, ResetInv
      <4> QED
        BY <1>2, <4>1
    <3>5. todo'["kernel"] \notin Late => session' \cap forgot' = {}
      <4>1. CASE t \in Bare
        BY <2>1, <3>1, <4>1 DEF ForgetInv
      <4>2. CASE t \in KernelOnly /\ Tail(t) \in Late
        BY <1>3, <4>2 DEF HistoryInv, ResetInv, Writers
      <4> QED
        BY <3>2, <4>1, <4>2
    <3>6. \A v \in Writers : todo'[v] \in Bare => session' = {}
      BY <1>3, <2>1, <3>1, <3>2 DEF ForgetInv
    <3> QED
      BY <1>2, <2>1, <3>3, <3>4, <3>5, <3>6 DEF ForgetInv
  <2>4. CASE ClearsSession(w)
    <3>1. session' = {} /\ UNCHANGED <<live, forgot>>
      BY <2>4 DEF ClearsSession, History
    <3> QED
      BY <1>2, <2>1, <3>1 DEF ForgetInv
  <2>5. CASE ZeroesGauge(w)
    <3>1. UNCHANGED <<live, session, forgot>>
      BY <2>5 DEF ZeroesGauge, History
    <3>2. Tail(t) \notin Bare \cup Late /\ t \notin Late
      BY <1>1, <2>5, RestsOfSession DEF ZeroesGauge
    <3> QED
      BY <1>2, <1>3, <2>1, <3>1, <3>2 DEF ForgetInv, Writers
  <2> QED
    BY <2>2, <2>3, <2>4, <2>5
<1> QED
  BY <1>2, <1>5, <1>6, <1>7, <1>8 DEF HistoryInv

-----------------------------------------------------------------------------
(* Turns. *)

\* A turn begins with the next number, apart from a reset of the console.
LEMMA StartNext ==
    ASSUME HistoryInv, StaysSmall \/ HardCompacts \/ AsksForSummary
    PROVE  HistoryInv'
<1> USE DEF StaysSmall, HardCompacts, AsksForSummary
<1>1. /\ turn.phase = "idle" /\ todo["kernel"] = << >>
      /\ UNCHANGED <<claude, live, archives, session, saved, forgot, leaked, torn>>
  BY DEF Phase, Free, Files
<1>2. /\ todo' = todo \/ todo' = [todo EXCEPT !["kernel"] = OfKernel]
      /\ overlap' = (overlap \/ todo["console"] # << >>)
  BY DEF Resets, Free
<1>3. /\ turn' \in TurnRecords /\ turn'.phase = "checked" /\ turn'.number = started + 1
      /\ started + 1 \in Turns /\ started' \in Nat /\ started' >= started + 1
      /\ turn'.kind = "compact" => started' = started + 2 /\ started + 2 \in Turns
  <2>1. started \in Nat /\ HistoryTurns \in Nat
    BY HistoryAssumption DEF HistoryInv, TypeInv
  <2>2. CASE StaysSmall \/ HardCompacts
    <3>1. started < HistoryTurns /\ started' = started + 1
      BY <2>2
    <3>2. turn' = [phase |-> "checked", kind |-> "work", number |-> started + 1, base |-> {},
                   retried |-> FALSE]
      BY <2>2 DEF Rest
    <3> QED
      BY <2>1, <3>1, <3>2 DEF TurnRecords, Turns
  <2>3. CASE AsksForSummary
    <3>1. started + 1 < HistoryTurns /\ started' = started + 2
      BY <2>3
    <3>2. turn' = [phase |-> "checked", kind |-> "compact", number |-> started + 1, base |-> {},
                   retried |-> FALSE]
      BY <2>3 DEF Rest
    <3> QED
      BY <2>1, <3>1, <3>2 DEF TurnRecords, Turns
  <2> QED
    BY <2>2, <2>3
<1>4. /\ todo' \in [Writers -> Unarchived \cup Archived \cup {<< >>}]
      /\ todo'["console"] = todo["console"]
      /\ todo'["kernel"] \in Unarchived \cup {<< >>}
      /\ todo'["kernel"] \notin Bare \cup Late \cup Archived
  BY <1>1, <1>2, Begins DEF HistoryInv, TypeInv, Writers
<1>5. TypeInv' /\ NumberInv' /\ KnownInv'
  BY <1>1, <1>3, <1>4 DEF HistoryInv, TypeInv, NumberInv, KnownInv, Turns
<1>6. ResetInv'
  BY <1>1, <1>3, <1>4 DEF HistoryInv, ResetInv
<1>7. SafeInv'
  BY <1>1, <1>2, <1>3, <1>4, Begins
     DEF HistoryInv, SafeInv, ApartInv, ArchivedInv, LoadedInv, SavedInv, Writers
<1>8. ~torn' /\ ~overlap' => ForgetInv'
  BY <1>1, <1>2, <1>3, <1>4, Begins DEF HistoryInv, ForgetInv, Writers
<1> QED
  BY <1>5, <1>6, <1>7, <1>8 DEF HistoryInv

\* A turn loads the file as it is.
LEMMA LoadNext ==
    ASSUME HistoryInv, LoadsHistory
    PROVE  HistoryInv'
<1>1. /\ turn.phase = "checked" /\ todo["kernel"] = << >>
      /\ turn' = [turn EXCEPT !.phase = "calling", !.base = live]
      /\ UNCHANGED <<claude, live, archives, session, todo, started, saved, forgot, leaked, torn, overlap>>
  BY DEF LoadsHistory, Phase, Free, Files, History
<1>2. /\ turn' \in TurnRecords /\ turn'.phase = "calling" /\ turn'.base = live
      /\ turn'.number = turn.number /\ turn'.kind = turn.kind
  BY <1>1 DEF HistoryInv, TypeInv, TurnRecords
<1>3. TypeInv' /\ NumberInv' /\ KnownInv' /\ ResetInv'
  BY <1>1, <1>2 DEF HistoryInv, TypeInv, NumberInv, KnownInv, ResetInv
<1>4. SafeInv' /\ (~torn' /\ ~overlap' => ForgetInv')
  BY <1>1, <1>2 DEF HistoryInv, SafeInv, ApartInv, ArchivedInv, LoadedInv, SavedInv, ForgetInv
<1> QED
  BY <1>1, <1>3, <1>4 DEF HistoryInv

\* What a call is given holds nothing that was forgotten.
LEMMA ContextFact ==
    ASSUME HistoryInv, Phase("calling"), ~torn, ~overlap
    PROVE  Context \cap forgot = {}
<1>1. turn.number \notin forgot
  BY DEF HistoryInv, KnownInv, Phase, TypeInv, NumberInv, Turns
<1>2. turn.base \cap forgot = {} /\ session \cap forgot = {}
  BY Begins DEF HistoryInv, ForgetInv, Phase, Free
<1> QED
  BY <1>1, <1>2 DEF Context

\* Calls, retries and replies keep the file.
LEMMA CallNext ==
    ASSUME HistoryInv,
           \/ \E grown \in Windows, asked \in {"none", "clear", "compact"} :
                 CallsModel(grown, asked)
           \/ Replies \/ Hiccups \/ Overflows
    PROVE  HistoryInv'
<1>1. /\ Phase("calling") /\ turn.phase = "calling" /\ todo["kernel"] = << >>
      /\ UNCHANGED <<claude, live, archives, started, saved, forgot, torn, overlap>>
  BY DEF CallsModel, Replies, Hiccups, Overflows, Phase, Free, Files, History
<1>2. /\ turn' \in TurnRecords /\ turn'.number = turn.number /\ turn'.kind = turn.kind
      /\ turn'.phase \in {"calling", "replied"} /\ turn'.base \in {turn.base, {}}
  BY <1>1 DEF CallsModel, Replies, Hiccups, Overflows, HistoryInv, TypeInv, TurnRecords
<1>3. /\ todo' \in [Writers -> Unarchived \cup Archived \cup {<< >>}]
      /\ todo'["console"] = todo["console"]
      /\ \/ todo'["kernel"] = << >> /\ turn'.base = turn.base
         \/ todo'["kernel"] = OfKernel /\ turn'.base = {}
  <2>1. CASE Overflows
    <3>1. todo' = [todo EXCEPT !["kernel"] = OfKernel] /\ turn'.base = {}
      BY <2>1 DEF Overflows, Resets, HistoryInv, TypeInv, TurnRecords
    <3> QED
      BY <3>1, Begins DEF HistoryInv, TypeInv, Writers
  <2>2. CASE ~Overflows
    <3>1. todo' = todo /\ turn'.base = turn.base
      BY <2>2 DEF CallsModel, Replies, Hiccups, HistoryInv, TypeInv, TurnRecords
    <3> QED
      BY <1>1, <3>1 DEF HistoryInv, TypeInv
  <2> QED
    BY <2>1, <2>2
<1>4. session' = session \/ (claude /\ turn'.phase = "replied" /\ session' = session \cup {turn.number})
  BY <1>1 DEF CallsModel, Replies, Hiccups, Overflows, Pins, Files, HistoryInv, TypeInv, TurnRecords
<1>5. turn.number \in Turns /\ turn.number \notin forgot
  BY <1>1 DEF HistoryInv, NumberInv, KnownInv, TypeInv, Turns
<1>6. leaked' = leaked \/ leaked' = leaked \cup (Context \cap forgot)
  BY DEF CallsModel, Replies, Hiccups, Overflows, History
<1>7. TypeInv' /\ NumberInv' /\ KnownInv'
  <2>1. TypeInv' /\ NumberInv'
    BY <1>1, <1>2, <1>3, <1>4, <1>5 DEF HistoryInv, TypeInv, NumberInv
  <2>2. /\ \A x \in forgot \cup (live \cap Turns) : x <= started /\ x < turn.number
        /\ \A x \in session : x <= started /\ x < turn.number
        /\ \A x \in turn.base \cap Turns : x < turn.number
    BY <1>1, <1>5 DEF HistoryInv, KnownInv
  <2>3. turn.number \in Nat /\ turn.number <= started
    BY <1>5 DEF HistoryInv, NumberInv, Turns
  <2>4. \A x \in session' : /\ x <= started /\ x <= turn.number
                            /\ turn'.phase = "calling" => x < turn.number
    <3>1. \A x \in session : x \in Nat /\ x < turn.number /\ x <= started
      <4>1. session \subseteq Turns
        BY DEF HistoryInv, TypeInv
      <4>2. Turns \subseteq Nat
        BY DEF Turns
      <4> QED
        BY <2>2, <4>1, <4>2
    <3>2. CASE session' = session
      BY <2>3, <3>1, <3>2
    <3>3. CASE turn'.phase = "replied" /\ session' = session \cup {turn.number}
      BY <2>3, <3>1, <3>3
    <3> QED
      BY <1>4, <3>2, <3>3
  <2>5. turn'.base \subseteq turn.base
    BY <1>2
  <2>6. KnownInv'
    BY <1>1, <1>2, <2>2, <2>4, <2>5 DEF KnownInv, Turns
  <2> QED
    BY <2>1, <2>6
<1>8. ResetInv'
  BY <1>1, <1>3, <1>4 DEF HistoryInv, ResetInv
<1>9. SafeInv'
  BY <1>1, <1>2, <1>3, Begins
     DEF HistoryInv, SafeInv, ApartInv, ArchivedInv, LoadedInv, SavedInv, Writers
<1>10. ASSUME ~torn', ~overlap' PROVE ForgetInv'
  <2>1. ForgetInv /\ ApartInv /\ Context \cap forgot = {}
    BY <1>1, <1>10, ContextFact DEF HistoryInv, SafeInv
  <2>2. todo["console"] = << >> /\ \A w \in Writers : todo'[w] \notin Bare \cup Late
    BY <1>1, <1>3, <2>1, Begins DEF ApartInv, Writers
  <2>3. leaked' = {} /\ session' \cap forgot' = {}
    BY <1>1, <1>4, <1>5, <1>6, <2>1, Begins DEF ForgetInv
  <2> QED
    BY <1>1, <1>2, <2>1, <2>2, <2>3 DEF ForgetInv
<1> QED
  BY <1>7, <1>8, <1>9, <1>10 DEF HistoryInv

\* What comes after a turn: nothing, or the turn that a compaction was for.
LEMMA OverFact ==
    ASSUME HistoryInv, turn.phase # "idle"
    PROVE  /\ Over \in TurnRecords /\ Over.phase \in {"idle", "checked"}
           /\ Over.number <= started
           /\ Over.phase # "idle" => Over.number = turn.number + 1 /\ Over.number \in Turns
           /\ Over.kind = "work"
<1>1. /\ turn.number \in Nat /\ turn.number <= started /\ started \in Nat
      /\ turn.kind = "compact" => turn.number + 1 <= started /\ turn.number + 1 \in Turns
  BY DEF HistoryInv, TypeInv, NumberInv, TurnRecords
<1>2. CASE turn.kind = "compact"
  <2>1. Over = [phase |-> "checked", kind |-> "work", number |-> turn.number + 1, base |-> {},
                retried |-> FALSE]
    BY <1>2 DEF Over, Rest
  <2> QED
    BY <1>1, <1>2, <2>1 DEF TurnRecords
<1>3. CASE turn.kind # "compact"
  <2>1. Over = [phase |-> "idle", kind |-> "work", number |-> 0, base |-> {}, retried |-> FALSE]
    BY <1>3 DEF Over, Rest
  <2> QED
    BY <1>1, <2>1 DEF TurnRecords
<1> QED
  BY <1>2, <1>3

\* A turn ends with its words in the file, or without.
LEMMA EndNext ==
    ASSUME HistoryInv, TurnFails \/ TurnIsCancelled \/ SavesHistory
    PROVE  HistoryInv'
<1>1. /\ turn.phase \in {"calling", "replied"} /\ todo["kernel"] = << >>
      /\ UNCHANGED <<claude, archives, session, todo, started, forgot, leaked, torn, overlap>>
  BY DEF TurnFails, TurnIsCancelled, SavesHistory, Phase, Free, Files, History
<1>2. \/ live' = live /\ saved' = saved
      \/ /\ live' = turn.base \cup {turn.number}
         /\ saved' = saved \cup (live' \cap Turns)
  BY DEF TurnFails, TurnIsCancelled, SavesHistory, Writes, Files, History
<1>3. turn.number \in Turns /\ turn.number \notin forgot /\ turn.base \subseteq Turns \cup {Summary}
  BY <1>1 DEF HistoryInv, NumberInv, KnownInv, TypeInv, TurnRecords, Turns
<1>4. /\ turn' \in TurnRecords /\ turn'.phase \in {"idle", "checked", "saved"}
      /\ turn'.number <= started
      /\ turn'.phase = "checked" => turn'.number = turn.number + 1 /\ turn'.number \in Turns
                                    /\ turn'.kind = "work"
      /\ turn'.phase = "saved" => turn'.number = turn.number /\ turn'.kind = turn.kind
  <2>1. turn' = Over \/ turn' = [turn EXCEPT !.phase = "saved"]
    BY DEF TurnFails, TurnIsCancelled, SavesHistory
  <2>2. CASE turn' = Over
    BY <1>1, <2>2, OverFact
  <2>3. CASE turn' = [turn EXCEPT !.phase = "saved"]
    BY <2>3 DEF HistoryInv, TypeInv, NumberInv, TurnRecords
  <2> QED
    BY <2>1, <2>2, <2>3
<1>5. TypeInv' /\ NumberInv'
  BY <1>1, <1>2, <1>3, <1>4 DEF HistoryInv, TypeInv, NumberInv
<1>6. KnownInv'
  <2>1. /\ \A x \in forgot \cup session \cup (live' \cap Turns) : x \in Turns /\ x <= turn.number
        /\ turn.number \in Nat /\ started \in Nat /\ turn.number <= started
    BY <1>1, <1>2, <1>3 DEF HistoryInv, KnownInv, NumberInv, TypeInv, Turns
  <2> QED
    BY <1>1, <1>4, <2>1 DEF KnownInv, Turns
<1>7. ResetInv'
  BY <1>1, <1>4 DEF HistoryInv, ResetInv
<1>8. SafeInv'
  <2> SUFFICES ASSUME ~overlap PROVE ApartInv' /\ ArchivedInv' /\ LoadedInv' /\ SavedInv'
    BY <1>1 DEF SafeInv
  <2>1. /\ todo["console"] = << >> /\ SavedInv
        /\ live \cap Turns \subseteq turn.base \cup archives
    BY <1>1, Begins DEF HistoryInv, SafeInv, ApartInv, LoadedInv
  <2>2. SavedInv'
    BY <1>1, <1>2, <2>1 DEF SavedInv, HistoryInv, TypeInv
  <2> QED
    BY <1>1, <1>4, <2>1, <2>2, Begins DEF ApartInv, ArchivedInv, LoadedInv, Writers
<1>9. ASSUME ~torn', ~overlap' PROVE ForgetInv'
  <2>1. ForgetInv
    BY <1>1, <1>9 DEF HistoryInv
  <2>2. live' \cap forgot' = {}
    BY <1>1, <1>2, <1>3, <2>1 DEF ForgetInv
  <2> QED
    BY <1>1, <1>4, <2>1, <2>2 DEF ForgetInv
<1> QED
  BY <1>5, <1>6, <1>7, <1>8, <1>9 DEF HistoryInv

\* A gauge, a queue or a cooling changes nothing of it; a session that is
\* gone knows nothing.
LEMMA OtherNext ==
    ASSUME HistoryInv,
           \/ SessionMissing \/ Cools
           \/ \E asked \in {"clear", "compact"} : Queues(asked)
    PROVE  HistoryInv'
<1>1. /\ UNCHANGED <<claude, live, archives, turn, todo, started, saved, forgot, leaked, torn, overlap>>
      /\ session' = session \/ session' = {}
  BY DEF SessionMissing, Cools, Queues, Files, History
<1>2. TypeInv' /\ NumberInv' /\ KnownInv' /\ ResetInv'
  BY <1>1 DEF HistoryInv, TypeInv, NumberInv, KnownInv, ResetInv
<1>3. SafeInv' /\ (~torn' /\ ~overlap' => ForgetInv')
  BY <1>1 DEF HistoryInv, SafeInv, ApartInv, ArchivedInv, LoadedInv, SavedInv, ForgetInv
<1> QED
  BY <1>2, <1>3 DEF HistoryInv

-----------------------------------------------------------------------------
(* What begins a reset, and what cuts one. *)

\* The kernel begins a reset after its turn has saved.
LEMMA SavedNext ==
    ASSUME HistoryInv, Onboarded \/ KernelApplies \/ KernelCompacts
    PROVE  HistoryInv'
<1>1. /\ turn.phase = "saved" /\ todo["kernel"] = << >>
      /\ UNCHANGED <<claude, live, archives, session, started, saved, forgot, leaked, overlap>>
  BY DEF Onboarded, KernelApplies, KernelCompacts, Applies, Phase, Free, Files, History
<1>2. \/ todo' = [todo EXCEPT !["kernel"] = OfOnboarding] /\ torn' = (torn \/ claude)
      \/ /\ torn' = torn
         /\ \/ todo' = todo
            \/ todo' = [todo EXCEPT !["kernel"] = OfAction]
            \/ todo' = [todo EXCEPT !["kernel"] = OfKernel]
  BY DEF Onboarded, KernelApplies, KernelCompacts, Applies, Resets, History
<1>3. turn' = turn \/ turn' = Over
  BY DEF Onboarded, KernelApplies, KernelCompacts
<1>4. /\ turn' \in TurnRecords /\ turn'.phase \in {"idle", "checked", "saved"}
      /\ turn'.number <= started
      /\ turn'.phase = "checked" => turn'.number = turn.number + 1 /\ turn'.number \in Turns
                                    /\ turn'.kind = "work"
      /\ turn'.phase = "saved" => turn' = turn
  BY <1>1, <1>3, OverFact DEF HistoryInv, TypeInv, NumberInv
<1>5. /\ todo' \in [Writers -> Unarchived \cup Archived \cup {<< >>}]
      /\ todo'["console"] = todo["console"]
      /\ todo'["kernel"] \in Unarchived \cup {<< >>} /\ todo'["kernel"] \notin Late
      /\ todo'["kernel"] \in Bare => torn' = (torn \/ claude)
  <2>1. CASE todo' = [todo EXCEPT !["kernel"] = OfOnboarding] /\ torn' = (torn \/ claude)
    <3>1. OfOnboarding \notin Late
      BY DEF OfOnboarding, Late
    <3> QED
      BY <2>1, <3>1, Begins DEF HistoryInv, TypeInv, Writers
  <2>2. CASE todo' = [todo EXCEPT !["kernel"] = OfAction]
    BY <2>2, Begins DEF HistoryInv, TypeInv, Writers
  <2>3. CASE todo' = [todo EXCEPT !["kernel"] = OfKernel]
    BY <2>3, Begins DEF HistoryInv, TypeInv, Writers
  <2>4. CASE todo' = todo
    BY <1>1, <2>4, Begins DEF HistoryInv, TypeInv, Writers
  <2> QED
    BY <1>2, <2>1, <2>2, <2>3, <2>4
<1>6. TypeInv' /\ NumberInv'
  BY <1>1, <1>4, <1>5 DEF HistoryInv, TypeInv, NumberInv
<1>7. KnownInv'
  <2>1. /\ \A x \in forgot \cup session \cup (live \cap Turns) :
              x \in Nat /\ x <= turn.number /\ x <= started
        /\ turn.number \in Nat
    BY <1>1 DEF HistoryInv, KnownInv, NumberInv, TypeInv, Turns
  <2> QED
    BY <1>1, <1>4, <2>1 DEF KnownInv
<1>8. ResetInv'
  BY <1>1, <1>4, <1>5 DEF HistoryInv, ResetInv
<1>9. SafeInv'
  BY <1>1, <1>4, <1>5, Begins
     DEF HistoryInv, SafeInv, ApartInv, ArchivedInv, LoadedInv, SavedInv, Writers
<1>10. ASSUME ~torn', ~overlap' PROVE ForgetInv'
  <2>1. ForgetInv /\ ApartInv
    BY <1>1, <1>2, <1>10 DEF HistoryInv, SafeInv
  <2>2. session \cap forgot = {}
    BY <1>1, <2>1, Begins DEF ForgetInv
  <2>3. \A w \in Writers : todo'[w] \in Bare => session' = {}
    BY <1>1, <1>5, <1>10, <2>1, Begins DEF ApartInv, Writers, HistoryInv, ResetInv
  <2> QED
    BY <1>1, <1>4, <2>1, <2>2, <2>3 DEF ForgetInv
<1> QED
  BY <1>6, <1>7, <1>8, <1>9, <1>10 DEF HistoryInv

\* The console begins one too, and the history knows when a turn is under way.
LEMMA ConsoleNext ==
    ASSUME HistoryInv, ConsoleApplies
    PROVE  HistoryInv'
<1>1. /\ todo' = [todo EXCEPT !["console"] = OfAction]
      /\ overlap' = (overlap \/ turn.phase # "idle" \/ todo["kernel"] # << >>)
      /\ UNCHANGED <<claude, live, archives, session, turn, started, saved, forgot, leaked, torn>>
  BY DEF ConsoleApplies, Applies, Resets, Free
<1>2. /\ todo' \in [Writers -> Unarchived \cup Archived \cup {<< >>}]
      /\ todo'["console"] = OfAction /\ todo'["kernel"] = todo["kernel"]
  BY <1>1, Begins DEF HistoryInv, TypeInv, Writers
<1>3. TypeInv' /\ NumberInv' /\ KnownInv' /\ ResetInv'
  BY <1>1, <1>2, Begins DEF HistoryInv, TypeInv, NumberInv, KnownInv, ResetInv
<1>4. SafeInv'
  BY <1>1, <1>2, Begins DEF HistoryInv, SafeInv, ApartInv, ArchivedInv, LoadedInv, SavedInv, Writers
<1>5. ~torn' /\ ~overlap' => ForgetInv'
  <2>1. \A w \in Writers : todo'[w] \in Bare => todo[w] \in Bare
    BY <1>2, Begins DEF Writers
  <2> QED
    BY <1>1, <1>2, <2>1 DEF HistoryInv, ForgetInv
<1> QED
  BY <1>3, <1>4, <1>5 DEF HistoryInv

\* A crash cuts the kernel's reset between any two writes.
LEMMA DiesNext ==
    ASSUME HistoryInv, KernelDies
    PROVE  HistoryInv'
<1>1. /\ todo' = [todo EXCEPT !["kernel"] = << >>] /\ torn' = (torn \/ todo["kernel"] # << >>)
      /\ turn' = Rest
      /\ UNCHANGED <<claude, live, archives, session, started, saved, forgot, leaked, overlap>>
  BY DEF KernelDies, Free, Files
<1>2. turn' \in TurnRecords /\ turn'.phase = "idle" /\ turn'.number = 0
  BY <1>1 DEF Rest, TurnRecords
<1>3. /\ todo' \in [Writers -> Unarchived \cup Archived \cup {<< >>}]
      /\ todo'["console"] = todo["console"] /\ todo'["kernel"] = << >>
  BY <1>1 DEF HistoryInv, TypeInv, Writers
<1>4. TypeInv' /\ NumberInv' /\ KnownInv' /\ ResetInv'
  BY <1>1, <1>2, <1>3 DEF HistoryInv, TypeInv, NumberInv, KnownInv, ResetInv
<1>5. SafeInv'
  BY <1>1, <1>2, <1>3, Begins
     DEF HistoryInv, SafeInv, ApartInv, ArchivedInv, LoadedInv, SavedInv, Writers
<1>6. ~torn' /\ ~overlap' => ForgetInv'
  BY <1>1, <1>2, <1>3, Begins DEF HistoryInv, ForgetInv, Writers
<1> QED
  BY <1>4, <1>5, <1>6 DEF HistoryInv

-----------------------------------------------------------------------------
(* The theorems. *)

LEMMA HistoryInvInit ==
    ASSUME HistoryInit
    PROVE  HistoryInv
<1> USE DEF HistoryInit
<1>1. todo \in [Writers -> {<< >>}] /\ \A w \in Writers : todo[w] = << >>
  OBVIOUS
<1>2. turn \in TurnRecords /\ turn.phase = "idle" /\ turn.number = 0
  BY DEF Rest, TurnRecords
<1>3. TypeInv /\ NumberInv /\ KnownInv /\ ResetInv
  BY <1>1, <1>2, Begins DEF TypeInv, NumberInv, KnownInv, ResetInv, Writers
<1>4. SafeInv /\ ForgetInv
  BY <1>1, <1>2, Begins DEF SafeInv, ApartInv, ArchivedInv, LoadedInv, SavedInv, ForgetInv, Writers
<1> QED
  BY <1>3, <1>4 DEF HistoryInv

LEMMA HistoryInvNext ==
    ASSUME HistoryInv, [HistoryNext]_historyVars
    PROVE  HistoryInv'
<1>1. CASE \E w \in Writers : Archives(w) \/ Replaces(w) \/ ClearsSession(w) \/ ZeroesGauge(w)
  BY <1>1, WriteNext
<1>2. CASE StaysSmall \/ HardCompacts \/ AsksForSummary
  BY <1>2, StartNext
<1>3. CASE LoadsHistory
  BY <1>3, LoadNext
<1>4. CASE \/ \E grown \in Windows, asked \in {"none", "clear", "compact"} : CallsModel(grown, asked)
           \/ Replies \/ Hiccups \/ Overflows
  BY <1>4, CallNext
<1>5. CASE TurnFails \/ TurnIsCancelled \/ SavesHistory
  BY <1>5, EndNext
<1>6. CASE SessionMissing \/ Cools \/ \E asked \in {"clear", "compact"} : Queues(asked)
  BY <1>6, OtherNext
<1>7. CASE Onboarded \/ KernelApplies \/ KernelCompacts
  BY <1>7, SavedNext
<1>8. CASE ConsoleApplies
  BY <1>8, ConsoleNext
<1>9. CASE KernelDies
  BY <1>9, DiesNext
<1>10. CASE UNCHANGED historyVars
  BY <1>10 DEF historyVars, HistoryInv, TypeInv, NumberInv, KnownInv, ResetInv, SafeInv, ApartInv,
     ArchivedInv, LoadedInv, SavedInv, ForgetInv
<1> QED
  BY <1>1, <1>2, <1>3, <1>4, <1>5, <1>6, <1>7, <1>8, <1>9, <1>10 DEF HistoryNext

\* What the transcript, the archives, the session and the resets under way
\* have to do with each other holds in every reachable state.
THEOREM HistoryInvCorrect == HistorySpec => []HistoryInv
<1>1. HistoryInit => HistoryInv
  BY HistoryInvInit
<1>2. HistoryInv /\ [HistoryNext]_historyVars => HistoryInv'
  BY HistoryInvNext
<1> QED
  BY <1>1, <1>2, PTL DEF HistorySpec

\* A turn that the transcript has held is in it or in an archive, through
\* every reset and every crash (clear.py:4-6, nudge.py:388,504), unless the
\* console resets it while a turn is under way.
THEOREM NothingLostCorrect == HistorySpec => []NothingLost
<1>1. HistoryInv => NothingLost
  BY DEF HistoryInv, SafeInv, SavedInv, NothingLost
<1> QED
  BY <1>1, HistoryInvCorrect, PTL

\* A turn that a reset took out of the transcript is in no later prompt
\* (claude_backend.py:158), but for a reset that was cut, the end of
\* onboarding under claudecode, and the console in the middle of a turn.
THEOREM ForgottenCorrect == HistorySpec => []Forgotten
<1>1. HistoryInv => Forgotten
  BY DEF HistoryInv, ForgetInv, Forgotten
<1> QED
  BY <1>1, HistoryInvCorrect, PTL

\* The variables that no other invariant needs the type of.
FlagTypes == claude \in BOOLEAN /\ cooled \in BOOLEAN /\ torn \in BOOLEAN /\ overlap \in BOOLEAN

PlainTypes ==
    /\ archives \subseteq Turns /\ leaked \subseteq Turns
    /\ action \in {"none", "clear", "compact"} /\ gauge \in Windows
    /\ lead \in [Writers -> BOOLEAN]
    /\ started \in 0..HistoryTurns /\ mishaps \in 0..HistoryMishaps

LEMMA FlagNext ==
    ASSUME FlagTypes, [HistoryNext]_historyVars
    PROVE  FlagTypes'
<1> USE DEF FlagTypes
<1>1. CASE \E w \in Writers : Archives(w) \/ Replaces(w) \/ ClearsSession(w) \/ ZeroesGauge(w)
  BY <1>1 DEF Archives, Replaces, ClearsSession, ZeroesGauge, History
<1>2. CASE StaysSmall \/ AsksForSummary \/ HardCompacts
  BY <1>2, Zenon DEF StaysSmall, AsksForSummary, HardCompacts, Files
<1>3. CASE Cools \/ LoadsHistory \/ SessionMissing \/ Hiccups \/ TurnFails
  BY <1>3, Zenon DEF Cools, LoadsHistory, SessionMissing, Hiccups, TurnFails, Files, History
<1>4. CASE \E grown \in Windows, asked \in {"none", "clear", "compact"} : CallsModel(grown, asked)
  BY <1>4 DEF CallsModel
<1>5. CASE Replies \/ TurnIsCancelled \/ SavesHistory
  BY <1>5 DEF Replies, TurnIsCancelled, SavesHistory
<1>6. CASE Overflows \/ Onboarded
  BY <1>6, Zenon DEF Overflows, Onboarded, Files, History
<1>7. CASE KernelApplies \/ KernelCompacts
  BY <1>7, Zenon DEF KernelApplies, KernelCompacts, Applies, Files, History
<1>8. CASE ConsoleApplies
  BY <1>8, Zenon DEF ConsoleApplies, Applies
<1>9. CASE \E asked \in {"clear", "compact"} : Queues(asked)
  BY <1>9 DEF Queues, History
<1>10. CASE KernelDies
  BY <1>10, Zenon DEF KernelDies, Files
<1>11. CASE UNCHANGED historyVars
  BY <1>11 DEF historyVars
<1> QED
  BY <1>1, <1>2, <1>3, <1>4, <1>5, <1>6, <1>7, <1>8, <1>9, <1>10, <1>11 DEF HistoryNext

LEMMA PlainNext ==
    ASSUME HistoryInv, PlainTypes, [HistoryNext]_historyVars
    PROVE  PlainTypes'
<1> USE DEF PlainTypes
<1>1. \A w \in Writers, summary \in BOOLEAN, steps \in {OfAction, OfKernel, OfOnboarding} :
        Resets(w, steps, summary) => lead' \in [Writers -> BOOLEAN]
  BY DEF Resets
<1>2. forgot \subseteq Turns /\ live \subseteq Turns \cup {Summary}
  BY DEF HistoryInv, TypeInv
<1>3. "kernel" \in Writers /\ "console" \in Writers /\ TRUE \in BOOLEAN /\ FALSE \in BOOLEAN
  BY DEF Writers
<1>4. CASE \E w \in Writers : Archives(w) \/ Replaces(w) \/ ClearsSession(w) \/ ZeroesGauge(w)
  BY <1>2, <1>4 DEF Archives, Replaces, ClearsSession, ZeroesGauge, Done, History, Windows
<1>5. CASE StaysSmall \/ AsksForSummary
  BY <1>5, HistoryAssumption DEF StaysSmall, AsksForSummary, Files
<1>6. CASE HardCompacts
  <2>1. lead' \in [Writers -> BOOLEAN]
    BY <1>1, <1>3, <1>6, Zenon DEF HardCompacts
  <2> QED
    BY <2>1, <1>6, HistoryAssumption DEF HardCompacts, Files
<1>7. CASE Cools \/ LoadsHistory \/ SessionMissing \/ Hiccups \/ TurnFails
  BY <1>7 DEF Cools, LoadsHistory, SessionMissing, Hiccups, TurnFails, Files, History
<1>8. CASE \E grown \in Windows, asked \in {"none", "clear", "compact"} : CallsModel(grown, asked)
  BY <1>2, <1>8 DEF CallsModel
<1>9. CASE Replies
  BY <1>2, <1>9 DEF Replies
<1>10. CASE TurnIsCancelled \/ SavesHistory
  BY <1>10 DEF TurnIsCancelled, SavesHistory
<1>11. CASE Overflows \/ Onboarded
  <2>1. lead' \in [Writers -> BOOLEAN]
    BY <1>1, <1>3, <1>11, Zenon DEF Overflows, Onboarded
  <2> QED
    BY <2>1, <1>11 DEF Overflows, Onboarded, Files, History
<1>12. CASE KernelApplies \/ KernelCompacts
  BY <1>1, <1>3, <1>12 DEF KernelApplies, KernelCompacts, Applies, Files, History
<1>13. CASE ConsoleApplies
  <2>1. (action = "compact") \in BOOLEAN
    OBVIOUS
  <2>2. lead' \in [Writers -> BOOLEAN]
    BY <1>1, <1>3, <1>13, <2>1, Zenon DEF ConsoleApplies, Applies
  <2> QED
    BY <2>2, <1>13, HistoryAssumption DEF ConsoleApplies, Applies
<1>14. CASE \E asked \in {"clear", "compact"} : Queues(asked)
  BY <1>14, HistoryAssumption DEF Queues, History
<1>15. CASE KernelDies
  BY <1>15, HistoryAssumption DEF KernelDies, Files
<1>16. CASE UNCHANGED historyVars
  BY <1>16 DEF historyVars
<1> QED
  BY <1>4, <1>5, <1>6, <1>7, <1>8, <1>9, <1>10, <1>11, <1>12, <1>13, <1>14, <1>15, <1>16
     DEF HistoryNext

LEMMA HistoryTypesInit == HistoryInit => PlainTypes /\ FlagTypes
<1>1. HistoryInit => PlainTypes
  BY HistoryAssumption DEF HistoryInit, PlainTypes, Windows
<1>2. HistoryInit => FlagTypes
  BY DEF HistoryInit, FlagTypes
<1> QED
  BY <1>1, <1>2

\* What is left of a reset is what TypeInv lists; the console's own order is
\* that of a queued action.
LEMMA LeftFacts ==
    /\ LeftOf(OfAction) = {<<"session", "archive", "replace", "gauge">>, <<"archive", "replace", "gauge">>,
                           <<"replace", "gauge">>, <<"gauge">>, << >>}
    /\ LeftOf(OfKernel) = {<<"archive", "replace", "session", "gauge">>, <<"replace", "session", "gauge">>,
                           <<"session", "gauge">>, <<"gauge">>, << >>}
    /\ LeftOf(OfOnboarding) = {<<"archive", "replace", "gauge">>, <<"replace", "gauge">>, <<"gauge">>, << >>}
<1>1. /\ Len(OfAction) = 4
      /\ <<"session", "archive", "replace", "gauge">> = SubSeq(OfAction, 1, 4)
      /\ <<"archive", "replace", "gauge">> = SubSeq(OfAction, 2, 4)
      /\ <<"replace", "gauge">> = SubSeq(OfAction, 3, 4)
      /\ <<"gauge">> = SubSeq(OfAction, 4, 4)
      /\ SubSeq(OfAction, 5, 4) = << >>
  <2>1. Len(OfAction) = 4
    BY DEF OfAction
  <2>2. <<"session", "archive", "replace", "gauge">> = SubSeq(OfAction, 1, 4)
    BY DEF OfAction
  <2>3. <<"archive", "replace", "gauge">> = SubSeq(OfAction, 2, 4)
    BY DEF OfAction
  <2>4. <<"replace", "gauge">> = SubSeq(OfAction, 3, 4)
    BY DEF OfAction
  <2>5. <<"gauge">> = SubSeq(OfAction, 4, 4)
    BY DEF OfAction
  <2>6. SubSeq(OfAction, 5, 4) = << >>
    BY DEF OfAction
  <2> QED
    BY <2>1, <2>2, <2>3, <2>4, <2>5, <2>6
<1>2. /\ Len(OfKernel) = 4
      /\ <<"archive", "replace", "session", "gauge">> = SubSeq(OfKernel, 1, 4)
      /\ <<"replace", "session", "gauge">> = SubSeq(OfKernel, 2, 4)
      /\ <<"session", "gauge">> = SubSeq(OfKernel, 3, 4)
      /\ <<"gauge">> = SubSeq(OfKernel, 4, 4)
      /\ SubSeq(OfKernel, 5, 4) = << >>
  <2>1. Len(OfKernel) = 4
    BY DEF OfKernel
  <2>2. <<"archive", "replace", "session", "gauge">> = SubSeq(OfKernel, 1, 4)
    BY DEF OfKernel
  <2>3. <<"replace", "session", "gauge">> = SubSeq(OfKernel, 2, 4)
    BY DEF OfKernel
  <2>4. <<"session", "gauge">> = SubSeq(OfKernel, 3, 4)
    BY DEF OfKernel
  <2>5. <<"gauge">> = SubSeq(OfKernel, 4, 4)
    BY DEF OfKernel
  <2>6. SubSeq(OfKernel, 5, 4) = << >>
    BY DEF OfKernel
  <2> QED
    BY <2>1, <2>2, <2>3, <2>4, <2>5, <2>6
<1>3. /\ Len(OfOnboarding) = 3
      /\ <<"archive", "replace", "gauge">> = SubSeq(OfOnboarding, 1, 3)
      /\ <<"replace", "gauge">> = SubSeq(OfOnboarding, 2, 3)
      /\ <<"gauge">> = SubSeq(OfOnboarding, 3, 3)
      /\ SubSeq(OfOnboarding, 4, 3) = << >>
  <2>1. Len(OfOnboarding) = 3
    BY DEF OfOnboarding
  <2>2. <<"archive", "replace", "gauge">> = SubSeq(OfOnboarding, 1, 3)
    BY DEF OfOnboarding
  <2>3. <<"replace", "gauge">> = SubSeq(OfOnboarding, 2, 3)
    BY DEF OfOnboarding
  <2>4. <<"gauge">> = SubSeq(OfOnboarding, 3, 3)
    BY DEF OfOnboarding
  <2>5. SubSeq(OfOnboarding, 4, 3) = << >>
    BY DEF OfOnboarding
  <2> QED
    BY <2>1, <2>2, <2>3, <2>4, <2>5
<1>4. ASSUME NEW s, Len(s) = 4
      PROVE  LeftOf(s) = {SubSeq(s, 1, 4), SubSeq(s, 2, 4), SubSeq(s, 3, 4), SubSeq(s, 4, 4), SubSeq(s, 5, 4)}
  <2>1. 1..(4 + 1) = {1, 2, 3, 4, 5}
    OBVIOUS
  <2> QED
    BY <1>4, <2>1, Zenon DEF LeftOf
<1>5. ASSUME NEW s, Len(s) = 3
      PROVE  LeftOf(s) = {SubSeq(s, 1, 3), SubSeq(s, 2, 3), SubSeq(s, 3, 3), SubSeq(s, 4, 3)}
  <2>1. 1..(3 + 1) = {1, 2, 3, 4}
    OBVIOUS
  <2> QED
    BY <1>5, <2>1, Zenon DEF LeftOf
<1> QED
  BY <1>1, <1>2, <1>3, <1>4, <1>5

LEMMA HistoryTyped ==
    ASSUME HistoryInv, PlainTypes, FlagTypes
    PROVE  HistoryTypeOK
<1>1. todo["kernel"] \in LeftOf(OfAction) \cup LeftOf(OfKernel) \cup LeftOf(OfOnboarding)
  BY LeftFacts DEF HistoryInv, TypeInv, Writers, Unarchived, Archived
<1>2. todo["console"] \in LeftOf(OfAction)
  BY LeftFacts DEF HistoryInv, TypeInv, ResetInv, KernelOnly, Writers, Unarchived, Archived
<1>3. turn \in TurnRecords /\ turn.number <= started
  BY DEF HistoryInv, TypeInv, NumberInv
<1>4. turn.number \in 0..HistoryTurns
  BY <1>3, HistoryAssumption DEF TurnRecords, PlainTypes
<1> QED
  BY <1>1, <1>2, <1>3, <1>4 DEF HistoryTypeOK, HistoryInv, TypeInv, TurnRecords, PlainTypes, FlagTypes

\* What any reset has left to do is the rest of the order of the code that made
\* it -- the console's that of a queued action --, whatever is cut and repeated in
\* between, and the turns are numbered within the bound.
THEOREM HistoryTypeCorrect == HistorySpec => []HistoryTypeOK
BY HistoryTypesInit, HistoryTyped, HistoryInvCorrect, PlainNext, FlagNext, PTL DEF HistorySpec
=============================================================================
