--------------------------- MODULE FileToolsProofs ---------------------------
(***************************************************************************)
(* Proofs about FileTools, for any characters, files, edits and limits.    *)
(***************************************************************************)
EXTENDS FileTools, FiniteSetTheorems, SequenceTheorems, TLAPS

-----------------------------------------------------------------------------
(* Induction and loops.  The library's induction theorems take the formula *)
(* as a parameter; here it is a set.                                       *)

\* A sum is a number, and no less than its parts.
LEMMA NatSum == \A x, y \in Nat : x + y \in Nat /\ x <= x + y
OBVIOUS

LEMMA NatChain == \A x, y, z \in Nat : x <= y /\ y <= z => x <= z
OBVIOUS

\* Numbers have a least one.
LEMMA LeastNat ==
    ASSUME NEW T \in SUBSET Nat, T # {}
    PROVE  \E x \in T : \A y \in T : x <= y
<1> DEFINE Less == {x \in Nat \X Nat : x[1] < x[2]}
<1>1. IsWellFoundedOn(Less, Nat)
  BY NatLessThanWellFounded DEF OpToRel
<1>2. PICK x \in T : \A y \in T : <<y, x>> \notin Less
  <2> HIDE DEF Less
  <2> QED
    BY <1>1, WFMin
<1>3. ASSUME NEW y \in T PROVE x <= y
  <2>1. x \in Nat /\ y \in Nat /\ <<y, x>> \in Nat \X Nat /\ <<y, x>>[1] = y /\ <<y, x>>[2] = x
    OBVIOUS
  <2>2. ~(y < x)
    BY <1>2, <2>1
  <2> QED
    BY <2>1, <2>2
<1> QED
  BY <1>3

LEMMA Induction ==
    ASSUME NEW T, 0 \in T, \A n \in Nat : n \in T => n + 1 \in T
    PROVE  Nat \subseteq T
<1> DEFINE rest == {n \in Nat : n \notin T}
<1> SUFFICES ASSUME rest # {} PROVE FALSE
  OBVIOUS
<1>1. rest \in SUBSET Nat
  OBVIOUS
<1>2. PICK m \in rest : \A n \in rest : m <= n
  <2> HIDE DEF rest
  <2> QED
    BY <1>1, LeastNat
<1>3. m # 0 /\ m \in Nat
  OBVIOUS
<1>4. m - 1 \in Nat /\ m - 1 \notin rest /\ (m - 1) + 1 = m
  BY <1>2, <1>3
<1> QED
  BY <1>2, <1>4

LEMMA SeqInduction ==
    ASSUME NEW S, NEW T, << >> \in T,
           \A s \in Seq(S), e \in S : s \in T => Append(s, e) \in T
    PROVE  Seq(S) \subseteq T
<1> DEFINE good == {n \in Nat : \A s \in Seq(S) : Len(s) = n => s \in T}
<1>1. 0 \in good
  BY EmptySeq
<1>2. ASSUME NEW n \in Nat, n \in good PROVE n + 1 \in good
  <2> SUFFICES ASSUME NEW s \in Seq(S), Len(s) = n + 1 PROVE s \in T
    OBVIOUS
  <2>1. s # << >>
    BY EmptySeq
  <2>2. PICK r \in Seq(S), e \in S : s = Append(r, e)
    BY <2>1, SequenceEmptyOrAppend
  <2>3. Len(r) = n
    BY <2>2, AppendProperties, LenProperties
  <2> QED
    BY <1>2, <2>2, <2>3
<1>3. Nat \subseteq good
  <2> HIDE DEF good
  <2> QED
    BY <1>1, <1>2, Induction
<1> QED
  BY <1>3, LenProperties

\* A loop of n rounds that keeps a value of V, b at first.
Iterates(f, n, V, b, Step) ==
    f \in [0..n -> V] /\ f[0] = b /\ \A i \in 1..n : f[i] = Step[<<i, f[i - 1]>>]

LEMMA Loop ==
    ASSUME NEW n \in Nat, NEW V, NEW b \in V, NEW Step \in [(1..n) \X V -> V]
    PROVE  \E f : Iterates(f, n, V, b, Step)
<1> DEFINE good == {m \in Nat : m <= n => \E f : Iterates(f, m, V, b, Step)}
<1>1. 0 \in good
  <2>1. Iterates([i \in 0..0 |-> b], 0, V, b, Step)
    BY DEF Iterates
  <2> QED
    BY <2>1
<1>2. ASSUME NEW m \in Nat, m \in good PROVE m + 1 \in good
  <2> SUFFICES ASSUME m + 1 <= n PROVE \E g : Iterates(g, m + 1, V, b, Step)
    OBVIOUS
  <2>1. PICK f : Iterates(f, m, V, b, Step)
    BY <1>2
  <2> DEFINE g == [i \in 0..(m + 1) |-> IF i = m + 1 THEN Step[<<m + 1, f[m]>>] ELSE f[i]]
  <2>2. <<m + 1, f[m]>> \in (1..n) \X V
    BY <2>1 DEF Iterates
  <2>3. Step[<<m + 1, f[m]>>] \in V
    BY <2>2
  <2>4. g \in [0..(m + 1) -> V]
    BY <2>1, <2>3 DEF Iterates
  <2>5. \A i \in 0..m : g[i] = f[i]
    OBVIOUS
  <2>6. g[m + 1] = Step[<<m + 1, f[m]>>]
    OBVIOUS
  <2> HIDE DEF g
  <2>7. ASSUME NEW i \in 1..(m + 1) PROVE g[i] = Step[<<i, g[i - 1]>>]
    <3>1. CASE i = m + 1
      BY <2>5, <2>6, <3>1
    <3>2. CASE i \in 1..m
      <4>1. i - 1 \in 0..m /\ i \in 0..m
        BY <3>2
      <4> QED
        BY <2>1, <2>5, <3>2, <4>1 DEF Iterates
    <3> QED
      BY <3>1, <3>2
  <2> QED
    BY <2>1, <2>4, <2>5, <2>7 DEF Iterates
<1>3. Nat \subseteq good
  <2> HIDE DEF good
  <2> QED
    BY <1>1, <1>2, Induction
<1> QED
  BY <1>3

-----------------------------------------------------------------------------
(* Concatenation of sequences. *)

\* The loop that FlattenSeq is.
LEMMA FlatLoop ==
    ASSUME NEW S, NEW ss \in Seq(Seq(S))
    PROVE  \E f \in [0..Len(ss) -> Seq(S)] :
             /\ f[0] = << >> /\ \A i \in 1..Len(ss) : f[i] = f[i - 1] \o ss[i]
             /\ FlattenSeq(ss) = f[Len(ss)]
<1> DEFINE n == Len(ss)
           Flattens(f) == f = [i \in 1..n |-> IF i = 1 THEN ss[i] ELSE f[i - 1] \o ss[i]]
           Step == [p \in (1..n) \X Seq(S) |-> p[2] \o ss[p[1]]]
<1>1. n \in Nat /\ (\A i \in 1..n : ss[i] \in Seq(S)) /\ n = Len(ss)
  BY LenProperties, ElementOfSeq
<1> HIDE DEF n
<1>2. CASE n = 0
  <2>1. ss = << >> /\ FlattenSeq(ss) = ss
    BY <1>1, <1>2, EmptySeq DEF FlattenSeq
  <2> DEFINE f == [i \in 0..n |-> << >>]
  <2>2. f \in [0..n -> Seq(S)] /\ f[0] = << >> /\ f[n] = << >> /\ 1..n = {}
    BY <1>2
  <2> HIDE DEF f
  <2> QED
    BY <1>1, <2>1, <2>2
<1>3. CASE n # 0
  <2>1. Step \in [(1..n) \X Seq(S) -> Seq(S)]
    <3>1. ASSUME NEW p \in (1..n) \X Seq(S) PROVE p[2] \o ss[p[1]] \in Seq(S)
      BY <1>1, ConcatProperties
    <3> QED
      BY <3>1
  <2>2. << >> \in Seq(S)
    OBVIOUS
  <2>3. PICK f : Iterates(f, n, Seq(S), << >>, Step)
    <3>1. n \in Nat
      BY <1>1
    <3> HIDE DEF Step
    <3> QED
      BY <2>1, <2>2, <3>1, Loop, Zenon
  <2> HIDE DEF Step
  <2>4. ASSUME NEW i \in 1..n PROVE f[i] = f[i - 1] \o ss[i]
    <3>1. <<i, f[i - 1]>> \in (1..n) \X Seq(S)
      <4>1. f \in [0..n -> Seq(S)] /\ i - 1 \in 0..n
        BY <1>1, <2>3 DEF Iterates
      <4> QED
        BY <4>1
    <3>2. Step[<<i, f[i - 1]>>] = f[i - 1] \o ss[i]
      BY <3>1 DEF Step
    <3> QED
      BY <2>3, <3>2 DEF Iterates
  <2>5. f[1] = ss[1]
    <3>1. 1 \in 1..n /\ 1 - 1 = 0
      BY <1>1, <1>3
    <3>2. f[1] = f[1 - 1] \o ss[1] /\ ss[1] \in Seq(S) /\ f[0] = << >>
      BY <1>1, <2>3, <2>4, <3>1 DEF Iterates
    <3>3. f[1] = << >> \o ss[1]
      BY <3>1, <3>2
    <3> QED
      BY <3>2, <3>3, ConcatEmptySeq
  <2> DEFINE h == [i \in 1..n |-> f[i]]
             k == [i \in 1..n |-> IF i = 1 THEN ss[i] ELSE h[i - 1] \o ss[i]]
  <2>6. Flattens(h)
    <3>1. ASSUME NEW i \in 1..n PROVE h[i] = k[i]
      <4>1. CASE i = 1
        BY <2>5, <4>1
      <4>2. CASE i # 1
        <5>1. i - 1 \in 1..n
          BY <1>1, <4>2
        <5> QED
          BY <2>4, <4>2, <5>1
      <4> QED
        BY <4>1, <4>2
    <3>2. h = k
      BY <3>1
    <3> QED
      BY <3>2
  <2>7. PICK g : Flattens(g) /\ FlattenSeq(ss) = g[n]
    <3>1. FlattenSeq(ss) = (CHOOSE g : Flattens(g))[n]
      BY <1>1, <1>3 DEF FlattenSeq
    <3>2. Flattens(CHOOSE g : Flattens(g))
      <4> HIDE DEF Flattens
      <4> QED
        BY <2>6
    <3> HIDE DEF Flattens
    <3> QED
      BY <3>1, <3>2
  <2> DEFINE same == {i \in Nat : i + 1 \in 1..n => g[i + 1] = f[i + 1]}
  <2>8. \A i \in 1..n : g[i] = IF i = 1 THEN ss[i] ELSE g[i - 1] \o ss[i]
    BY <2>7
  <2>9. 0 \in same
    BY <2>5, <2>8
  <2>10. ASSUME NEW i \in Nat, i \in same PROVE i + 1 \in same
    <3> SUFFICES ASSUME (i + 1) + 1 \in 1..n PROVE g[(i + 1) + 1] = f[(i + 1) + 1]
      OBVIOUS
    <3>1. i + 1 \in 1..n /\ ((i + 1) + 1) - 1 = i + 1 /\ (i + 1) + 1 # 1
      BY <1>1
    <3>2. g[i + 1] = f[i + 1]
      BY <2>10, <3>1
    <3> DEFINE j == (i + 1) + 1
    <3>3. f[j] = f[j - 1] \o ss[j]
      BY <2>4
    <3>4. j \in 1..n /\ j # 1 /\ j - 1 = i + 1
      BY <3>1
    <3> HIDE DEF j
    <3>5. g[j] = g[j - 1] \o ss[j]
      BY <2>8, <3>4
    <3> QED
      BY <3>2, <3>3, <3>4, <3>5 DEF j
  <2>11. Nat \subseteq same
    <3> HIDE DEF same
    <3> QED
      BY <2>9, <2>10, Induction
  <2>12. n - 1 \in Nat /\ (n - 1) + 1 = n /\ n \in 1..n
    BY <1>1, <1>3
  <2>13. g[n] = f[n]
    BY <2>11, <2>12
  <2> QED
    BY <1>1, <2>3, <2>4, <2>7, <2>13 DEF Iterates
<1> QED
  BY <1>2, <1>3

LEMMA FlatType ==
    ASSUME NEW S, NEW ss \in Seq(Seq(S))
    PROVE  FlattenSeq(ss) \in Seq(S)
<1> DEFINE n == Len(ss)
<1>1. n \in Nat /\ n \in 0..n
  BY LenProperties
<1>2. PICK f \in [0..n -> Seq(S)] : FlattenSeq(ss) = f[n]
  BY FlatLoop
<1> HIDE DEF n
<1> QED
  BY <1>1, <1>2

LEMMA FlatEmpty == FlattenSeq(<< >>) = << >>
BY DEF FlattenSeq

LEMMA FlatAppend ==
    ASSUME NEW S, NEW ss \in Seq(Seq(S)), NEW s \in Seq(S)
    PROVE  FlattenSeq(Append(ss, s)) = FlattenSeq(ss) \o s
<1> DEFINE n == Len(ss)
           tt == Append(ss, s)
<1>1. tt \in Seq(Seq(S)) /\ Len(tt) = n + 1 /\ n \in Nat /\ tt[n + 1] = s
      /\ (\A i \in 1..n : tt[i] = ss[i]) /\ n = Len(ss)
  BY AppendProperties, LenProperties
<1> HIDE DEF tt, n
<1>2. PICK f \in [0..n -> Seq(S)] :
        f[0] = << >> /\ (\A i \in 1..n : f[i] = f[i - 1] \o ss[i]) /\ FlattenSeq(ss) = f[n]
  BY <1>1, FlatLoop
<1> DEFINE m == n + 1
<1>9. m = Len(tt)
  BY <1>1
<1> HIDE DEF m
<1>3. PICK g \in [0..m -> Seq(S)] :
        /\ g[0] = << >> /\ \A i \in 1..m : g[i] = g[i - 1] \o tt[i]
        /\ FlattenSeq(tt) = g[m]
  BY <1>1, <1>9, FlatLoop
<1> DEFINE same == {i \in Nat : i \in 0..n => g[i] = f[i]}
<1>4. 0 \in same
  BY <1>2, <1>3
<1>5. ASSUME NEW i \in Nat, i \in same PROVE i + 1 \in same
  <2> SUFFICES ASSUME i + 1 \in 0..n PROVE g[i + 1] = f[i + 1]
    OBVIOUS
  <2>1. i \in 0..n /\ i + 1 \in 1..n /\ i + 1 \in 1..m /\ (i + 1) - 1 = i
    BY <1>1 DEF m
  <2> QED
    BY <1>1, <1>2, <1>3, <1>5, <2>1
<1>6. Nat \subseteq same
  <2> HIDE DEF same
  <2> QED
    BY <1>4, <1>5, Induction
<1>7. g[n] = f[n]
  <2>1. n \in 0..n /\ n \in Nat
    BY <1>1
  <2>2. n \in same
    <3> HIDE DEF same
    <3> QED
      BY <1>6, <2>1
  <2> QED
    BY <2>1, <2>2
<1>8. g[m] = g[n] \o s
  <2>1. m \in 1..m /\ m - 1 = n /\ tt[m] = s
    BY <1>1 DEF m
  <2> QED
    BY <1>1, <1>3, <2>1
<1> QED
  BY <1>2, <1>3, <1>7, <1>8 DEF tt

LEMMA OneOf ==
    ASSUME NEW S, NEW e \in S
    PROVE  <<e>> \in Seq(S)
OBVIOUS

LEMMA FlatSingle ==
    ASSUME NEW S, NEW s \in Seq(S)
    PROVE  FlattenSeq(<<s>>) = s
<1>1. << >> \in Seq(Seq(S)) /\ Append(<< >>, s) = <<s>>
  OBVIOUS
<1>2. FlattenSeq(<<s>>) = << >> \o s
  BY <1>1, FlatAppend, FlatEmpty
<1> QED
  BY <1>2, ConcatEmptySeq

LEMMA AppendConcat ==
    ASSUME NEW S, NEW s \in Seq(S), NEW t \in Seq(S), NEW e \in S
    PROVE  s \o Append(t, e) = Append(s \o t, e)
<1>1. Append(t, e) = t \o <<e>> /\ <<e>> \in Seq(S) /\ s \o t \in Seq(S)
      /\ Append(s \o t, e) = (s \o t) \o <<e>>
  BY AppendIsConcat, ConcatProperties
<1> QED
  BY <1>1, ConcatAssociative, SMTT(30)

LEMMA FlatConcat ==
    ASSUME NEW S, NEW ss \in Seq(Seq(S)), NEW tt \in Seq(Seq(S))
    PROVE  FlattenSeq(ss \o tt) = FlattenSeq(ss) \o FlattenSeq(tt)
<1> DEFINE good == {u \in Seq(Seq(S)) : FlattenSeq(ss \o u) = FlattenSeq(ss) \o FlattenSeq(u)}
<1>1. << >> \in good
  BY ConcatEmptySeq, FlatEmpty, FlatType
<1>2. ASSUME NEW u \in Seq(Seq(S)), NEW e \in Seq(S), u \in good PROVE Append(u, e) \in good
  <2>1. ss \o Append(u, e) = Append(ss \o u, e)
    BY AppendConcat
  <2>2. ss \o u \in Seq(Seq(S)) /\ Append(u, e) \in Seq(Seq(S))
    BY ConcatProperties, AppendProperties
  <2>3. FlattenSeq(ss \o Append(u, e)) = FlattenSeq(ss \o u) \o e
    BY <2>1, <2>2, FlatAppend
  <2>4. FlattenSeq(ss \o u) = FlattenSeq(ss) \o FlattenSeq(u)
    BY <1>2
  <2>5. FlattenSeq(Append(u, e)) = FlattenSeq(u) \o e
    BY FlatAppend
  <2>6. (FlattenSeq(ss) \o FlattenSeq(u)) \o e = FlattenSeq(ss) \o (FlattenSeq(u) \o e)
    <3>1. FlattenSeq(ss) \in Seq(S) /\ FlattenSeq(u) \in Seq(S)
      BY FlatType
    <3> QED
      BY <3>1, ConcatAssociative, SMTT(30)
  <2>7. FlattenSeq(ss \o Append(u, e)) = FlattenSeq(ss) \o FlattenSeq(Append(u, e))
    BY <2>3, <2>4, <2>5, <2>6, Zenon
  <2> QED
    BY <2>2, <2>7, Zenon
<1>3. Seq(Seq(S)) \subseteq good
  <2> HIDE DEF good
  <2> QED
    BY <1>1, <1>2, SeqInduction
<1> QED
  BY <1>3

LEMMA FlatPair ==
    ASSUME NEW S, NEW s \in Seq(S), NEW t \in Seq(S)
    PROVE  FlattenSeq(<<s, t>>) = s \o t
<1> DEFINE T == Seq(S)
<1>3. s \in T /\ t \in T
  OBVIOUS
<1> HIDE DEF T
<1>4. <<s>> \in Seq(T)
  BY <1>3
<1>5. Append(<<s>>, t) = <<s, t>>
  <2> DEFINE u == Append(<<s>>, t)
             v == <<s, t>>
  <2>1. Len(<<s>>) = 1 /\ <<s>>[1] = s
    OBVIOUS
  <2>2. u \in Seq(T) /\ Len(u) = 2 /\ u[1] = s /\ u[2] = t
    BY <1>3, <1>4, <2>1, AppendProperties
  <2>3. v \in Seq(T) /\ Len(v) = 2 /\ v[1] = s /\ v[2] = t
    BY <1>3
  <2> HIDE DEF u, v
  <2>4. Len(u) = Len(v) /\ \A i \in 1..Len(u) : u[i] = v[i]
    BY <2>2, <2>3
  <2>5. u = v
    BY <2>2, <2>3, <2>4, SeqEqual, Zenon
  <2> QED
    BY <2>5 DEF u, v
<1>1. <<s>> \in Seq(Seq(S)) /\ Append(<<s>>, t) = <<s, t>>
  BY <1>4, <1>5 DEF T
<1>2. FlattenSeq(<<s, t>>) = FlattenSeq(<<s>>) \o t
  BY <1>1, FlatAppend
<1> QED
  BY <1>2, FlatSingle

-----------------------------------------------------------------------------
(* Line endings. *)

\* The characters of a normalized text.
Plain == Chars \ {CR}

\* What becomes of the character at i.
Piece(text, i) ==
    IF MatchesAt(text, <<CR, LF>>, i) THEN << >> ELSE IF text[i] = CR THEN <<LF>> ELSE <<text[i]>>
Pieces(text) == [i \in 1..Len(text) |-> Piece(text, i)]

LEMMA PairAt ==
    ASSUME NEW text \in Seq(Chars), NEW i \in 1..Len(text)
    PROVE  MatchesAt(text, <<CR, LF>>, i) <=>
             i + 1 <= Len(text) /\ text[i] = CR /\ text[i + 1] = LF
<1> DEFINE crlf == <<CR, LF>>
<1>1. Len(text) \in Nat /\ Len(crlf) = 2 /\ crlf[1] = CR /\ crlf[2] = LF
  BY LenProperties
<1> HIDE DEF crlf
<1>2. MatchesAt(text, crlf, i) <=> i + 2 <= Len(text) + 1 /\ \A k \in 1..2 : text[i + k - 1] = crlf[k]
  BY <1>1 DEF MatchesAt
<1>3. (\A k \in 1..2 : text[i + k - 1] = crlf[k]) <=> text[i] = CR /\ text[i + 1] = LF
  <2>1. 1..2 = {1, 2} /\ i + 1 - 1 = i /\ i + 2 - 1 = i + 1
    BY <1>1
  <2> QED
    BY <1>1, <2>1
<1> QED
  BY <1>1, <1>2, <1>3 DEF crlf

LEMMA PiecesType ==
    ASSUME NEW text \in Seq(Chars)
    PROVE  /\ Pieces(text) \in Seq(Seq(Plain)) /\ Pieces(text) \in Seq(Seq(Chars))
           /\ Len(Pieces(text)) = Len(text)
           /\ NormalizeToLf(text) = FlattenSeq(Pieces(text))
<1> DEFINE n == Len(text)
<1>1. n \in Nat /\ (\A i \in 1..n : text[i] \in Chars) /\ n = Len(text)
  BY LenProperties, ElementOfSeq
<1> HIDE DEF n
<1>2. \A c \in Plain : <<c>> \in Seq(Plain)
  OBVIOUS
<1>3. LF \in Plain /\ << >> \in Seq(Plain)
  BY FileToolsAssumption DEF Plain
<1>4. \A i \in 1..n : Piece(text, i) \in Seq(Plain)
  BY <1>1, <1>2, <1>3 DEF Piece, Plain
<1>5. Pieces(text) \in [1..n -> Seq(Plain)]
  BY <1>1, <1>4 DEF Pieces
<1>6. Pieces(text) \in Seq(Seq(Plain))
  BY <1>1, <1>5
<1>7. Seq(Plain) \subseteq Seq(Chars)
  BY SeqMonotonic DEF Plain
<1>8. Pieces(text) \in Seq(Seq(Chars))
  BY <1>6, <1>7, SeqMonotonic
<1>9. NormalizeToLf(text) = FlattenSeq(Pieces(text))
  BY DEF NormalizeToLf, Pieces, Piece
<1>10. Len(Pieces(text)) = n
  BY <1>1, <1>5, LenProperties
<1> QED
  BY <1>1, <1>6, <1>8, <1>9, <1>10

\* A normalized text has no carriage return.
LEMMA NormalType ==
    ASSUME NEW text \in Seq(Chars)
    PROVE  NormalizeToLf(text) \in Seq(Plain) /\ NormalizeToLf(text) \in Seq(Chars)
BY PiecesType, FlatType

\* A text may be normalized in two parts, where the first does not end in CR.
LEMMA NormalConcat ==
    ASSUME NEW u \in Seq(Chars), NEW v \in Seq(Chars), u # << >> => u[Len(u)] # CR
    PROVE  NormalizeToLf(u \o v) = NormalizeToLf(u) \o NormalizeToLf(v)
<1> DEFINE m == Len(u)
           n == Len(v)
           w == u \o v
<1>1. m \in Nat /\ n \in Nat /\ m = Len(u) /\ n = Len(v)
  BY LenProperties
<1>2. w \in Seq(Chars) /\ Len(w) = m + n
      /\ \A i \in 1..(m + n) : w[i] = IF i <= m THEN u[i] ELSE v[i - m]
  BY ConcatProperties
<1>3. m > 0 => u[m] # CR
  BY EmptySeq
<1> HIDE DEF m, n, w
<1>4. ASSUME NEW i \in 1..m PROVE Piece(w, i) = Piece(u, i)
  <2>1. w[i] = u[i] /\ i \in 1..(m + n)
    BY <1>1, <1>2
  <2>2. MatchesAt(w, <<CR, LF>>, i) <=> MatchesAt(u, <<CR, LF>>, i)
    <3>1. MatchesAt(w, <<CR, LF>>, i) <=> i + 1 <= m + n /\ w[i] = CR /\ w[i + 1] = LF
      BY <1>2, <2>1, PairAt
    <3>2. MatchesAt(u, <<CR, LF>>, i) <=> i + 1 <= m /\ u[i] = CR /\ u[i + 1] = LF
      BY <1>1, PairAt
    <3>3. CASE i = m
      BY <1>1, <1>3, <2>1, <3>1, <3>2, <3>3
    <3>4. CASE i # m
      <4>1. i + 1 <= m /\ i + 1 <= m + n /\ i + 1 \in 1..(m + n)
        BY <1>1, <3>4
      <4>2. w[i + 1] = u[i + 1]
        BY <1>2, <4>1
      <4> QED
        BY <2>1, <3>1, <3>2, <4>1, <4>2
    <3> QED
      BY <3>3, <3>4
  <2> QED
    BY <2>1, <2>2 DEF Piece
<1>5. ASSUME NEW i \in 1..n PROVE Piece(w, m + i) = Piece(v, i)
  <2>1. w[m + i] = v[i] /\ m + i \in 1..(m + n)
    <3>1. m + i \in 1..(m + n) /\ ~(m + i <= m) /\ (m + i) - m = i
      BY <1>1
    <3> QED
      BY <1>2, <3>1
  <2>2. MatchesAt(w, <<CR, LF>>, m + i) <=> MatchesAt(v, <<CR, LF>>, i)
    <3>1. MatchesAt(w, <<CR, LF>>, m + i) <=> (m + i) + 1 <= m + n /\ w[m + i] = CR /\ w[(m + i) + 1] = LF
      BY <1>2, <2>1, PairAt
    <3>2. MatchesAt(v, <<CR, LF>>, i) <=> i + 1 <= n /\ v[i] = CR /\ v[i + 1] = LF
      BY <1>1, PairAt
    <3>3. CASE i = n
      BY <1>1, <3>1, <3>2, <3>3
    <3>4. CASE i # n
      <4>1. i + 1 <= n /\ (m + i) + 1 <= m + n /\ (m + i) + 1 \in 1..(m + n)
            /\ ~((m + i) + 1 <= m) /\ ((m + i) + 1) - m = i + 1
        BY <1>1, <3>4
      <4>2. w[(m + i) + 1] = v[i + 1]
        BY <1>2, <4>1
      <4> QED
        BY <2>1, <3>1, <3>2, <4>1, <4>2
    <3> QED
      BY <3>3, <3>4
  <2> QED
    BY <2>1, <2>2 DEF Piece
<1>6. Pieces(w) = Pieces(u) \o Pieces(v)
  <2> DEFINE P == Pieces(u)
             Q == Pieces(v)
             R == Pieces(w)
  <2>1. /\ P \in Seq(Seq(Chars)) /\ Len(P) = m /\ Q \in Seq(Seq(Chars)) /\ Len(Q) = n
        /\ R \in Seq(Seq(Chars)) /\ Len(R) = m + n
    BY <1>1, <1>2, PiecesType
  <2>2. /\ \A i \in 1..m : P[i] = Piece(u, i)
        /\ \A i \in 1..n : Q[i] = Piece(v, i)
        /\ \A i \in 1..(m + n) : R[i] = Piece(w, i)
    BY <1>1, <1>2 DEF Pieces
  <2> HIDE DEF P, Q, R
  <2>3. P \o Q \in Seq(Seq(Chars)) /\ Len(P \o Q) = m + n
        /\ \A i \in 1..(m + n) : (P \o Q)[i] = IF i <= m THEN P[i] ELSE Q[i - m]
    BY <2>1, ConcatProperties
  <2>4. ASSUME NEW i \in 1..(m + n) PROVE R[i] = (P \o Q)[i]
    <3>1. CASE i <= m
      <4>1. i \in 1..m
        BY <1>1, <3>1
      <4> QED
        BY <1>4, <2>2, <2>3, <3>1, <4>1
    <3>2. CASE ~(i <= m)
      <4>1. i - m \in 1..n /\ m + (i - m) = i
        BY <1>1, <3>2
      <4> QED
        BY <1>5, <2>2, <2>3, <3>2, <4>1
    <3> QED
      BY <3>1, <3>2
  <2>5. Len(R) = Len(P \o Q) /\ \A i \in 1..Len(R) : R[i] = (P \o Q)[i]
    BY <2>1, <2>3, <2>4
  <2>6. R = P \o Q
    BY <2>1, <2>3, <2>5, SeqEqual, Zenon
  <2> QED
    BY <2>6 DEF P, Q, R
<1>7. FlattenSeq(Pieces(u) \o Pieces(v)) = FlattenSeq(Pieces(u)) \o FlattenSeq(Pieces(v))
  BY PiecesType, FlatConcat
<1>8. NormalizeToLf(w) = FlattenSeq(Pieces(w))
  BY <1>2, PiecesType
<1>9. NormalizeToLf(u) = FlattenSeq(Pieces(u)) /\ NormalizeToLf(v) = FlattenSeq(Pieces(v))
  BY PiecesType
<1> QED
  BY <1>6, <1>7, <1>8, <1>9 DEF w

\* One character, and one pair.
LEMMA NormalChar ==
    ASSUME NEW c \in Plain
    PROVE  NormalizeToLf(<<c>>) = <<c>>
<1> DEFINE t == <<c>>
<1>1. t \in Seq(Chars) /\ Len(t) = 1 /\ t[1] = c /\ c # CR
  BY DEF Plain
<1> HIDE DEF t
<1>2. Piece(t, 1) = <<c>>
  <2>1. ~MatchesAt(t, <<CR, LF>>, 1)
    BY <1>1, PairAt
  <2> QED
    BY <1>1, <2>1 DEF Piece
<1>3. Pieces(t) = << <<c>> >>
  BY <1>1, <1>2 DEF Pieces
<1>4. <<c>> \in Seq(Chars)
  BY DEF Plain
<1> QED
  BY <1>1, <1>3, <1>4, PiecesType, FlatSingle DEF t

LEMMA NormalPair == NormalizeToLf(<<CR, LF>>) = <<LF>>
<1> DEFINE t == <<CR, LF>>
<1>1. t \in Seq(Chars) /\ Len(t) = 2 /\ t[1] = CR /\ t[2] = LF /\ CR # LF
  BY FileToolsAssumption
<1> HIDE DEF t
<1>2. Piece(t, 1) = << >> /\ Piece(t, 2) = <<LF>>
  <2>1. MatchesAt(t, <<CR, LF>>, 1) /\ ~MatchesAt(t, <<CR, LF>>, 2)
    BY <1>1, PairAt
  <2> QED
    BY <1>1, <2>1 DEF Piece
<1>3. Pieces(t) = << << >>, <<LF>> >>
  BY <1>1, <1>2 DEF Pieces
<1>4. <<LF>> \in Seq(Chars) /\ << >> \in Seq(Chars)
  BY FileToolsAssumption
<1>5. FlattenSeq(<< << >>, <<LF>> >>) = << >> \o <<LF>>
  BY <1>4, FlatPair
<1> QED
  BY <1>1, <1>3, <1>4, <1>5, PiecesType, ConcatEmptySeq DEF t

\* Nothing changes in a text that has no CR.
LEMMA NormalPlain ==
    ASSUME NEW text \in Seq(Plain)
    PROVE  NormalizeToLf(text) = text
<1> DEFINE good == {t \in Seq(Plain) : NormalizeToLf(t) = t}
<1>1. << >> \in good
  <2>1. << >> \in Seq(Chars) /\ << >> \in Seq(Plain) /\ Len(<< >>) = 0
    OBVIOUS
  <2>2. Pieces(<< >>) = << >>
    BY <2>1 DEF Pieces
  <2> QED
    BY <2>1, <2>2, PiecesType, FlatEmpty
<1>2. ASSUME NEW t \in Seq(Plain), NEW c \in Plain, t \in good PROVE Append(t, c) \in good
  <2>1. t \in Seq(Chars) /\ <<c>> \in Seq(Chars)
    BY SeqMonotonic DEF Plain
  <2>2. t # << >> => t[Len(t)] # CR
    <3>1. t # << >> => Len(t) \in 1..Len(t)
      BY EmptySeq
    <3>2. t # << >> => t[Len(t)] \in Plain
      BY <3>1, ElementOfSeq
    <3> QED
      BY <3>2 DEF Plain
  <2>3. Append(t, c) = t \o <<c>> /\ Append(t, c) \in Seq(Plain)
    BY AppendIsConcat, AppendProperties
  <2>4. NormalizeToLf(t \o <<c>>) = NormalizeToLf(t) \o NormalizeToLf(<<c>>)
    BY <2>1, <2>2, NormalConcat
  <2>5. NormalizeToLf(t) = t
    BY <1>2
  <2> QED
    BY <2>3, <2>4, <2>5, NormalChar
<1>3. Seq(Plain) \subseteq good
  <2> HIDE DEF good
  <2> QED
    BY <1>1, <1>2, SeqInduction
<1> QED
  BY <1>3

\* What restores the line endings, character by character.
EndedWith(c, ending) == IF c = LF THEN ending ELSE <<c>>

LEMMA RestoreAppend ==
    ASSUME NEW text \in Seq(Chars), NEW c \in Chars, NEW ending \in Seq(Chars)
    PROVE  /\ RestoreLineEndings(text, ending) \in Seq(Chars)
           /\ RestoreLineEndings(Append(text, c), ending) =
                RestoreLineEndings(text, ending) \o EndedWith(c, ending)
<1> DEFINE n == Len(text)
           t == Append(text, c)
           P == [i \in 1..Len(text) |-> EndedWith(text[i], ending)]
           Q == [i \in 1..Len(t) |-> EndedWith(t[i], ending)]
<1>1. n \in Nat /\ n = Len(text) /\ (\A i \in 1..n : text[i] \in Chars)
      /\ t \in Seq(Chars) /\ Len(t) = n + 1 /\ t[n + 1] = c /\ (\A i \in 1..n : t[i] = text[i])
  BY LenProperties, ElementOfSeq, AppendProperties
<1>2. \A d \in Chars : EndedWith(d, ending) \in Seq(Chars)
  BY DEF EndedWith
<1> HIDE DEF n, t
<1>3. P \in Seq(Seq(Chars)) /\ Len(P) = n /\ \A i \in 1..n : P[i] = EndedWith(text[i], ending)
  <2>1. P \in [1..n -> Seq(Chars)]
    BY <1>1, <1>2
  <2>2. P \in Seq(Seq(Chars))
    BY <1>1, <2>1
  <2> QED
    BY <1>1, <2>1, <2>2, LenProperties
<1>4. Q = Append(P, EndedWith(c, ending))
  <2> DEFINE R == Append(P, EndedWith(c, ending))
  <2>1. R \in Seq(Seq(Chars)) /\ Len(R) = n + 1 /\ R[n + 1] = EndedWith(c, ending)
        /\ \A i \in 1..n : R[i] = EndedWith(text[i], ending)
    BY <1>2, <1>3, AppendProperties
  <2>2. Q \in [1..(n + 1) -> Seq(Chars)]
    <3>1. \A i \in 1..(n + 1) : t[i] \in Chars
      BY <1>1, ElementOfSeq
    <3> QED
      BY <1>1, <1>2, <3>1
  <2>3. Q \in Seq(Seq(Chars)) /\ Len(Q) = n + 1
    <3>1. Q \in Seq(Seq(Chars))
      BY <1>1, <2>2
    <3> QED
      BY <1>1, <2>2, <3>1, LenProperties
  <2>4. ASSUME NEW i \in 1..(n + 1) PROVE Q[i] = R[i]
    <3>1. CASE i = n + 1
      BY <1>1, <2>1, <3>1
    <3>2. CASE i # n + 1
      <4>1. i \in 1..n
        BY <1>1, <3>2
      <4> QED
        BY <1>1, <2>1, <4>1
    <3> QED
      BY <3>1, <3>2
  <2> HIDE DEF Q, R
  <2>5. Len(Q) = Len(R) /\ \A i \in 1..Len(Q) : Q[i] = R[i]
    BY <2>1, <2>3, <2>4
  <2>6. Q = R
    BY <2>1, <2>3, <2>5, SeqEqual, Zenon
  <2> QED
    BY <2>6 DEF R
<1>5. RestoreLineEndings(text, ending) = FlattenSeq(P) /\ RestoreLineEndings(t, ending) = FlattenSeq(Q)
  BY DEF RestoreLineEndings, EndedWith
<1> HIDE DEF P, Q
<1>6. FlattenSeq(Append(P, EndedWith(c, ending))) = FlattenSeq(P) \o EndedWith(c, ending)
  BY <1>2, <1>3, FlatAppend
<1>7. FlattenSeq(P) \in Seq(Chars)
  BY <1>3, FlatType
<1> QED
  BY <1>4, <1>5, <1>6, <1>7 DEF t

\* Writing a normalized text with either ending and reading it again is to
\* keep it.
LEMMA NormalRestore ==
    ASSUME NEW text \in Seq(Plain), NEW ending \in {<<LF>>, <<CR, LF>>}
    PROVE  /\ NormalizeToLf(RestoreLineEndings(text, ending)) = text
           /\ RestoreLineEndings(text, ending) \in Seq(Chars)
<1> DEFINE R(t) == RestoreLineEndings(t, ending)
           good == {t \in Seq(Plain) : /\ NormalizeToLf(R(t)) = t /\ R(t) \in Seq(Chars)
                                       /\ R(t) # << >> => R(t)[Len(R(t))] # CR}
<1>4. LF # CR /\ LF \in Chars /\ CR \in Chars /\ LF \in Plain
  BY FileToolsAssumption DEF Plain
<1>5. <<LF>> \in Seq(Chars) /\ <<CR, LF>> \in Seq(Chars)
  BY <1>4
<1>1. ending \in Seq(Chars) /\ LF # CR /\ LF \in Chars /\ LF \in Plain
  BY <1>4, <1>5
<1>2. << >> \in good
  <2>1. << >> \in Seq(Plain) /\ << >> \in Seq(Chars) /\ Len(<< >>) = 0
    OBVIOUS
  <2>2. R(<< >>) = << >>
    BY <2>1, FlatEmpty DEF RestoreLineEndings
  <2>3. NormalizeToLf(<< >>) = << >>
    BY <2>1, NormalPlain
  <2> QED
    BY <2>1, <2>2, <2>3
<1>3. ASSUME NEW t \in Seq(Plain), NEW c \in Plain, t \in good PROVE Append(t, c) \in good
  <2>1. t \in Seq(Chars) /\ c \in Chars
    BY SeqMonotonic DEF Plain
  <2>2. R(Append(t, c)) = R(t) \o EndedWith(c, ending)
    BY <1>1, <2>1, RestoreAppend
  <2>3. /\ EndedWith(c, ending) \in Seq(Chars) /\ NormalizeToLf(EndedWith(c, ending)) = <<c>>
        /\ Len(EndedWith(c, ending)) \in Nat \ {0} /\ EndedWith(c, ending)[Len(EndedWith(c, ending))] # CR
    <3>1. CASE c # LF
      <4>1. EndedWith(c, ending) = <<c>>
        BY <3>1 DEF EndedWith
      <4> QED
        BY <2>1, <4>1, NormalChar DEF Plain
    <3>2. CASE c = LF /\ ending = <<LF>>
      <4>1. EndedWith(c, ending) = <<LF>>
        BY <3>2 DEF EndedWith
      <4>2. Len(<<LF>>) = 1 /\ <<LF>>[1] = LF /\ 1 \in Nat \ {0}
        OBVIOUS
      <4> QED
        BY <1>1, <1>5, <3>2, <4>1, <4>2, NormalChar, Zenon
    <3>3. CASE c = LF /\ ending = <<CR, LF>>
      <4>1. EndedWith(c, ending) = <<CR, LF>>
        BY <3>3 DEF EndedWith
      <4>2. Len(<<CR, LF>>) = 2 /\ <<CR, LF>>[2] = LF /\ 2 \in Nat \ {0}
        OBVIOUS
      <4> QED
        BY <1>1, <1>5, <3>3, <4>1, <4>2, NormalPair, Zenon
    <3> QED
      BY <3>1, <3>2, <3>3
  <2> DEFINE e == EndedWith(c, ending)
             r == R(t)
  <2>4. r \in Seq(Chars) /\ NormalizeToLf(r) = t /\ (r # << >> => r[Len(r)] # CR)
    BY <1>3
  <2>5. e \in Seq(Chars) /\ NormalizeToLf(e) = <<c>> /\ Len(e) \in Nat \ {0} /\ e[Len(e)] # CR
    BY <2>3
  <2> HIDE DEF e, r
  <2>6. NormalizeToLf(r \o e) = t \o <<c>>
    BY <2>4, <2>5, NormalConcat
  <2>7. /\ r \o e \in Seq(Chars) /\ Len(r \o e) = Len(r) + Len(e) /\ Len(r) \in Nat
        /\ \A i \in 1..(Len(r) + Len(e)) : (r \o e)[i] = IF i <= Len(r) THEN r[i] ELSE e[i - Len(r)]
    BY <2>4, <2>5, ConcatProperties, LenProperties
  <2>8. (r \o e)[Len(r \o e)] = e[Len(e)]
    <3> DEFINE m == Len(r)
               n == Len(e)
    <3>1. m \in Nat /\ n \in Nat \ {0} /\ Len(r \o e) = m + n
          /\ \A i \in 1..(m + n) : (r \o e)[i] = IF i <= m THEN r[i] ELSE e[i - m]
      BY <2>5, <2>7
    <3> HIDE DEF m, n
    <3>2. m + n \in 1..(m + n) /\ ~(m + n <= m) /\ (m + n) - m = n
      BY <3>1
    <3>3. (r \o e)[Len(r \o e)] = e[n]
      BY <3>1, <3>2
    <3> QED
      BY <3>3 DEF n
  <2>9. Append(t, c) = t \o <<c>> /\ Append(t, c) \in Seq(Plain)
    BY AppendIsConcat, AppendProperties
  <2>10. R(Append(t, c)) = r \o e
    BY <2>2 DEF r, e
  <2> HIDE DEF R
  <2> QED
    BY <2>5, <2>6, <2>7, <2>8, <2>9, <2>10
<1>6. Seq(Plain) \subseteq good
  <2> HIDE DEF good
  <2> QED
    BY <1>2, <1>3, SeqInduction
<1> QED
  BY <1>6

-----------------------------------------------------------------------------
(* Parts of sequences. *)

LEMMA SubSeqType ==
    ASSUME NEW S, NEW s \in Seq(S), NEW a \in 1..(Len(s) + 1), NEW b \in (a - 1)..Len(s)
    PROVE  /\ SubSeq(s, a, b) \in Seq(S) /\ Len(SubSeq(s, a, b)) = b - a + 1
           /\ \A i \in 1..(b - a + 1) : SubSeq(s, a, b)[i] = s[a + i - 1]
<1> DEFINE n == Len(s)
<1>1. n \in Nat /\ a \in 1..(n + 1) /\ b \in (a - 1)..n /\ \A i \in 1..n : s[i] \in S
  BY LenProperties, ElementOfSeq
<1> HIDE DEF n
<1>2. a \in Int /\ b \in Int /\ \A i \in a..b : s[i] \in S
  BY <1>1
<1>3. /\ SubSeq(s, a, b) \in Seq(S)
      /\ Len(SubSeq(s, a, b)) = IF a <= b THEN b - a + 1 ELSE 0
      /\ \A i \in 1..(b - a + 1) : SubSeq(s, a, b)[i] = s[a + i - 1]
  BY <1>2, SubSeqProperties
<1> QED
  BY <1>1, <1>3

LEMMA HeadConcat ==
    ASSUME NEW S, NEW s \in Seq(S), NEW t \in Seq(S), NEW e \in 0..Len(s)
    PROVE  SubSeq(s \o t, 1, e) = SubSeq(s, 1, e)
<1> DEFINE u == s \o t
           n == Len(s)
           v == SubSeq(u, 1, e)
           w == SubSeq(s, 1, e)
<1>1. n \in Nat /\ Len(t) \in Nat /\ u \in Seq(S) /\ Len(u) = n + Len(t) /\ e \in 0..n /\ n = Len(s)
      /\ \A i \in 1..(n + Len(t)) : u[i] = IF i <= n THEN s[i] ELSE t[i - n]
  BY LenProperties, ConcatProperties
<1> HIDE DEF u, n
<1>2. 1 \in 1..(Len(u) + 1) /\ e \in (1 - 1)..Len(u) /\ 1 \in 1..(Len(s) + 1) /\ e \in (1 - 1)..Len(s)
  BY <1>1
<1>3. v \in Seq(S) /\ Len(v) = e - 1 + 1 /\ \A i \in 1..(e - 1 + 1) : v[i] = u[1 + i - 1]
  BY <1>1, <1>2, SubSeqType
<1>4. w \in Seq(S) /\ Len(w) = e - 1 + 1 /\ \A i \in 1..(e - 1 + 1) : w[i] = s[1 + i - 1]
  BY <1>1, <1>2, SubSeqType
<1> HIDE DEF v, w
<1>5. Len(v) = Len(w) /\ \A i \in 1..Len(v) : v[i] = w[i]
  <2>1. ASSUME NEW i \in 1..e PROVE v[i] = w[i]
    <3>1. i \in 1..(e - 1 + 1) /\ 1 + i - 1 = i /\ i <= n /\ i \in 1..(n + Len(t))
      BY <1>1
    <3> QED
      BY <1>1, <1>3, <1>4, <3>1
  <2> QED
    BY <1>1, <1>3, <1>4, <2>1
<1>6. v = w
  BY <1>3, <1>4, <1>5, SeqEqual, Zenon
<1> QED
  BY <1>6 DEF v, w, u

LEMMA TailConcat ==
    ASSUME NEW S, NEW s \in Seq(S), NEW t \in Seq(S), NEW a \in 1..(Len(s) + 1)
    PROVE  SubSeq(s \o t, a, Len(s \o t)) = SubSeq(s, a, Len(s)) \o t
<1> DEFINE u == s \o t
           n == Len(s)
           m == Len(t)
           v == SubSeq(u, a, Len(u))
           h == SubSeq(s, a, Len(s))
           w == h \o t
<1>1. /\ n \in Nat /\ m \in Nat /\ u \in Seq(S) /\ Len(u) = n + m /\ a \in 1..(n + 1)
      /\ n = Len(s) /\ m = Len(t)
      /\ \A i \in 1..(n + m) : u[i] = IF i <= n THEN s[i] ELSE t[i - n]
  BY LenProperties, ConcatProperties
<1> HIDE DEF u, n, m
<1>2. /\ a \in 1..(Len(u) + 1) /\ Len(u) \in (a - 1)..Len(u)
      /\ a \in 1..(Len(s) + 1) /\ Len(s) \in (a - 1)..Len(s)
  BY <1>1
<1>3. v \in Seq(S) /\ Len(v) = (n + m) - a + 1 /\ \A i \in 1..((n + m) - a + 1) : v[i] = u[a + i - 1]
  BY <1>1, <1>2, SubSeqType
<1>4. h \in Seq(S) /\ Len(h) = n - a + 1 /\ \A i \in 1..(n - a + 1) : h[i] = s[a + i - 1]
  <2>1. /\ h \in Seq(S) /\ Len(h) = Len(s) - a + 1
        /\ \A i \in 1..(Len(s) - a + 1) : h[i] = s[a + i - 1]
    BY <1>2, SubSeqType
  <2> HIDE DEF h
  <2> QED
    BY <1>1, <2>1
<1> HIDE DEF v, h
<1>5. /\ w \in Seq(S) /\ Len(w) = (n - a + 1) + m
      /\ \A i \in 1..((n - a + 1) + m) : w[i] = IF i <= n - a + 1 THEN h[i] ELSE t[i - (n - a + 1)]
  BY <1>1, <1>4, ConcatProperties
<1> HIDE DEF w
<1>6. Len(v) = Len(w) /\ \A i \in 1..Len(v) : v[i] = w[i]
  <2>1. ASSUME NEW i \in 1..((n + m) - a + 1) PROVE v[i] = w[i]
    <3>1. a + i - 1 \in 1..(n + m) /\ i \in 1..((n - a + 1) + m) /\ i \in Nat
      BY <1>1
    <3>2. CASE i <= n - a + 1
      <4>1. a + i - 1 <= n /\ i \in 1..(n - a + 1)
        BY <1>1, <3>2
      <4> QED
        BY <1>1, <1>3, <1>4, <1>5, <3>1, <3>2, <4>1
    <3>3. CASE ~(i <= n - a + 1)
      <4>1. ~(a + i - 1 <= n) /\ (a + i - 1) - n = i - (n - a + 1)
        BY <1>1, <3>3
      <4> QED
        BY <1>1, <1>3, <1>5, <3>1, <3>3, <4>1
    <3> QED
      BY <3>2, <3>3
  <2>2. Len(v) = (n + m) - a + 1 /\ Len(w) = (n + m) - a + 1
    <3>1. Len(v) = (n + m) - a + 1
      BY <1>3, Zenon
    <3>2. Len(w) = (n - a + 1) + m
      BY <1>5, Zenon
    <3> QED
      BY <1>1, <3>1, <3>2
  <2> QED
    BY <2>1, <2>2
<1>7. v = w
  BY <1>3, <1>5, <1>6, SeqEqual, Zenon
<1> QED
  BY <1>7 DEF v, w, u, h

\* What a part of a sequence of sequences flattens to.
LEMMA FlatSplit ==
    ASSUME NEW S, NEW P \in Seq(Seq(S)), NEW a \in 1..(Len(P) + 1),
           NEW b \in (a - 1)..Len(P), NEW c \in b..Len(P)
    PROVE  FlattenSeq(SubSeq(P, a, c)) = FlattenSeq(SubSeq(P, a, b)) \o FlattenSeq(SubSeq(P, b + 1, c))
<1> DEFINE n == Len(P)
<1>1. n \in Nat /\ a \in 1..(n + 1) /\ b \in (a - 1)..n /\ c \in b..n
  BY LenProperties
<1>2. SubSeq(P, a, b) \o SubSeq(P, b + 1, c) = SubSeq(P, a, c)
  BY ConcatAdjacentSubSeq
<1>3. SubSeq(P, a, b) \in Seq(Seq(S))
  BY SubSeqType
<1>4. SubSeq(P, b + 1, c) \in Seq(Seq(S))
  <2>1. b + 1 \in 1..(n + 1) /\ c \in ((b + 1) - 1)..n
    <3> HIDE DEF n
    <3> QED
      BY <1>1
  <2> QED
    BY <2>1, SubSeqType
<1> QED
  BY <1>2, <1>3, <1>4, FlatConcat

LEMMA FlatSingles ==
    ASSUME NEW S, NEW P \in Seq(Seq(S)), NEW text \in Seq(S), Len(P) = Len(text),
           NEW a \in 1..(Len(P) + 1), NEW b \in (a - 1)..Len(P),
           \A p \in a..b : P[p] = <<text[p]>>
    PROVE  FlattenSeq(SubSeq(P, a, b)) = SubSeq(text, a, b)
<1> DEFINE n == Len(P)
           good == {k \in Nat : (a - 1) + k <= b =>
                      FlattenSeq(SubSeq(P, a, (a - 1) + k)) = SubSeq(text, a, (a - 1) + k)}
<1>1. /\ n \in Nat /\ a \in 1..(n + 1) /\ b \in (a - 1)..n
      /\ n = Len(P) /\ n = Len(text)
  BY LenProperties
<1> HIDE DEF n
<1>2. 0 \in good
  <2>1. (a - 1) + 0 = a - 1 /\ a \in Int /\ a - 1 \in Int /\ a - 1 < a
    BY <1>1
  <2>2. SubSeq(P, a, a - 1) = << >> /\ SubSeq(text, a, a - 1) = << >>
    BY <2>1, SubSeqEmpty
  <2> QED
    BY <2>1, <2>2, FlatEmpty
<1>3. ASSUME NEW k \in Nat, k \in good PROVE k + 1 \in good
  <2> DEFINE e == (a - 1) + (k + 1)
  <2> SUFFICES ASSUME e <= b PROVE FlattenSeq(SubSeq(P, a, e)) = SubSeq(text, a, e)
    BY DEF good
  <2>1. /\ a \in 1..n /\ e \in a..n /\ e \in a..b /\ e - 1 = (a - 1) + k /\ (a - 1) + k <= b
        /\ e - 1 \in (a - 1)..n /\ e \in 1..n
    BY <1>1
  <2>2. FlattenSeq(SubSeq(P, a, e - 1)) = SubSeq(text, a, e - 1)
    BY <1>3, <2>1
  <2> HIDE DEF e, good
  <2>3. SubSeq(P, a, e) = SubSeq(P, a, e - 1) \o <<P[e]>>
    BY <1>1, <2>1, SubSeqRecursiveSecond
  <2>4. SubSeq(text, a, e) = SubSeq(text, a, e - 1) \o <<text[e]>>
    BY <1>1, <2>1, SubSeqRecursiveSecond
  <2>5. P[e] \in Seq(S) /\ P[e] = <<text[e]>>
    BY <1>1, <2>1, ElementOfSeq
  <2>6. <<P[e]>> \in Seq(Seq(S)) /\ FlattenSeq(<<P[e]>>) = P[e]
    <3>1. P[e] \in Seq(S)
      BY <2>5
    <3> QED
      BY <3>1, OneOf, FlatSingle, Zenon
  <2>7. SubSeq(P, a, e - 1) \in Seq(Seq(S))
    BY <1>1, <2>1, SubSeqType
  <2>8. FlattenSeq(SubSeq(P, a, e - 1) \o <<P[e]>>) = FlattenSeq(SubSeq(P, a, e - 1)) \o P[e]
    BY <2>6, <2>7, FlatConcat
  <2> QED
    BY <2>2, <2>3, <2>4, <2>5, <2>8
<1>4. Nat \subseteq good
  <2> HIDE DEF good
  <2> QED
    BY <1>2, <1>3, Induction
<1>5. b - (a - 1) \in Nat /\ (a - 1) + (b - (a - 1)) = b /\ b <= b
  BY <1>1
<1> DEFINE k == b - (a - 1)
<1>6. k \in good
  <2> HIDE DEF good
  <2> QED
    BY <1>4, <1>5
<1> QED
  BY <1>5, <1>6

LEMMA FlatNothing ==
    ASSUME NEW S, NEW P \in Seq(Seq(S)),
           NEW a \in 1..(Len(P) + 1), NEW b \in (a - 1)..Len(P),
           \A p \in a..b : P[p] = << >>
    PROVE  FlattenSeq(SubSeq(P, a, b)) = << >>
<1> DEFINE n == Len(P)
           good == {k \in Nat : (a - 1) + k <= b => FlattenSeq(SubSeq(P, a, (a - 1) + k)) = << >>}
<1>1. n \in Nat /\ a \in 1..(n + 1) /\ b \in (a - 1)..n /\ n = Len(P)
  BY LenProperties
<1> HIDE DEF n
<1>2. 0 \in good
  <2>1. (a - 1) + 0 = a - 1 /\ a \in Int /\ a - 1 \in Int /\ a - 1 < a
    BY <1>1
  <2>2. SubSeq(P, a, a - 1) = << >>
    BY <2>1, SubSeqEmpty
  <2> QED
    BY <2>1, <2>2, FlatEmpty
<1>3. ASSUME NEW k \in Nat, k \in good PROVE k + 1 \in good
  <2> DEFINE e == (a - 1) + (k + 1)
  <2> SUFFICES ASSUME e <= b PROVE FlattenSeq(SubSeq(P, a, e)) = << >>
    BY DEF good
  <2>1. /\ a \in 1..n /\ e \in a..n /\ e \in a..b /\ e - 1 = (a - 1) + k /\ (a - 1) + k <= b
        /\ e - 1 \in (a - 1)..n /\ e \in 1..n
    BY <1>1
  <2>2. FlattenSeq(SubSeq(P, a, e - 1)) = << >>
    BY <1>3, <2>1
  <2> HIDE DEF e, good
  <2>3. SubSeq(P, a, e) = SubSeq(P, a, e - 1) \o <<P[e]>>
    BY <1>1, <2>1, SubSeqRecursiveSecond
  <2>5. P[e] \in Seq(S) /\ P[e] = << >>
    BY <1>1, <2>1, ElementOfSeq
  <2>6. <<P[e]>> \in Seq(Seq(S)) /\ FlattenSeq(<<P[e]>>) = P[e]
    <3>1. P[e] \in Seq(S)
      BY <2>5
    <3> QED
      BY <3>1, OneOf, FlatSingle, Zenon
  <2>7. SubSeq(P, a, e - 1) \in Seq(Seq(S))
    BY <1>1, <2>1, SubSeqType
  <2>8. FlattenSeq(SubSeq(P, a, e - 1) \o <<P[e]>>) = FlattenSeq(SubSeq(P, a, e - 1)) \o P[e]
    BY <2>6, <2>7, FlatConcat
  <2> QED
    BY <2>2, <2>3, <2>5, <2>8
<1>4. Nat \subseteq good
  <2> HIDE DEF good
  <2> QED
    BY <1>2, <1>3, Induction
<1>5. b - (a - 1) \in Nat /\ (a - 1) + (b - (a - 1)) = b /\ b <= b
  BY <1>1
<1> DEFINE k == b - (a - 1)
<1>6. k \in good
  <2> HIDE DEF good
  <2> QED
    BY <1>4, <1>5
<1> QED
  BY <1>5, <1>6

-----------------------------------------------------------------------------
(* Where a text matches. *)

LEMMA LeastOf ==
    ASSUME NEW T \in SUBSET Nat, T # {}
    PROVE  Min(T) \in T /\ \A y \in T : Min(T) <= y
BY LeastNat DEF Min

LEMMA LargestOf ==
    ASSUME NEW n \in Nat, NEW T \in SUBSET (0..n), T # {}
    PROVE  Max(T) \in T /\ \A y \in T : y <= Max(T)
<1> DEFINE U == {u \in Nat : n - u \in T}
<1>1. U \in SUBSET Nat /\ U # {}
  <2>1. PICK y \in T : TRUE
    OBVIOUS
  <2>2. y \in Int /\ n - y \in Nat /\ n - (n - y) = y
    BY <2>1
  <2>3. n - y \in U
    BY <2>1, <2>2
  <2> QED
    BY <2>3
<1>2. PICK u \in U : \A v \in U : u <= v
  BY <1>1, LeastNat
<1>3. n - u \in T /\ u \in Nat
  BY <1>2
<1>4. ASSUME NEW y \in T PROVE y <= n - u
  <2>1. y \in Int /\ n - y \in Nat /\ n - (n - y) = y
    OBVIOUS
  <2>2. u <= n - y
    BY <1>2, <2>1
  <2> QED
    BY <1>3, <2>1, <2>2
<1> QED
  BY <1>3, <1>4 DEF Max

\* A piece that is counted is somewhere.
LEMMA CountOne ==
    ASSUME NEW text \in Seq(Chars), NEW piece \in Seq(Chars), piece # << >>, Count(text, piece) = 1
    PROVE  Index(text, piece) \in 1..Len(text) /\ MatchesAt(text, piece, Index(text, piece))
<1> DEFINE n == Len(text)
           m == Len(piece)
           D == 1..(n + m + 1)
           At == {i \in 1..n : MatchesAt(text, piece, i)}
<1>1. n \in Nat /\ m \in Nat \ {0} /\ n = Len(text) /\ m = Len(piece)
  BY LenProperties, EmptySeq
<1>2. At # {}
  <2> SUFFICES ASSUME At = {} PROVE FALSE
    OBVIOUS
  <2> DEFINE Counts(f) == f = [i \in D |->
                             IF i + m > n + 1 THEN 0
                             ELSE IF MatchesAt(text, piece, i) THEN 1 + f[i + m] ELSE f[i + 1]]
             zero == [i \in D |-> 0]
  <2>1. ASSUME NEW i \in D, ~(i + m > n + 1) PROVE ~MatchesAt(text, piece, i) /\ i + 1 \in D
    <3>1. i \in 1..n /\ i + 1 \in D
      BY <1>1, <2>1
    <3> QED
      BY <3>1
  <2>2. Counts(zero)
    <3>1. \A i \in D : zero[i] = IF i + m > n + 1 THEN 0
                                 ELSE IF MatchesAt(text, piece, i) THEN 1 + zero[i + m] ELSE zero[i + 1]
      <4> SUFFICES ASSUME NEW i \in D, ~(i + m > n + 1) PROVE zero[i] = zero[i + 1]
        BY <2>1
      <4> QED
        BY <2>1
    <3> QED
      BY <3>1
  <2>3. Count(text, piece) = (CHOOSE f : Counts(f))[1]
    BY DEF Count
  <2>4. PICK f : Counts(f) /\ f[1] = 1
    <3> HIDE DEF Counts
    <3> QED
      BY <2>2, <2>3
  <2>5. \A i \in D : f[i] = IF i + m > n + 1 THEN 0 ELSE f[i + 1]
    BY <2>1, <2>4
  <2> DEFINE good == {k \in Nat : \A i \in D : i + k >= n + m + 1 => f[i] = 0}
  <2> HIDE DEF n, m
  <2>6. 0 \in good
    <3> SUFFICES ASSUME NEW i \in D, i + 0 >= n + m + 1 PROVE f[i] = 0
      OBVIOUS
    <3>1. i + m > n + 1
      BY <1>1
    <3> QED
      BY <2>5, <3>1
  <2>7. ASSUME NEW k \in Nat, k \in good PROVE k + 1 \in good
    <3> SUFFICES ASSUME NEW i \in D, i + (k + 1) >= n + m + 1 PROVE f[i] = 0
      OBVIOUS
    <3>1. CASE i + m > n + 1
      BY <2>5, <3>1
    <3>2. CASE ~(i + m > n + 1)
      <4>1. i + 1 \in D /\ (i + 1) + k >= n + m + 1
        BY <1>1, <3>2
      <4> QED
        BY <2>5, <2>7, <3>2, <4>1
    <3> QED
      BY <3>1, <3>2
  <2>8. Nat \subseteq good
    <3> HIDE DEF good
    <3> QED
      BY <2>6, <2>7, Induction
  <2>9. n + m + 1 \in Nat /\ 1 \in D /\ 1 + (n + m + 1) >= n + m + 1
    BY <1>1
  <2>10. f[1] = 0
    BY <2>8, <2>9
  <2> QED
    BY <2>4, <2>10
<1>3. At \in SUBSET Nat /\ Index(text, piece) = Min(At)
  BY <1>1 DEF Index
<1> QED
  BY <1>2, <1>3, LeastOf

-----------------------------------------------------------------------------
(* Regions in order. *)

\* Every region of rs has a place of its own among those of q.
Sorts(rs, q, n) ==
    /\ DOMAIN q = 1..n
    /\ \A k \in 1..n : \E i \in 1..n : q[k] = rs[i]
    /\ \A i \in 1..n : \E k \in 1..n : q[k] = rs[i]
    /\ \A i, j \in 1..n : i # j => \E k, l \in 1..n : k # l /\ q[k] = rs[i] /\ q[l] = rs[j]

LEMMA Sorted ==
    ASSUME NEW n \in Nat, NEW rs, DOMAIN rs = 1..n, \A i \in 1..n : rs[i].at \in Nat
    PROVE  Sorts(rs, InOrder(rs), n)
<1> DEFINE D == 1..n
           First(i) == {j \in D : Before(rs, j, i)}
           rank == [i \in D |-> Rank(rs, i)]
<1>1. IsFiniteSet(D) /\ Cardinality(D) = n
  <2>1. 1 \in Int /\ n \in Int /\ IsFiniteSet(1..n)
    BY FS_Interval
  <2> QED
    BY <2>1, FS_Interval
<1>2. ASSUME NEW i \in D
      PROVE  IsFiniteSet(First(i)) /\ Cardinality(First(i)) \in Nat /\ Cardinality(First(i)) < n
  <2>1. First(i) \in SUBSET D /\ i \in D /\ i \notin First(i)
    <3>1. rs[i].at \in Nat /\ i \in Nat
      OBVIOUS
    <3>2. ~Before(rs, i, i)
      BY <3>1 DEF Before
    <3> QED
      BY <3>2
  <2> HIDE DEF D, First
  <2>2. IsFiniteSet(First(i)) /\ Cardinality(First(i)) <= n /\ Cardinality(First(i)) # n
    BY <1>1, <2>1, FS_Subset
  <2>3. Cardinality(First(i)) \in Nat
    BY <2>2, FS_CardinalityType
  <2> QED
    BY <2>2, <2>3
<1>3. \A i \in D : Rank(rs, i) = 1 + Cardinality(First(i))
  BY DEF Rank
<1>4. ASSUME NEW i \in D, NEW j \in D, Before(rs, i, j) PROVE Rank(rs, i) # Rank(rs, j)
  <2>1. First(i) \in SUBSET First(j) /\ i \in First(j) /\ i \notin First(i)
    <3>1. \A k \in D : Before(rs, k, i) => Before(rs, k, j)
      <4> SUFFICES ASSUME NEW k \in D, Before(rs, k, i) PROVE Before(rs, k, j)
        OBVIOUS
      <4> DEFINE x == rs[k].at
                 y == rs[i].at
                 z == rs[j].at
      <4>1. x \in Nat /\ y \in Nat /\ z \in Nat /\ i \in Nat /\ j \in Nat /\ k \in Nat
        OBVIOUS
      <4>2. (x < y \/ (x = y /\ k < i)) /\ (y < z \/ (y = z /\ i < j))
        BY <1>4 DEF Before
      <4> HIDE DEF x, y, z
      <4>3. x < z \/ (x = z /\ k < j)
        BY <4>1, <4>2
      <4> QED
        BY <4>3 DEF Before, x, z
    <3>2. ~Before(rs, i, i)
      <4>1. rs[i].at \in Nat /\ i \in Nat
        OBVIOUS
      <4> QED
        BY <4>1 DEF Before
    <3> QED
      BY <1>4, <3>1, <3>2
  <2> HIDE DEF First, D
  <2>2. Cardinality(First(i)) # Cardinality(First(j))
    BY <1>2, <2>1, FS_Subset
  <2> QED
    BY <1>2, <1>3, <2>2
<1>5. ASSUME NEW i \in D, NEW j \in D, i # j PROVE Rank(rs, i) # Rank(rs, j)
  <2>1. rs[i].at \in Nat /\ rs[j].at \in Nat /\ i \in Nat /\ j \in Nat
    OBVIOUS
  <2>2. Before(rs, i, j) \/ Before(rs, j, i)
    BY <1>5, <2>1 DEF Before
  <2> QED
    BY <1>4, <2>2
<1>6. rank \in Surjection(D, D)
  <2>1. rank \in [D -> D]
    <3>1. ASSUME NEW i \in D PROVE Rank(rs, i) \in D
      <4> DEFINE m == Cardinality(First(i))
      <4>1. Rank(rs, i) = 1 + m
        BY <1>3
      <4>2. m \in Nat /\ m < n
        BY <1>2
      <4> HIDE DEF m
      <4> QED
        BY <4>1, <4>2
    <3> QED
      BY <3>1
  <2>2. IsInjective(rank)
    BY <1>5, <2>1 DEF IsInjective
  <2>3. rank \in Injection(D, D)
    BY <2>1, <2>2 DEF Injection
  <2> HIDE DEF rank, D
  <2> QED
    BY <1>1, <2>3, FS_Injection
<1>7. \A k \in D : \E i \in D : Rank(rs, i) = k
  BY <1>6 DEF Surjection
<1> DEFINE Place(k) == CHOOSE i \in D : Rank(rs, i) = k
<1>8. \A k \in D : Place(k) \in D /\ Rank(rs, Place(k)) = k
  BY <1>7
<1>9. DOMAIN InOrder(rs) = D /\ \A k \in D : InOrder(rs)[k] = rs[Place(k)]
  BY DEF InOrder
<1>10. ASSUME NEW i \in D PROVE Rank(rs, i) \in D /\ InOrder(rs)[Rank(rs, i)] = rs[i]
  <2>1. Rank(rs, i) \in D
    <3> HIDE DEF First
    <3> QED
      BY <1>2, <1>3
  <2> HIDE DEF Place, D
  <2>2. Place(Rank(rs, i)) = i
    BY <1>5, <1>8, <2>1
  <2> QED
    BY <1>9, <2>1, <2>2
<1> HIDE DEF Place, D
<1>11. \A k \in D : \E i \in D : InOrder(rs)[k] = rs[i]
  BY <1>8, <1>9
<1>12. ASSUME NEW i \in D, NEW j \in D, i # j
       PROVE  \E k, l \in D : k # l /\ InOrder(rs)[k] = rs[i] /\ InOrder(rs)[l] = rs[j]
  BY <1>5, <1>10, <1>12
<1>13. \A i \in D : \E k \in D : InOrder(rs)[k] = rs[i]
  BY <1>10
<1> QED
  BY <1>9, <1>11, <1>12, <1>13 DEF D, Sorts

-----------------------------------------------------------------------------
(* The splices. *)

\* Where the parts of a concatenation are.
LEMMA Cut ==
    ASSUME NEW S, NEW u \in Seq(S), NEW v \in Seq(S)
    PROVE  SubSeq(u \o v, 1, Len(u)) = u /\ SubSeq(u \o v, Len(u) + 1, Len(u \o v)) = v
<1>1. Len(u) \in Nat /\ Len(u) \in 0..Len(u) /\ Len(u) + 1 \in 1..(Len(u) + 1)
  BY LenProperties
<1>2. SubSeq(u \o v, 1, Len(u)) = u
  BY <1>1, HeadConcat, SubSeqFull, Zenon
<1>3. SubSeq(u \o v, Len(u) + 1, Len(u \o v)) = SubSeq(u, Len(u) + 1, Len(u)) \o v
  BY <1>1, TailConcat, Zenon
<1>4. SubSeq(u, Len(u) + 1, Len(u)) = << >>
  BY <1>1, SubSeqEmpty
<1> QED
  BY <1>2, <1>3, <1>4, ConcatEmptySeq

\* The text up to c, and from there on what P makes of it.
Mixed(text, P, c) == SubSeq(text, 1, c - 1) \o FlattenSeq(SubSeq(P, c, Len(text)))

\* What P makes of the text between the start of the region r and c.
Covers(S, P, text, r, c) ==
    /\ text \in Seq(S) /\ P \in Seq(Seq(S)) /\ Len(P) = Len(text)
    /\ c \in 1..(Len(text) + 1) /\ r.new \in Seq(S)
    /\ r.at \in 1..Len(text) /\ r.size \in Nat \ {0} /\ r.at + r.size <= c /\ P[r.at] = r.new
    /\ \A p \in (r.at + 1)..(r.at + r.size - 1) : P[p] = << >>
    /\ \A p \in (r.at + r.size)..(c - 1) : P[p] = <<text[p]>>

LEMMA SpliceStep ==
    ASSUME NEW S, NEW text, NEW P, NEW c, NEW r, Covers(S, P, text, r, c)
    PROVE  Splice(Mixed(text, P, c), r) = Mixed(text, P, r.at)
<1> DEFINE n == Len(text)
           a == r.at
           e == r.at + r.size
           F == FlattenSeq(SubSeq(P, c, n))
           U == SubSeq(text, 1, a - 1)
           X == SubSeq(text, a, e - 1)
           Y == SubSeq(text, e, c - 1)
           M == Mixed(text, P, c)
<1>15. P \in Seq(Seq(S))
  BY DEF Covers
<1>16. text \in Seq(S)
  BY DEF Covers
<1>17. r.new \in Seq(S)
  BY DEF Covers
<1>1. /\ n \in Nat /\ n = Len(text) /\ n = Len(P) /\ c \in 1..(n + 1) /\ a \in 1..n /\ e \in (a + 1)..c
      /\ P[a] = r.new /\ (\A p \in (a + 1)..(e - 1) : P[p] = << >>)
      /\ (\A p \in e..(c - 1) : P[p] = <<text[p]>>)
  <2>1. n \in Nat /\ n = Len(text) /\ n = Len(P) /\ c \in 1..(n + 1) /\ r.at \in 1..n
        /\ r.size \in Nat \ {0} /\ r.at + r.size <= c /\ P[a] = r.new
        /\ (\A p \in (a + 1)..(e - 1) : P[p] = << >>) /\ (\A p \in e..(c - 1) : P[p] = <<text[p]>>)
    BY LenProperties DEF Covers
  <2> HIDE DEF n
  <2>2. e \in (a + 1)..c
    BY <2>1
  <2> QED
    BY <2>1, <2>2
<1>2. M = SubSeq(text, 1, c - 1) \o F
  BY DEF Mixed
<1>3. Splice(M, r) = SubSeq(M, 1, a - 1) \o r.new \o SubSeq(M, e, Len(M))
  BY DEF Splice
<1>4. Mixed(text, P, a) = U \o FlattenSeq(SubSeq(P, a, n))
  BY DEF Mixed
<1> HIDE DEF M, n, a, e
<1>5. U \in Seq(S) /\ Len(U) = a - 1
  <2>2. 1 \in 1..(n + 1) /\ a - 1 \in (1 - 1)..n /\ (a - 1) - 1 + 1 = a - 1
    BY <1>1
  <2>1. 1 \in 1..(Len(text) + 1) /\ a - 1 \in (1 - 1)..Len(text) /\ (a - 1) - 1 + 1 = a - 1
    BY <1>1, <2>2, Zenon
  <2> QED
    BY <1>16, <2>1, SubSeqType
<1>6. X \in Seq(S) /\ Len(X) = e - a
  <2>1. a \in 1..(Len(text) + 1) /\ e - 1 \in (a - 1)..Len(text) /\ (e - 1) - a + 1 = e - a
    BY <1>1
  <2> QED
    BY <1>16, <2>1, SubSeqType
<1>7. Y \in Seq(S)
  <2>1. e \in 1..(Len(text) + 1) /\ c - 1 \in (e - 1)..Len(text)
    BY <1>1
  <2> QED
    BY <1>16, <2>1, SubSeqType
<1>8. F \in Seq(S)
  <2>1. c \in 1..(Len(P) + 1) /\ n \in (c - 1)..Len(P)
    BY <1>1
  <2>2. SubSeq(P, c, n) \in Seq(Seq(S))
    BY <1>15, <2>1, SubSeqType
  <2> QED
    BY <2>2, FlatType
<1>9. SubSeq(text, 1, c - 1) = U \o (X \o Y)
  <2>1. /\ 1 \in 1..(Len(text) + 1) /\ a - 1 \in (1 - 1)..Len(text) /\ c - 1 \in (a - 1)..Len(text)
        /\ (a - 1) + 1 = a /\ (e - 1) + 1 = e
        /\ a \in 1..(Len(text) + 1) /\ e - 1 \in (a - 1)..Len(text) /\ c - 1 \in (e - 1)..Len(text)
    BY <1>1
  <2>2. X \o Y = SubSeq(text, a, c - 1)
    <3>1. SubSeq(text, a, e - 1) \o SubSeq(text, (e - 1) + 1, c - 1) = SubSeq(text, a, c - 1)
      BY <1>16, <2>1, ConcatAdjacentSubSeq, Zenon
    <3> QED
      BY <2>1, <3>1
  <2>3. SubSeq(text, 1, a - 1) \o SubSeq(text, (a - 1) + 1, c - 1) = SubSeq(text, 1, c - 1)
    BY <1>16, <2>1, ConcatAdjacentSubSeq, Zenon
  <2> QED
    BY <2>1, <2>2, <2>3
<1>10. /\ FlattenSeq(SubSeq(P, a, n)) = r.new \o (Y \o F)
  <2>1. FlattenSeq(SubSeq(P, e, n)) = Y \o F
    <3>1. e \in 1..(Len(P) + 1) /\ c - 1 \in (e - 1)..Len(P) /\ n \in (c - 1)..Len(P) /\ (c - 1) + 1 = c
      BY <1>1
    <3>2. FlattenSeq(SubSeq(P, e, n)) =
            FlattenSeq(SubSeq(P, e, c - 1)) \o FlattenSeq(SubSeq(P, (c - 1) + 1, n))
      BY <1>15, <3>1, FlatSplit, Zenon
    <3>4. (\A p \in e..(c - 1) : P[p] = <<text[p]>>) /\ Len(P) = Len(text)
      BY <1>1
    <3>3. FlattenSeq(SubSeq(P, e, c - 1)) = Y
      BY <1>15, <1>16, <3>1, <3>4, FlatSingles
    <3> QED
      BY <3>1, <3>2, <3>3
  <2>2. FlattenSeq(SubSeq(P, a + 1, n)) = Y \o F
    <3>1. /\ a + 1 \in 1..(Len(P) + 1) /\ e - 1 \in ((a + 1) - 1)..Len(P) /\ n \in (e - 1)..Len(P)
          /\ (e - 1) + 1 = e
      BY <1>1
    <3>2. FlattenSeq(SubSeq(P, a + 1, n)) =
            FlattenSeq(SubSeq(P, a + 1, e - 1)) \o FlattenSeq(SubSeq(P, (e - 1) + 1, n))
      BY <1>15, <3>1, FlatSplit, Zenon
    <3>3. FlattenSeq(SubSeq(P, a + 1, e - 1)) = << >>
      BY <1>1, <1>15, <3>1, FlatNothing
    <3>4. Y \o F \in Seq(S)
      BY <1>7, <1>8, ConcatProperties
    <3> QED
      BY <2>1, <3>1, <3>2, <3>3, <3>4, ConcatEmptySeq
  <2>3. FlattenSeq(SubSeq(P, a, a)) = r.new
    <3>1. a \in 1..Len(P) /\ a \in a..Len(P) /\ a \in Int /\ a - 1 \in Int /\ a - 1 < a
      BY <1>1
    <3>2. SubSeq(P, a, a) = SubSeq(P, a, a - 1) \o <<P[a]>>
      BY <1>15, <3>1, SubSeqRecursiveSecond
    <3>3. SubSeq(P, a, a - 1) = << >>
      BY <3>1, SubSeqEmpty
    <3>4. P[a] \in Seq(S) /\ <<P[a]>> \in Seq(Seq(S)) /\ FlattenSeq(<<P[a]>>) = P[a]
      <4>1. P[a] \in Seq(S)
        BY <1>15, <3>1, ElementOfSeq
      <4> QED
        BY <4>1, OneOf, FlatSingle, Zenon
    <3>5. << >> \o <<P[a]>> = <<P[a]>>
      BY <3>4, ConcatEmptySeq
    <3> QED
      BY <1>1, <3>2, <3>3, <3>4, <3>5
  <2>4. a \in 1..(Len(P) + 1) /\ a \in (a - 1)..Len(P) /\ n \in a..Len(P)
    BY <1>1
  <2>5. FlattenSeq(SubSeq(P, a, n)) = FlattenSeq(SubSeq(P, a, a)) \o FlattenSeq(SubSeq(P, a + 1, n))
    BY <1>15, <2>4, FlatSplit, Zenon
  <2>6. FlattenSeq(SubSeq(P, a, n)) = r.new \o (Y \o F)
    BY <2>2, <2>3, <2>5, Zenon
  <2> QED
    BY <2>6, Zenon
<1> HIDE DEF U, X, Y, F
<1>11. M = U \o (X \o (Y \o F)) /\ M = (U \o X) \o (Y \o F)
  <2>1. X \o Y \in Seq(S) /\ Y \o F \in Seq(S)
    BY <1>6, <1>7, <1>8, ConcatProperties
  <2>6. U \in Seq(S)
    BY <1>5
  <2>7. X \in Seq(S)
    BY <1>6
  <2>8. X \o Y \in Seq(S)
    BY <2>1
  <2>9. Y \o F \in Seq(S)
    BY <2>1
  <2>3. (U \o (X \o Y)) \o F = U \o ((X \o Y) \o F)
    BY <1>8, <2>6, <2>8, ConcatAssociative, SMTT(30)
  <2>4. (X \o Y) \o F = X \o (Y \o F)
    BY <1>7, <1>8, <2>7, ConcatAssociative, SMTT(30)
  <2>5. (U \o X) \o (Y \o F) = U \o (X \o (Y \o F))
    <3> DEFINE W == Y \o F
    <3>1. W \in Seq(S)
      BY <2>9
    <3> HIDE DEF W
    <3>2. (U \o X) \o W = U \o (X \o W)
      BY <2>6, <2>7, <3>1, ConcatAssociative, SMTT(30)
    <3> QED
      BY <3>2 DEF W
  <2>2. (U \o (X \o Y)) \o F = U \o ((X \o Y) \o F) /\ (X \o Y) \o F = X \o (Y \o F)
        /\ U \o (X \o (Y \o F)) = (U \o X) \o (Y \o F)
    BY <2>3, <2>4, <2>5, Zenon
  <2>10. M = (U \o (X \o Y)) \o F
    BY <1>2, <1>9, Zenon
  <2> HIDE DEF M
  <2> QED
    BY <2>2, <2>10, Zenon
<1>12. SubSeq(M, 1, a - 1) = U
  <2>1. X \o (Y \o F) \in Seq(S)
    BY <1>6, <1>7, <1>8, ConcatProperties
  <2> QED
    BY <1>5, <1>11, <2>1, Cut
<1>13. SubSeq(M, e, Len(M)) = Y \o F
  <2>1. U \o X \in Seq(S) /\ Y \o F \in Seq(S) /\ Len(U \o X) = Len(U) + Len(X)
    BY <1>5, <1>6, <1>7, <1>8, ConcatProperties
  <2>2. Len(U \o X) + 1 = e
    BY <1>1, <1>5, <1>6, <2>1
  <2>3. SubSeq((U \o X) \o (Y \o F), Len(U \o X) + 1, Len((U \o X) \o (Y \o F))) = Y \o F
    BY <2>1, Cut
  <2> QED
    BY <1>11, <2>2, <2>3, Zenon
<1>14. (U \o r.new) \o (Y \o F) = U \o (r.new \o (Y \o F))
  <2>1. Y \o F \in Seq(S)
    BY <1>7, <1>8, ConcatProperties
  <2>2. U \in Seq(S)
    BY <1>5
  <2> DEFINE W == Y \o F
             N == r.new
  <2>3. W \in Seq(S)
    BY <2>1
  <2>4. N \in Seq(S)
    BY <1>17
  <2> HIDE DEF W, N
  <2>5. (U \o N) \o W = U \o (N \o W)
    BY <2>2, <2>3, <2>4, ConcatAssociative, SMTT(30)
  <2> QED
    BY <2>5 DEF W, N
<1> QED
  BY <1>3, <1>4, <1>10, <1>12, <1>13, <1>14 DEF M, a

\* Where the text is P's after m splices.
From(text, q, m) == IF m = 0 THEN Len(text) + 1 ELSE q[Len(q) + 1 - m].at

\* The splices, from the last one to the first, make of the text what P says.
LEMMA Spliced ==
    ASSUME NEW S, NEW text, text \in Seq(S), NEW P, P \in Seq(Seq(S)), Len(P) = Len(text),
           NEW q, Len(q) \in Nat,
           \A m \in 1..Len(q) : Covers(S, P, text, q[Len(q) + 1 - m], From(text, q, m - 1)),
           From(text, q, Len(q)) \in 1..(Len(text) + 1),
           \A p \in 1..(From(text, q, Len(q)) - 1) : P[p] = <<text[p]>>
    PROVE  ApplyEdits(text, q) = FlattenSeq(P)
<1> DEFINE n == Len(q)
           L == Len(text)
           Splices(f) == f = [m \in 0..n |-> IF m = 0 THEN text ELSE Splice(f[m - 1], q[n + 1 - m])]
           h == [m \in 0..n |-> Mixed(text, P, From(text, q, m))]
           end == From(text, q, n)
<1>1. /\ n \in Nat /\ L \in Nat /\ L = Len(text) /\ L = Len(P) /\ end \in 1..(L + 1)
      /\ \A m \in 1..n : Covers(S, P, text, q[n + 1 - m], From(text, q, m - 1))
      /\ \A p \in 1..(end - 1) : P[p] = <<text[p]>>
  BY LenProperties
<1>2. Mixed(text, P, L + 1) = text
  <2>1. Mixed(text, P, L + 1) = SubSeq(text, 1, (L + 1) - 1) \o FlattenSeq(SubSeq(P, L + 1, L))
    BY DEF Mixed
  <2>2. L + 1 \in Int /\ L \in Int /\ L < L + 1 /\ (L + 1) - 1 = L
    BY <1>1
  <2>3. SubSeq(P, L + 1, L) = << >>
    BY <2>2, SubSeqEmpty
  <2>4. SubSeq(text, 1, L) = text
    BY SubSeqFull
  <2>5. text \o << >> = text
    BY ConcatEmptySeq
  <2> QED
    BY <2>1, <2>2, <2>3, <2>4, <2>5, FlatEmpty
<1>3. Mixed(text, P, end) = FlattenSeq(P)
  <2> HIDE DEF end, L
  <2>1. /\ 1 \in 1..(Len(P) + 1) /\ end - 1 \in (1 - 1)..Len(P) /\ L \in (end - 1)..Len(P)
        /\ (end - 1) + 1 = end
    BY <1>1
  <2>2. FlattenSeq(SubSeq(P, 1, L)) =
          FlattenSeq(SubSeq(P, 1, end - 1)) \o FlattenSeq(SubSeq(P, (end - 1) + 1, L))
    BY <2>1, FlatSplit, Zenon
  <2>3. FlattenSeq(SubSeq(P, 1, end - 1)) = SubSeq(text, 1, end - 1)
    BY <1>1, <2>1, FlatSingles
  <2>4. SubSeq(P, 1, L) = P
    BY <1>1, SubSeqFull
  <2> QED
    BY <2>1, <2>2, <2>3, <2>4 DEF Mixed, L
<1>4. ASSUME NEW m \in 1..n
      PROVE  Splice(Mixed(text, P, From(text, q, m - 1)), q[n + 1 - m]) = Mixed(text, P, From(text, q, m))
  <2>1. Covers(S, P, text, q[n + 1 - m], From(text, q, m - 1))
    BY <1>1
  <2>2. From(text, q, m) = q[n + 1 - m].at
    BY DEF From
  <2> QED
    BY <2>1, <2>2, SpliceStep
<1> HIDE DEF n, L, end
<1>5. Splices(h)
  <2>1. h[0] = text
    <3>1. From(text, q, 0) = L + 1 /\ 0 \in 0..n
      BY <1>1 DEF From, L
    <3> QED
      BY <1>2, <3>1
  <2>2. ASSUME NEW m \in 0..n
        PROVE  h[m] = IF m = 0 THEN text ELSE Splice(h[m - 1], q[n + 1 - m])
    <3>1. CASE m = 0
      BY <2>1, <3>1
    <3>2. CASE m # 0
      <4>1. m \in 1..n /\ m - 1 \in 0..n
        BY <1>1, <3>2
      <4> QED
        BY <1>4, <3>2, <4>1
    <3> QED
      BY <3>1, <3>2
  <2> QED
    BY <2>2
<1>6. PICK f : Splices(f) /\ ApplyEdits(text, q) = f[n]
  <2>1. ApplyEdits(text, q) = (CHOOSE f : Splices(f))[n]
    BY DEF ApplyEdits, n
  <2> HIDE DEF Splices, h
  <2> QED
    BY <1>5, <2>1
<1>7. \A m \in 0..n : f[m] = IF m = 0 THEN text ELSE Splice(f[m - 1], q[n + 1 - m])
  BY <1>6
<1>8. \A m \in 0..n : h[m] = IF m = 0 THEN text ELSE Splice(h[m - 1], q[n + 1 - m])
  BY <1>5
<1>9. h[n] = FlattenSeq(P)
  BY <1>1, <1>3 DEF end
<1> HIDE DEF h
<1> DEFINE same == {m \in Nat : m \in 0..n => f[m] = h[m]}
<1>10. 0 \in same
  BY <1>7, <1>8
<1>11. ASSUME NEW m \in Nat, m \in same PROVE m + 1 \in same
  <2> SUFFICES ASSUME m + 1 \in 0..n PROVE f[m + 1] = h[m + 1]
    OBVIOUS
  <2> DEFINE k == m + 1
  <2>1. m \in 0..n /\ k \in 0..n /\ k # 0 /\ k - 1 = m /\ f[m] = h[m]
    BY <1>1, <1>11
  <2> HIDE DEF k
  <2>2. f[k] = h[k]
    BY <1>7, <1>8, <2>1
  <2> QED
    BY <2>2 DEF k
<1>12. Nat \subseteq same
  <2> HIDE DEF same
  <2> QED
    BY <1>10, <1>11, Induction
<1>13. f[n] = h[n]
  <2>1. n \in Nat /\ n \in 0..n
    BY <1>1
  <2> QED
    BY <1>12, <2>1
<1> QED
  BY <1>6, <1>9, <1>13

\* Regions of which each ends before the next one starts.
LEMMA ApartAll ==
    ASSUME NEW q, Len(q) \in Nat, Apart(q),
           \A k \in 1..Len(q) : q[k].at \in Nat /\ q[k].size \in Nat
    PROVE  \A j, k \in 1..Len(q) : j < k => q[j].at + q[j].size <= q[k].at
<1> DEFINE n == Len(q)
           good == {d \in Nat : \A j \in 1..n :
                      j + d + 1 <= n => q[j].at + q[j].size <= q[j + d + 1].at}
<1>1. n \in Nat /\ (\A k \in 1..n : q[k].at \in Nat /\ q[k].size \in Nat)
      /\ \A i \in 2..n : q[i - 1].at + q[i - 1].size <= q[i].at
  BY DEF Apart
<1> HIDE DEF n
<1>2. 0 \in good
  <2> SUFFICES ASSUME NEW j \in 1..n, j + 0 + 1 <= n PROVE q[j].at + q[j].size <= q[j + 0 + 1].at
    OBVIOUS
  <2>1. j + 0 + 1 \in 2..n /\ (j + 0 + 1) - 1 = j
    BY <1>1
  <2> QED
    BY <1>1, <2>1
<1>3. ASSUME NEW d \in Nat, d \in good PROVE d + 1 \in good
  <2> SUFFICES ASSUME NEW j \in 1..n, j + (d + 1) + 1 <= n
               PROVE  q[j].at + q[j].size <= q[j + (d + 1) + 1].at
    OBVIOUS
  <2> DEFINE k == j + d + 1
             l == j + (d + 1) + 1
  <2>1. k \in 1..n /\ l \in 2..n /\ l \in 1..n /\ l - 1 = k /\ j + d + 1 <= n
    BY <1>1
  <2>2. q[j].at + q[j].size <= q[k].at
    BY <1>3, <2>1
  <2> HIDE DEF k, l
  <2>3. q[k].at + q[k].size <= q[l].at
    BY <1>1, <2>1
  <2>4. q[j].at \in Nat /\ q[j].size \in Nat /\ q[k].at \in Nat /\ q[k].size \in Nat /\ q[l].at \in Nat
    BY <1>1, <2>1
  <2>5. q[j].at + q[j].size <= q[l].at
    <3> DEFINE A == q[j].at + q[j].size
               B == q[k].at
               C == q[k].size
               D == q[l].at
    <3>1. A <= B /\ B + C <= D
      BY <2>2, <2>3, Zenon
    <3>3. B \in Nat /\ C \in Nat /\ D \in Nat
      BY <2>4, Zenon
    <3>4. A \in Nat
      BY <2>4, NatSum, Zenon
    <3> HIDE DEF A, B, C, D
    <3>2. A <= D
      BY <3>1, <3>3, <3>4
    <3> QED
      BY <3>2, Zenon DEF A, D
  <2> QED
    BY <2>5 DEF l
<1>4. Nat \subseteq good
  <2> HIDE DEF good
  <2> QED
    BY <1>2, <1>3, Induction
<1>5. ASSUME NEW j \in 1..n, NEW k \in 1..n, j < k PROVE q[j].at + q[j].size <= q[k].at
  <2>1. k - (j + 1) \in Nat /\ j + (k - (j + 1)) + 1 = k /\ k <= n
    BY <1>1, <1>5
  <2> QED
    BY <1>4, <2>1
<1> QED
  BY <1>5 DEF n

\* What P makes of each region, and of what is in none.
Places(S, P, text, q) ==
    /\ \A k \in 1..Len(q) :
         /\ q[k].at \in 1..Len(text) /\ q[k].size \in Nat \ {0} /\ q[k].new \in Seq(S)
         /\ q[k].at + q[k].size <= Len(text) + 1 /\ P[q[k].at] = q[k].new
         /\ \A p \in (q[k].at + 1)..(q[k].at + q[k].size - 1) : P[p] = << >>
    /\ \A p \in 1..Len(text) :
         (\A k \in 1..Len(q) : p \notin q[k].at..(q[k].at + q[k].size - 1)) => P[p] = <<text[p]>>

LEMMA SplicedPlaces ==
    ASSUME NEW S, NEW text, text \in Seq(S), NEW P, P \in Seq(Seq(S)), Len(P) = Len(text),
           NEW q, Len(q) \in Nat, Apart(q), Places(S, P, text, q)
    PROVE  ApplyEdits(text, q) = FlattenSeq(P)
<1> DEFINE n == Len(q)
           L == Len(text)
           E(k) == q[k].at + q[k].size
<1>1. /\ n \in Nat /\ L \in Nat /\ L = Len(text)
      /\ \A k \in 1..n : q[k].at \in 1..L /\ q[k].size \in Nat \ {0} /\ E(k) \in 1..(L + 1)
                         /\ q[k].new \in Seq(S) /\ P[q[k].at] = q[k].new /\ E(k) = q[k].at + q[k].size
  <2>1. n \in Nat /\ L \in Nat
    BY LenProperties
  <2>2. ASSUME NEW k \in 1..n
        PROVE  q[k].at \in 1..L /\ q[k].size \in Nat \ {0} /\ E(k) \in 1..(L + 1)
               /\ q[k].new \in Seq(S) /\ P[q[k].at] = q[k].new
    <3>1. q[k].at \in 1..L /\ q[k].size \in Nat \ {0} /\ E(k) <= L + 1
          /\ q[k].new \in Seq(S) /\ P[q[k].at] = q[k].new
      BY DEF Places
    <3> HIDE DEF L
    <3> QED
      BY <2>1, <3>1
  <2> QED
    BY <2>1, <2>2
<1>2. \A j, k \in 1..n : j < k => E(j) <= q[k].at
  <2>1. \A k \in 1..n : q[k].at \in Nat /\ q[k].size \in Nat
    BY <1>1
  <2> QED
    BY <1>1, <2>1, ApartAll
<1>3. \A k \in 1..n : \A p \in (q[k].at + 1)..(E(k) - 1) : P[p] = << >>
  BY DEF Places
<1>4. \A p \in 1..L : (\A k \in 1..n : p \notin q[k].at..(E(k) - 1)) => P[p] = <<text[p]>>
  <2> SUFFICES ASSUME NEW p \in 1..L, \A k \in 1..n : p \notin q[k].at..(E(k) - 1)
               PROVE  P[p] = <<text[p]>>
    BY Zenon
  <2>1. ASSUME NEW k \in 1..Len(q) PROVE p \notin q[k].at..(q[k].at + q[k].size - 1)
    <3>1. q[k].at \in Int /\ q[k].size \in Int
      BY <1>1
    <3>3. \A x, y \in Int : (x + y) - 1 = x + y - 1
      OBVIOUS
    <3>2. (q[k].at + q[k].size) - 1 = q[k].at + q[k].size - 1
      BY <3>1, <3>3, Zenon
    <3> QED
      BY <3>2
  <2> QED
    BY <2>1 DEF Places
<1>8. \A k \in 1..n : q[k].at \in Nat /\ q[k].size \in Nat /\ E(k) \in Nat
  BY <1>1
<1> HIDE DEF E, n, L
<1>5. ASSUME NEW m \in 1..n
      PROVE  Covers(S, P, text, q[n + 1 - m], From(text, q, m - 1))
  <2> DEFINE k == n + 1 - m
             c == From(text, q, m - 1)
  <2>1. k \in 1..n
    BY <1>1
  <2>2. c \in 1..(L + 1) /\ E(k) <= c /\ \A l \in 1..n : l > k => c <= q[l].at
    <3>1. CASE m = 1
      <4>1. c = L + 1 /\ k = n
        BY <1>1, <3>1 DEF From, L
      <4> QED
        BY <1>1, <2>1, <4>1
    <3>2. CASE m # 1
      <4>1. n + 1 - (m - 1) = k + 1 /\ m - 1 # 0 /\ k + 1 \in 1..n /\ k < k + 1
        BY <1>1, <3>2
      <4>2. c = q[k + 1].at
        BY <4>1 DEF From, n
      <4> HIDE DEF k, c
      <4>3. c \in 1..(L + 1) /\ E(k) <= c
        BY <1>1, <1>2, <2>1, <4>1, <4>2
      <4>4. ASSUME NEW l \in 1..n, l > k PROVE c <= q[l].at
        <5>1. l = k + 1 \/ k + 1 < l
          BY <1>1, <2>1, <4>4
        <5>2. CASE l = k + 1
          BY <1>1, <4>2, <5>2
        <5>3. CASE k + 1 < l
          <6>1. E(k + 1) <= q[l].at /\ E(k + 1) = q[k + 1].at + q[k + 1].size
            BY <1>1, <1>2, <4>1, <5>3
          <6>2. q[k + 1].at \in Nat /\ q[k + 1].size \in Nat /\ q[l].at \in Nat
            BY <1>8, <4>1
          <6>3. q[k + 1].at <= q[k + 1].at + q[k + 1].size
            BY <6>2, NatSum, Zenon
          <6>4. q[k + 1].at + q[k + 1].size \in Nat
            BY <6>2, NatSum, Zenon
          <6> HIDE DEF E, n
          <6>5. q[k + 1].at + q[k + 1].size <= q[l].at
            BY <6>1, Zenon
          <6>7. q[k + 1].at <= q[l].at
            BY <6>2, <6>3, <6>4, <6>5, NatChain, Zenon
          <6> QED
            BY <4>2, <6>7, Zenon
        <5> QED
          BY <5>1, <5>2, <5>3
      <4> QED
        BY <4>3, <4>4
    <3> QED
      BY <3>1, <3>2
  <2> HIDE DEF k, c
  <2>3. ASSUME NEW p \in E(k)..(c - 1) PROVE P[p] = <<text[p]>>
    <3>1. p \in 1..L
      BY <1>1, <2>1, <2>2
    <3>2. ASSUME NEW l \in 1..n PROVE p \notin q[l].at..(E(l) - 1)
      <4>1. CASE l = k
        BY <1>1, <2>1, <4>1
      <4>2. CASE l < k
        <5>1. E(l) <= q[k].at
          BY <1>2, <2>1, <4>2
        <5>2. q[k].at \in Nat /\ q[k].size \in Nat /\ E(l) \in Nat /\ q[l].at \in Nat
              /\ E(k) = q[k].at + q[k].size
          BY <1>1, <1>8, <2>1, Zenon
        <5>3. q[k].at <= E(k) /\ E(k) \in Nat
          BY <5>2, NatSum, Zenon
        <5> HIDE DEF E
        <5>4. E(l) <= E(k)
          BY <5>1, <5>2, <5>3, NatChain, Zenon
        <5> QED
          BY <5>2, <5>3, <5>4
      <4>3. CASE l > k
        <5>1. c <= q[l].at
          BY <2>2, <4>3, Zenon
        <5>2. q[l].at \in Nat /\ E(l) \in Nat /\ E(k) \in Nat
          BY <1>8, <2>1, Zenon
        <5>3. c \in Nat
          BY <1>1, <2>2
        <5> QED
          BY <5>1, <5>2, <5>3
      <4> QED
        BY <1>1, <2>1, <4>1, <4>2, <4>3
    <3> QED
      BY <1>4, <3>1, <3>2
  <2>4. /\ q[k].at \in 1..Len(text) /\ q[k].size \in Nat \ {0} /\ q[k].at + q[k].size <= c
        /\ P[q[k].at] = q[k].new /\ q[k].new \in Seq(S) /\ c \in 1..(Len(text) + 1)
    BY <1>1, <2>1, <2>2
  <2>5. \A p \in (q[k].at + 1)..(q[k].at + q[k].size - 1) : P[p] = << >>
    <3>1. E(k) = q[k].at + q[k].size
      BY <1>1, <2>1
    <3>2. \A p \in (q[k].at + 1)..(E(k) - 1) : P[p] = << >>
      BY <1>3, <2>1, Zenon
    <3>4. q[k].at \in Int /\ q[k].size \in Int
      BY <1>8, <2>1
    <3>5. (q[k].at + q[k].size) - 1 = q[k].at + q[k].size - 1
      BY <3>4
    <3>3. E(k) - 1 = q[k].at + q[k].size - 1
      BY <3>1, <3>5
    <3> QED
      BY <3>2, <3>3, Zenon
  <2>6. \A p \in (q[k].at + q[k].size)..(c - 1) : P[p] = <<text[p]>>
    BY <1>1, <2>1, <2>3
  <2>7. Covers(S, P, text, q[k], c)
    BY <2>4, <2>5, <2>6 DEF Covers
  <2> QED
    BY <2>7 DEF k, c
<1> DEFINE end == From(text, q, n)
<1>6. end \in 1..(L + 1) /\ \A l \in 1..n : end <= q[l].at
  <2>1. CASE n = 0
    BY <1>1, <2>1 DEF From
  <2>2. CASE n # 0
    <3>1. n + 1 - n = 1 /\ 1 \in 1..n
      BY <1>1, <2>2
    <3>2. end = q[1].at
      BY <2>2, <3>1 DEF From, n
    <3> HIDE DEF end
    <3>3. ASSUME NEW l \in 1..n PROVE end <= q[l].at
      <4>1. CASE l = 1
        BY <1>1, <3>2, <4>1
      <4>2. CASE l # 1
        <5>1. 1 < l
          BY <1>1, <4>2
        <5>2. E(1) <= q[l].at /\ E(1) = q[1].at + q[1].size
          BY <1>1, <1>2, <3>1, <5>1
        <5>3. q[1].at \in Nat /\ q[1].size \in Nat /\ q[l].at \in Nat
          BY <1>8, <3>1
        <5> QED
          BY <3>2, <5>2, <5>3
      <4> QED
        BY <4>1, <4>2
    <3>4. end \in 1..(L + 1)
      BY <1>1, <3>1, <3>2
    <3> QED
      BY <3>3, <3>4
  <2> QED
    BY <2>1, <2>2
<1> HIDE DEF end
<1>7. \A p \in 1..(end - 1) : P[p] = <<text[p]>>
  <2> SUFFICES ASSUME NEW p \in 1..(end - 1) PROVE P[p] = <<text[p]>>
    OBVIOUS
  <2>1. p \in 1..L
    BY <1>1, <1>6
  <2>2. ASSUME NEW l \in 1..n PROVE p \notin q[l].at..(E(l) - 1)
    <3>1. end <= q[l].at /\ q[l].at \in Nat /\ end \in Nat
      BY <1>1, <1>6
    <3> QED
      BY <3>1
  <2> QED
    BY <1>4, <2>1, <2>2
<1>9. From(text, q, Len(q)) \in 1..(Len(text) + 1)
  BY <1>1, <1>6 DEF end, n
<1>10. \A p \in 1..(From(text, q, Len(q)) - 1) : P[p] = <<text[p]>>
  BY <1>7 DEF end, n
<1>11. \A m \in 1..Len(q) : Covers(S, P, text, q[Len(q) + 1 - m], From(text, q, m - 1))
  BY <1>5 DEF n
<1> QED
  BY <1>9, <1>10, <1>11, Spliced, ZenonT(60)

\* The characters of the i-th edit's place in the text.
Place(es, off, i) == off[i]..(off[i] + Len(es[i].old) - 1)

\* What an accepted call does to the text.
Rewrites(text, es, off, result) ==
    /\ off \in [DOMAIN es -> 1..Len(text)]
    /\ \A i \in DOMAIN es : MatchesAt(text, es[i].old, off[i])
    /\ \A i, j \in DOMAIN es : i # j => Place(es, off, i) \cap Place(es, off, j) = {}
    /\ result = Rewritten(text, es, off) /\ result \in Seq(Plain)

LEMMA AcceptedRewrites ==
    ASSUME NEW text \in Seq(Plain), NEW n \in Nat, NEW es, DOMAIN es = 1..n,
           \A i \in 1..n : es[i].old \in Seq(Plain) /\ es[i].new \in Seq(Plain),
           Accepted(text, es)
    PROVE  \E off : Rewrites(text, es, off, Edited(text, es))
<1> DEFINE L == Len(text)
           off == [i \in 1..n |-> Index(text, es[i].old)]
           rs == [i \in 1..n |-> Region(text, es[i])]
           q == InOrder(rs)
           Regs == [at : 1..L, size : Nat \ {0}, new : Seq(Plain)]
<1>1. L \in Nat /\ L = Len(text) /\ text \in Seq(Chars)
  BY LenProperties, SeqMonotonic DEF Plain
<1>2. ASSUME NEW i \in 1..n
      PROVE  /\ off[i] \in 1..L /\ MatchesAt(text, es[i].old, off[i])
             /\ Len(es[i].old) \in Nat \ {0} /\ off[i] + Len(es[i].old) <= L + 1
  <2>1. es[i].old # << >> /\ Count(text, es[i].old) = 1
    BY DEF Accepted, Matched
  <2>2. es[i].old \in Seq(Plain) /\ es[i].old \in Seq(Chars)
    BY SeqMonotonic DEF Plain
  <2>3. Index(text, es[i].old) \in 1..Len(text) /\ MatchesAt(text, es[i].old, Index(text, es[i].old))
    BY <1>1, <2>1, <2>2, CountOne
  <2>4. Len(es[i].old) \in Nat \ {0}
    BY <2>1, <2>2, EmptySeq
  <2>5. Index(text, es[i].old) + Len(es[i].old) <= Len(text) + 1
    BY <2>3 DEF MatchesAt
  <2> QED
    BY <2>3, <2>4, <2>5
<1>3. ASSUME NEW i \in 1..n
      PROVE  /\ rs[i] \in Regs /\ rs[i].at = off[i] /\ rs[i].size = Len(es[i].old)
             /\ rs[i].new = es[i].new
  <2>1. rs[i] = [at |-> off[i], size |-> Len(es[i].old), new |-> es[i].new]
    BY DEF Region
  <2>2. es[i].new \in Seq(Plain)
    OBVIOUS
  <2> HIDE DEF rs, off, L
  <2> QED
    BY <1>2, <2>1, <2>2
<1>4. Apart(q) /\ Edited(text, es) = ApplyEdits(text, q)
  BY DEF Accepted, Edited
<1>5. DOMAIN off = 1..n /\ DOMAIN rs = 1..n /\ off \in [1..n -> 1..L]
  BY <1>2
<1> HIDE DEF off, rs, L
<1>6. /\ DOMAIN q = 1..n
      /\ \A k \in 1..n : \E i \in 1..n : q[k] = rs[i]
      /\ \A i \in 1..n : \E k \in 1..n : q[k] = rs[i]
      /\ \A i, j \in 1..n : i # j => \E k, l \in 1..n : k # l /\ q[k] = rs[i] /\ q[l] = rs[j]
  <2>1. \A i \in 1..n : rs[i].at \in Nat
    <3> SUFFICES ASSUME NEW i \in 1..n PROVE rs[i].at \in Nat
      OBVIOUS
    <3>1. rs[i].at = off[i]
      BY <1>3
    <3>2. off[i] \in 1..L
      BY <1>2
    <3> HIDE DEF q, Regs
    <3> QED
      BY <1>1, <3>1, <3>2
  <2>2. DOMAIN rs = 1..n
    BY <1>5
  <2>3. Sorts(rs, q, n)
    BY <2>1, <2>2, Sorted, Zenon
  <2> HIDE DEF q
  <2> QED
    BY <2>3, Zenon DEF Sorts
<1>7. Len(q) = n
  <2>1. q = [k \in 1..n |-> q[k]]
    BY <1>5, <1>6 DEF InOrder
  <2>2. ASSUME NEW k \in 1..n PROVE q[k] \in Regs
    <3> HIDE DEF q, Regs
    <3>1. PICK i \in 1..n : q[k] = rs[i]
      BY <1>6
    <3> QED
      BY <1>3, <3>1
  <2> HIDE DEF q, Regs
  <2>3. q \in [1..n -> Regs]
    BY <2>1, <2>2
  <2>4. q \in Seq(Regs)
    BY <2>3
  <2> QED
    BY <2>3, <2>4, LenProperties
<1> HIDE DEF q
<1>8. ASSUME NEW k \in 1..n PROVE q[k].at \in Nat /\ q[k].size \in Nat
  <2>1. PICK i \in 1..n : q[k] = rs[i]
    BY <1>6
  <2>2. q[k].at = off[i] /\ q[k].size = Len(es[i].old)
    BY <1>3, <2>1
  <2> QED
    BY <1>1, <1>2, <2>2
<1>9. \A j, k \in 1..n : j < k => q[j].at + q[j].size <= q[k].at
  BY <1>4, <1>7, <1>8, ApartAll
<1>10. ASSUME NEW i \in 1..n, NEW j \in 1..n, i # j
       PROVE  Place(es, off, i) \cap Place(es, off, j) = {}
  <2>1. PICK k \in 1..n, l \in 1..n : k # l /\ q[k] = rs[i] /\ q[l] = rs[j]
    BY <1>6, <1>10
  <2> DEFINE a == off[i]
             b == off[j]
             x == Len(es[i].old)
             y == Len(es[j].old)
  <2>2. q[k].at = a /\ q[k].size = x /\ q[l].at = b /\ q[l].size = y
    BY <1>3, <2>1
  <2>3. k < l \/ l < k
    BY <2>1
  <2>4. a + x <= b \/ b + y <= a
    BY <1>9, <2>2, <2>3
  <2>5. a \in Nat /\ b \in Nat /\ x \in Nat /\ y \in Nat
    BY <1>1, <1>2
  <2>6. Place(es, off, i) = a..(a + x - 1) /\ Place(es, off, j) = b..(b + y - 1)
    BY DEF Place
  <2> HIDE DEF a, b, x, y
  <2> QED
    BY <2>4, <2>5, <2>6
<1> DEFINE Starts(p) == \E i \in 1..n : off[i] = p
           Inside(p) == \E i \in 1..n : p \in Place(es, off, i)
           P == [p \in 1..L |-> IF Starts(p) THEN es[CHOOSE i \in 1..n : off[i] = p].new
                                ELSE IF Inside(p) THEN << >> ELSE <<text[p]>>]
<1>11. Rewritten(text, es, off) = FlattenSeq(P)
  BY DEF Rewritten, Place, L
<1>12. ASSUME NEW i \in 1..n PROVE off[i] \in Place(es, off, i)
  <2> DEFINE a == off[i]
             x == Len(es[i].old)
  <2>1. a \in Nat /\ x \in Nat \ {0} /\ Place(es, off, i) = a..(a + x - 1)
    BY <1>1, <1>2 DEF Place
  <2> HIDE DEF a, x
  <2>2. a \in a..(a + x - 1)
    BY <2>1
  <2> QED
    BY <2>1, <2>2 DEF a
<1>13. ASSUME NEW i \in 1..n PROVE P[off[i]] = es[i].new
  <2>1. off[i] \in 1..L /\ Starts(off[i])
    BY <1>2
  <2>2. \A j \in 1..n : off[j] = off[i] => j = i
    BY <1>10, <1>12
  <2>3. (CHOOSE j \in 1..n : off[j] = off[i]) = i
    BY <2>2
  <2> QED
    BY <2>1, <2>3
<1>14. ASSUME NEW i \in 1..n, NEW p \in Place(es, off, i), p # off[i] PROVE P[p] = << >>
  <2>1. p \in 1..L
    <3> DEFINE a == off[i]
               x == Len(es[i].old)
    <3>1. a \in 1..L /\ x \in Nat /\ a + x <= L + 1 /\ p \in a..(a + x - 1)
      BY <1>2 DEF Place
    <3> HIDE DEF a, x
    <3> QED
      BY <1>1, <3>1
  <2>2. ~Starts(p)
    BY <1>10, <1>12, <1>14
  <2>3. Inside(p)
    OBVIOUS
  <2> QED
    BY <2>1, <2>2, <2>3
<1>15. ASSUME NEW p \in 1..L, \A i \in 1..n : p \notin Place(es, off, i) PROVE P[p] = <<text[p]>>
  <2>1. ~Starts(p) /\ ~Inside(p)
    BY <1>12, <1>15
  <2> QED
    BY <2>1
<1>16. P \in Seq(Seq(Plain)) /\ Len(P) = L
  <2>1. ASSUME NEW p \in 1..L PROVE P[p] \in Seq(Plain)
    <3>1. CASE Starts(p)
      <4>1. PICK i \in 1..n : off[i] = p
        BY <3>1
      <4>2. P[p] = es[i].new
        BY <1>13, <4>1
      <4> QED
        BY <4>2
    <3>2. CASE ~Starts(p) /\ Inside(p)
      <4>1. P[p] = << >>
        BY <3>2
      <4> HIDE DEF P
      <4> QED
        BY <4>1, EmptySeq
    <3>3. CASE ~Starts(p) /\ ~Inside(p)
      <4>1. P[p] = <<text[p]>>
        BY <3>3
      <4>2. text[p] \in Plain
        BY <1>1, ElementOfSeq
      <4> HIDE DEF P
      <4> QED
        BY <4>1, <4>2
    <3> QED
      BY <3>1, <3>2, <3>3
  <2>2. P = [p \in 1..L |-> P[p]]
    OBVIOUS
  <2> HIDE DEF P
  <2>3. P \in [1..L -> Seq(Plain)]
    BY <2>1, <2>2
  <2>4. P \in Seq(Seq(Plain))
    BY <1>1, <2>3
  <2> QED
    BY <1>1, <2>3, <2>4, LenProperties
<1> HIDE DEF P
<1>17. Places(Plain, P, text, q)
  <2>1. ASSUME NEW k \in 1..n
        PROVE  /\ q[k].at \in 1..L /\ q[k].size \in Nat \ {0} /\ q[k].new \in Seq(Plain)
               /\ q[k].at + q[k].size <= L + 1 /\ P[q[k].at] = q[k].new
               /\ \A p \in (q[k].at + 1)..(q[k].at + q[k].size - 1) : P[p] = << >>
    <3>1. PICK i \in 1..n : q[k] = rs[i]
      BY <1>6
    <3>2. q[k].at = off[i] /\ q[k].size = Len(es[i].old) /\ q[k].new = es[i].new
      BY <1>3, <3>1
    <3>3. /\ q[k].at \in 1..L /\ q[k].size \in Nat \ {0} /\ q[k].new \in Seq(Plain)
          /\ q[k].at + q[k].size <= L + 1 /\ P[q[k].at] = q[k].new
      BY <1>2, <1>13, <3>2
    <3>4. ASSUME NEW p \in (q[k].at + 1)..(q[k].at + q[k].size - 1) PROVE P[p] = << >>
      <4> DEFINE a == off[i]
                 x == Len(es[i].old)
      <4>1. a \in Nat /\ x \in Nat /\ p \in (a + 1)..(a + x - 1) /\ Place(es, off, i) = a..(a + x - 1)
        BY <1>1, <1>2, <3>2 DEF Place
      <4> HIDE DEF a, x
      <4>2. p \in Place(es, off, i) /\ p # a
        BY <4>1
      <4> QED
        BY <1>14, <4>2 DEF a
    <3> QED
      BY <3>3, <3>4
  <2>2. ASSUME NEW p \in 1..L, \A k \in 1..n : p \notin q[k].at..(q[k].at + q[k].size - 1)
        PROVE  P[p] = <<text[p]>>
    <3>1. ASSUME NEW i \in 1..n PROVE p \notin Place(es, off, i)
      <4>1. PICK k \in 1..n : q[k] = rs[i]
        BY <1>6
      <4>2. q[k].at = off[i] /\ q[k].size = Len(es[i].old)
        BY <1>3, <4>1
      <4>3. p \notin q[k].at..(q[k].at + q[k].size - 1)
        BY <2>2
      <4> QED
        BY <4>2, <4>3 DEF Place
    <3> QED
      BY <1>15, <3>1
  <2> QED
    BY <1>7, <2>1, <2>2 DEF Places, L
<1>18. Edited(text, es) = FlattenSeq(P)
  BY <1>4, <1>7, <1>16, <1>17, SplicedPlaces DEF L
<1>19. Edited(text, es) \in Seq(Plain)
  BY <1>16, <1>18, FlatType
<1>20. \A i \in 1..n : MatchesAt(text, es[i].old, off[i])
  BY <1>2
<1>21. Rewrites(text, es, off, Edited(text, es))
  BY <1>5, <1>10, <1>11, <1>18, <1>19, <1>20 DEF Rewrites, L
<1> QED
  BY <1>21

-----------------------------------------------------------------------------
(* edit_tool's promise. *)

\* What of the type invariant the promise needs, and the promise.
FilesInv ==
    /\ before \in FileTexts /\ tool \in {"none", "edit", "read", "tail"}
    /\ tool # "edit" => file = before
    /\ taken \in BOOLEAN /\ (taken => tool = "edit")
    /\ \E n \in Nat : edits \in [1..n -> Edits]
    /\ EditedExactly

LEMMA FilesInvInit == FileToolsInit => FilesInv
<1> SUFFICES ASSUME FileToolsInit PROVE FilesInv
  OBVIOUS
<1>1. ~taken /\ taken \in BOOLEAN
  BY Zenon DEF FileToolsInit
<1>2. EditedExactly
  BY <1>1, Zenon DEF EditedExactly
<1>3. \E n \in Nat : edits \in [1..n -> Edits]
  <2>1. edits = << >> /\ 0 \in Nat /\ << >> \in [1..0 -> Edits]
    BY DEF FileToolsInit
  <2> QED
    BY <2>1
<1>4. before \in FileTexts /\ tool = "none" /\ file = before
  BY DEF FileToolsInit
<1> QED
  BY <1>1, <1>2, <1>3, <1>4 DEF FilesInv

\* An edit's texts, normalized.
LEMMA NormalEdits ==
    ASSUME NEW n \in Nat, NEW es \in [1..n -> Edits],
           NEW normal, normal = [i \in DOMAIN es |-> Normal(es[i])]
    PROVE  DOMAIN normal = 1..n
           /\ \A i \in 1..n : normal[i].old \in Seq(Plain) /\ normal[i].new \in Seq(Plain)
<1>1. DOMAIN normal = 1..n
  OBVIOUS
<1>2. ASSUME NEW i \in 1..n PROVE normal[i].old \in Seq(Plain) /\ normal[i].new \in Seq(Plain)
  <2>1. es[i].old \in Seq(Chars) /\ es[i].new \in Seq(Chars)
    BY FileToolsAssumption
  <2>2. normal[i].old = NormalizeToLf(es[i].old) /\ normal[i].new = NormalizeToLf(es[i].new)
    BY DEF Normal
  <2> QED
    BY <2>1, <2>2, NormalType
<1> QED
  BY <1>1, <1>2

\* The line ending that an edit restores is one of two.
LEMMA EndingType == \A text : DetectLineEnding(text) \in {<<LF>>, <<CR, LF>>}
BY DEF DetectLineEnding

\* A step that edits: its result, when normalized, is what the edits say.
LEMMA EditStep ==
    ASSUME FilesInv, NEW n \in Nat, NEW es \in [1..n -> Edits], EditsFile(es)
    PROVE  EditedExactly'
<1> SUFFICES ASSUME taken'
             PROVE  LET text == NormalizeToLf(before')
                        fs == [i \in DOMAIN edits' |-> Normal(edits'[i])]
                        Apply(off, i) == off[i]..(off[i] + Len(fs[i].old) - 1)
                    IN  \E off \in [DOMAIN fs -> 1..Len(text)] :
                          /\ \A i \in DOMAIN fs : MatchesAt(text, fs[i].old, off[i])
                          /\ \A i, j \in DOMAIN fs : i # j => Apply(off, i) \cap Apply(off, j) = {}
                          /\ NormalizeToLf(file') = Rewritten(text, fs, off)
  BY DEF EditedExactly
<1> DEFINE text == NormalizeToLf(file)
           fs == [i \in DOMAIN es |-> Normal(es[i])]
<1>1. /\ edits' = es /\ before' = before /\ file = before /\ before \in FileTexts
      /\ taken' = Accepted(text, fs)
      /\ file' = IF Accepted(text, fs)
                 THEN RestoreLineEndings(Edited(text, fs), DetectLineEnding(file)) ELSE file
  BY DEF EditsFile, FilesInv
<1>2. Accepted(text, fs)
  BY <1>1, Zenon
<1>3. text \in Seq(Plain)
  BY <1>1, NormalType, FileToolsAssumption
<1>4. DOMAIN fs = 1..n /\ \A i \in 1..n : fs[i].old \in Seq(Plain) /\ fs[i].new \in Seq(Plain)
  BY NormalEdits
<1> HIDE DEF fs, text
<1>5. PICK off : Rewrites(text, fs, off, Edited(text, fs))
  BY <1>2, <1>3, <1>4, AcceptedRewrites
<1>6. NormalizeToLf(file') = Edited(text, fs)
  <2>1. Edited(text, fs) \in Seq(Plain)
    BY <1>5 DEF Rewrites
  <2> QED
    BY <1>1, <1>2, <2>1, EndingType, NormalRestore
<1>7. /\ off \in [DOMAIN fs -> 1..Len(text)]
      /\ \A i \in DOMAIN fs : MatchesAt(text, fs[i].old, off[i])
      /\ \A i, j \in DOMAIN fs : i # j =>
           (off[i]..(off[i] + Len(fs[i].old) - 1)) \cap (off[j]..(off[j] + Len(fs[j].old) - 1)) = {}
      /\ NormalizeToLf(file') = Rewritten(text, fs, off)
  BY <1>5, <1>6, Zenon DEF Rewrites, Place
<1>8. NormalizeToLf(before') = text /\ [i \in DOMAIN edits' |-> Normal(edits'[i])] = fs
  BY <1>1 DEF text, fs
<1> QED
  BY <1>7, <1>8, ZenonT(60)

\* An edited file is a text.
LEMMA EditedType ==
    ASSUME FilesInv, NEW n \in Nat, NEW es \in [1..n -> Edits], EditsFile(es)
    PROVE  file' \in Seq(Chars)
<1> DEFINE text == NormalizeToLf(file)
           fs == [i \in DOMAIN es |-> Normal(es[i])]
<1>1. /\ file \in Seq(Chars)
      /\ file' = IF Accepted(text, fs)
                 THEN RestoreLineEndings(Edited(text, fs), DetectLineEnding(file)) ELSE file
  BY FileToolsAssumption DEF EditsFile, FilesInv
<1>2. CASE Accepted(text, fs)
  <2>1. text \in Seq(Plain)
    BY <1>1, NormalType
  <2>2. DOMAIN fs = 1..n /\ \A i \in 1..n : fs[i].old \in Seq(Plain) /\ fs[i].new \in Seq(Plain)
    BY NormalEdits
  <2> HIDE DEF fs, text
  <2>3. PICK off : Rewrites(text, fs, off, Edited(text, fs))
    BY <1>2, <2>1, <2>2, AcceptedRewrites
  <2>4. Edited(text, fs) \in Seq(Plain)
    BY <2>3 DEF Rewrites
  <2> QED
    BY <1>1, <1>2, <2>4, EndingType, NormalRestore
<1> QED
  BY <1>1, <1>2

LEMMA FilesInvNext == FilesInv /\ [FileToolsNext]_fileVars => FilesInv'
<1> SUFFICES ASSUME FilesInv, [FileToolsNext]_fileVars PROVE FilesInv'
  OBVIOUS
<1>1. CASE UNCHANGED fileVars
  <2>1. /\ file' = file /\ before' = before /\ tool' = tool /\ edits' = edits
        /\ taken' = taken
    BY <1>1 DEF fileVars
  <2>2. EditedExactly' = EditedExactly
    BY <2>1 DEF EditedExactly
  <2>3. EditedExactly'
    BY <2>2, Zenon DEF FilesInv
  <2> QED
    BY <2>1, <2>3, Zenon DEF FilesInv
<1>2. ASSUME tool' \in {"read", "tail"}, tool \in {"none", "read"},
             UNCHANGED <<file, before, edits, taken>>
      PROVE  FilesInv'
  <2>1. ~taken /\ taken' \in BOOLEAN /\ ~taken'
    BY <1>2, Zenon DEF FilesInv
  <2>2. EditedExactly'
    BY <2>1, Zenon DEF EditedExactly
  <2> QED
    BY <1>2, <2>1, <2>2 DEF FilesInv
<1>3. ASSUME NEW limit \in Limits, ReadsPage(limit) \/ ReadsWithSed(limit) PROVE FilesInv'
  BY <1>2, <1>3 DEF ReadsPage, ReadsWithSed
<1>4. ASSUME ShowsOutput PROVE FilesInv'
  BY <1>2, <1>4 DEF ShowsOutput
<1>5. ASSUME NEW n \in 1..MaxEdits, NEW es \in [1..n -> Edits], EditsFile(es) PROVE FilesInv'
  <2>1. n \in Nat
    BY FileToolsAssumption
  <2>2. EditedExactly'
    BY <1>5, <2>1, EditStep
  <2>3. before' \in FileTexts /\ tool' = "edit" /\ edits' = es
    BY <1>5 DEF EditsFile, FilesInv
  <2>4. taken' \in BOOLEAN
    BY <1>5 DEF EditsFile, Accepted
  <2> QED
    BY <2>1, <2>2, <2>3, <2>4 DEF FilesInv
<1> QED
  BY <1>1, <1>3, <1>4, <1>5 DEF FileToolsNext

\* An accepted edit call rewrites, in the text that it was matched against,
\* disjoint regions, one for each edit, and nothing else.
THEOREM EditedExactlyCorrect == FileToolsSpec => []EditedExactly
<1>1. FilesInv => EditedExactly
  BY DEF FilesInv
<1> QED
  BY <1>1, FilesInvInit, FilesInvNext, PTL DEF FileToolsSpec

-----------------------------------------------------------------------------
(* Lines. *)

\* The characters of a line, and the lines of a text: there is one at least.
InLine == Chars \ {LF}
SomeLines == Seq(Seq(InLine)) \ {<< >>}

\* What a character makes of the lines before it.
Grown(lines, c) ==
    IF c = LF THEN Append(lines, << >>)
    ELSE Append(Front(lines), Append(Last(lines), c))

LEMMA FrontLast ==
    ASSUME NEW S, NEW s \in Seq(S), s # << >>
    PROVE  /\ Front(s) \in Seq(S) /\ Len(Front(s)) = Len(s) - 1 /\ Last(s) \in S
           /\ s = Append(Front(s), Last(s))
           /\ \A i \in 1..(Len(s) - 1) : Front(s)[i] = s[i]
<1>1. PICK r \in Seq(S), e \in S : s = Append(r, e)
  BY SequenceEmptyOrAppend
<1>2. /\ Len(s) = Len(r) + 1 /\ s[Len(r) + 1] = e /\ Len(r) \in Nat
      /\ \A i \in 1..Len(r) : s[i] = r[i]
  BY <1>1, AppendProperties, LenProperties
<1>3. Last(s) = e
  BY <1>2 DEF Last
<1>4. Front(s) = r
  <2>1. s = r \o <<e>> /\ <<e>> \in Seq(S)
    BY <1>1, AppendIsConcat
  <2>2. SubSeq(r \o <<e>>, 1, Len(r)) = r
    BY <2>1, Cut
  <2>3. Front(s) = SubSeq(s, 1, Len(s) - 1) /\ Len(s) - 1 = Len(r)
    BY <1>2 DEF Front
  <2> QED
    BY <2>1, <2>2, <2>3
<1> QED
  BY <1>1, <1>2, <1>3, <1>4

LEMMA GrownType ==
    ASSUME NEW lines \in SomeLines, NEW c \in Chars
    PROVE  /\ Grown(lines, c) \in SomeLines
           /\ Len(Grown(lines, c)) = Len(lines) + (IF c = LF THEN 1 ELSE 0)
<1> DEFINE T == Seq(InLine)
<1>1. << >> \in T /\ \A l \in T : c # LF => Append(l, c) \in T
  BY AppendProperties DEF InLine
<1>2. lines \in Seq(T) /\ lines # << >>
  BY DEF SomeLines
<1> HIDE DEF T
<1>3. CASE c = LF
  <2>1. Append(lines, << >>) \in Seq(T) /\ Append(lines, << >>) # << >>
        /\ Len(Append(lines, << >>)) = Len(lines) + 1
    BY <1>1, <1>2, AppendProperties
  <2> QED
    BY <1>3, <2>1 DEF Grown, SomeLines, T
<1>4. CASE c # LF
  <2> DEFINE f == Front(lines)
             l == Append(Last(lines), c)
  <2>1. f \in Seq(T) /\ l \in T /\ Len(f) = Len(lines) - 1
    BY <1>1, <1>2, <1>4, FrontLast
  <2>3. Len(lines) \in Nat
    BY <1>2, LenProperties
  <2> HIDE DEF f, l
  <2>2. Append(f, l) \in Seq(T) /\ Append(f, l) # << >> /\ Len(Append(f, l)) = Len(f) + 1
    BY <2>1, AppendProperties
  <2>4. Len(Append(f, l)) = Len(lines)
    BY <2>1, <2>2, <2>3
  <2>5. Grown(lines, c) = Append(f, l)
    BY <1>4 DEF Grown, f, l
  <2> QED
    BY <1>4, <2>2, <2>3, <2>4, <2>5 DEF SomeLines, T
<1> QED
  BY <1>3, <1>4

\* The loop that Lines is.
LEMMA LinesLoop ==
    ASSUME NEW text \in Seq(Chars)
    PROVE  \E f : /\ f \in [0..Len(text) -> SomeLines] /\ f[0] = << << >> >>
                  /\ \A i \in 1..Len(text) : f[i] = Grown(f[i - 1], text[i])
                  /\ Lines(text) = f[Len(text)]
<1> DEFINE n == Len(text)
           Splits(f) == f = [i \in 0..n |->
                               IF i = 0 THEN << << >> >>
                               ELSE IF text[i] = LF THEN Append(f[i - 1], << >>)
                               ELSE Append(Front(f[i - 1]), Append(Last(f[i - 1]), text[i]))]
           Step == [p \in (1..n) \X SomeLines |-> Grown(p[2], text[p[1]])]
           none == << << >> >>
<1>1. n \in Nat /\ n = Len(text) /\ \A i \in 1..n : text[i] \in Chars
  BY LenProperties, ElementOfSeq
<1>2. none \in SomeLines
  <2>1. << >> \in Seq(InLine)
    OBVIOUS
  <2>2. none \in Seq(Seq(InLine)) /\ none # << >>
    BY <2>1
  <2> QED
    BY <2>2 DEF SomeLines
<1>3. Lines(text) = (CHOOSE f : Splits(f))[n]
  BY DEF Lines
<1> HIDE DEF n, none
<1>4. Step \in [(1..n) \X SomeLines -> SomeLines]
  <2>1. ASSUME NEW p \in (1..n) \X SomeLines PROVE Grown(p[2], text[p[1]]) \in SomeLines
    BY <1>1, GrownType
  <2> QED
    BY <2>1
<1>5. PICK f : Iterates(f, n, SomeLines, none, Step)
  <2>1. n \in Nat
    BY <1>1
  <2> HIDE DEF Step
  <2> QED
    BY <1>2, <1>4, <2>1, Loop, Zenon
<1>6. f \in [0..n -> SomeLines] /\ f[0] = none
  BY <1>5 DEF Iterates
<1>7. ASSUME NEW i \in 1..n PROVE f[i] = Grown(f[i - 1], text[i])
  <2>1. <<i, f[i - 1]>> \in (1..n) \X SomeLines
    <3>1. i - 1 \in 0..n
      BY <1>1
    <3> QED
      BY <1>6, <3>1
  <2>2. Step[<<i, f[i - 1]>>] = Grown(f[i - 1], text[i])
    BY <2>1
  <2> HIDE DEF Step
  <2> QED
    BY <1>5, <2>2 DEF Iterates
<1>8. Splits(f)
  <2>1. ASSUME NEW i \in 0..n
        PROVE  f[i] = IF i = 0 THEN << << >> >>
                      ELSE IF text[i] = LF THEN Append(f[i - 1], << >>)
                      ELSE Append(Front(f[i - 1]), Append(Last(f[i - 1]), text[i]))
    <3>1. CASE i = 0
      BY <1>6, <3>1 DEF none
    <3>2. CASE i # 0
      <4>1. i \in 1..n
        BY <1>1, <3>2
      <4> QED
        BY <1>7, <3>2, <4>1 DEF Grown
    <3> QED
      BY <3>1, <3>2
  <2> QED
    BY <1>6, <2>1
<1>9. PICK g : Splits(g) /\ Lines(text) = g[n]
  <2> HIDE DEF Splits
  <2> QED
    BY <1>3, <1>8
<1>10. g[0] = none /\ \A i \in 1..n : g[i] = Grown(g[i - 1], text[i])
  <2>1. g[0] = none
    BY <1>1, <1>9 DEF none
  <2>2. ASSUME NEW i \in 1..n PROVE g[i] = Grown(g[i - 1], text[i])
    <3>1. i \in 0..n /\ i # 0
      BY <1>1
    <3> QED
      BY <1>9, <3>1 DEF Grown
  <2> QED
    BY <2>1, <2>2
<1> DEFINE same == {i \in Nat : i \in 0..n => g[i] = f[i]}
<1> HIDE DEF Splits, Step
<1>11. 0 \in same
  BY <1>6, <1>10
<1>12. ASSUME NEW i \in Nat, i \in same PROVE i + 1 \in same
  <2> SUFFICES ASSUME i + 1 \in 0..n PROVE g[i + 1] = f[i + 1]
    OBVIOUS
  <2> DEFINE k == i + 1
  <2>1. k \in 1..n /\ k - 1 = i /\ g[i] = f[i]
    BY <1>1, <1>12
  <2> HIDE DEF k
  <2>2. g[k] = f[k]
    BY <1>7, <1>10, <2>1
  <2> QED
    BY <2>2 DEF k
<1>13. Nat \subseteq same
  <2> HIDE DEF same
  <2> QED
    BY <1>11, <1>12, Induction
<1>14. g[n] = f[n]
  <2>1. n \in Nat /\ n \in 0..n
    BY <1>1
  <2> QED
    BY <1>13, <2>1
<1> QED
  BY <1>6, <1>7, <1>9, <1>14 DEF none, n

LEMMA LinesEmpty == Lines(<< >>) = << << >> >>
<1>1. << >> \in Seq(Chars) /\ Len(<< >>) = 0
  OBVIOUS
<1>2. PICK f : f[0] = << << >> >> /\ Lines(<< >>) = f[Len(<< >>)]
  BY <1>1, LinesLoop
<1> QED
  BY <1>1, <1>2

LEMMA LinesAppend ==
    ASSUME NEW text \in Seq(Chars), NEW c \in Chars
    PROVE  Lines(text) \in SomeLines /\ Lines(Append(text, c)) = Grown(Lines(text), c)
<1> DEFINE n == Len(text)
           t == Append(text, c)
           m == n + 1
           none == << << >> >>
<1>1. t \in Seq(Chars) /\ Len(t) = n + 1 /\ n \in Nat /\ t[n + 1] = c
      /\ (\A i \in 1..n : t[i] = text[i]) /\ n = Len(text)
  BY AppendProperties, LenProperties
<1> HIDE DEF t, n
<1>2. m = Len(t) /\ m \in Nat /\ m - 1 = n /\ n \in 0..n /\ m \in 1..m /\ t[m] = c /\ m = n + 1
  BY <1>1
<1> HIDE DEF m, none
<1>3. PICK f : /\ f \in [0..n -> SomeLines] /\ f[0] = none
               /\ \A i \in 1..n : f[i] = Grown(f[i - 1], text[i])
               /\ Lines(text) = f[n]
  BY <1>1, LinesLoop DEF none
<1>4. PICK g : /\ g \in [0..m -> SomeLines] /\ g[0] = none
               /\ \A i \in 1..m : g[i] = Grown(g[i - 1], t[i])
               /\ Lines(t) = g[m]
  BY <1>1, <1>2, LinesLoop DEF none
<1> DEFINE same == {i \in Nat : i \in 0..n => g[i] = f[i]}
<1>5. 0 \in same
  BY <1>3, <1>4
<1>6. ASSUME NEW i \in Nat, i \in same PROVE i + 1 \in same
  <2> SUFFICES ASSUME i + 1 \in 0..n PROVE g[i + 1] = f[i + 1]
    OBVIOUS
  <2> DEFINE k == i + 1
  <2>1. k \in 1..n /\ k \in 1..m /\ k - 1 = i /\ g[i] = f[i]
    BY <1>1, <1>2, <1>6
  <2> HIDE DEF k
  <2>2. g[k] = f[k]
    BY <1>1, <1>3, <1>4, <2>1
  <2> QED
    BY <2>2 DEF k
<1>7. Nat \subseteq same
  <2> HIDE DEF same
  <2> QED
    BY <1>5, <1>6, Induction
<1>8. g[n] = f[n]
  BY <1>1, <1>2, <1>7
<1>9. g[m] = Grown(f[n], c)
  BY <1>2, <1>4, <1>8
<1>10. f[n] \in SomeLines
  BY <1>2, <1>3
<1> QED
  BY <1>3, <1>4, <1>9, <1>10 DEF t

LEMMA LinesType ==
    ASSUME NEW text \in Seq(Chars)
    PROVE  Lines(text) \in SomeLines /\ Len(Lines(text)) \in 1..(Len(text) + 1)
<1> DEFINE good == {t \in Seq(Chars) : /\ Lines(t) \in SomeLines
                                       /\ Len(Lines(t)) \in 1..(Len(t) + 1)}
<1>1. << >> \in good
  <2>1. << >> \in Seq(InLine) /\ << >> \in Seq(Chars) /\ Len(<< >>) = 0
    OBVIOUS
  <2> DEFINE none == << << >> >>
  <2>2. none \in Seq(Seq(InLine)) /\ none # << >> /\ Len(none) = 1
    BY <2>1
  <2>3. Lines(<< >>) = none
    BY LinesEmpty
  <2> HIDE DEF none
  <2>4. none \in SomeLines
    BY <2>2 DEF SomeLines
  <2>5. Len(none) \in 1..(Len(<< >>) + 1)
    BY <2>1, <2>2
  <2> QED
    BY <2>1, <2>3, <2>4, <2>5, Zenon
<1>2. ASSUME NEW t \in Seq(Chars), NEW c \in Chars, t \in good PROVE Append(t, c) \in good
  <2>1. /\ Lines(Append(t, c)) = Grown(Lines(t), c) /\ Lines(t) \in SomeLines
        /\ Append(t, c) \in Seq(Chars) /\ Len(Append(t, c)) = Len(t) + 1 /\ Len(t) \in Nat
    BY LinesAppend, AppendProperties, LenProperties
  <2>2. /\ Grown(Lines(t), c) \in SomeLines
        /\ Len(Grown(Lines(t), c)) = Len(Lines(t)) + (IF c = LF THEN 1 ELSE 0)
    BY <2>1, GrownType
  <2>3. Len(Lines(t)) \in 1..(Len(t) + 1)
    BY <1>2
  <2>4. Len(Grown(Lines(t), c)) \in 1..((Len(t) + 1) + 1)
    <3> DEFINE m == Len(Lines(t))
               k == Len(t)
    <3>1. m \in 1..(k + 1) /\ k \in Nat /\ Len(Grown(Lines(t), c)) = m + (IF c = LF THEN 1 ELSE 0)
      BY <2>1, <2>2, <2>3
    <3> HIDE DEF m, k
    <3>2. Len(Grown(Lines(t), c)) \in 1..((k + 1) + 1)
      BY <3>1
    <3> QED
      BY <3>2 DEF k
  <2> QED
    BY <2>1, <2>2, <2>4
<1>3. Seq(Chars) \subseteq good
  <2> HIDE DEF good
  <2> QED
    BY <1>1, <1>2, SeqInduction
<1> QED
  BY <1>3

-----------------------------------------------------------------------------
(* Lines joined again. *)

AllTexts == Seq(Chars)

\* A line after the first one follows a line feed.
Fed(lines) == [i \in 1..Len(lines) |-> IF i = 1 THEN lines[i] ELSE <<LF>> \o lines[i]]

LEMMA FedType ==
    ASSUME NEW lines \in Seq(Seq(Chars))
    PROVE  /\ Fed(lines) \in Seq(Seq(Chars)) /\ Len(Fed(lines)) = Len(lines)
           /\ \A i \in 1..Len(lines) : Fed(lines)[i] = IF i = 1 THEN lines[i] ELSE <<LF>> \o lines[i]
           /\ Join(lines) = FlattenSeq(Fed(lines)) /\ Join(lines) \in Seq(Chars)
<1> DEFINE n == Len(lines)
           T == Seq(Chars)
           P == Fed(lines)
<1>1. n \in Nat /\ n = Len(lines) /\ \A i \in 1..n : lines[i] \in T
  BY LenProperties, ElementOfSeq
<1>2. \A l \in T : <<LF>> \o l \in T
  <2>1. <<LF>> \in Seq(Chars)
    BY FileToolsAssumption
  <2> QED
    BY <2>1, ConcatProperties
<1>3. Join(lines) = FlattenSeq(P)
  BY DEF Join, Fed
<1> HIDE DEF n, T
<1>4. P \in [1..n -> T] /\ \A i \in 1..n : P[i] = IF i = 1 THEN lines[i] ELSE <<LF>> \o lines[i]
  BY <1>1, <1>2 DEF Fed
<1> HIDE DEF P
<1>5. P \in Seq(T)
  <2>1. n \in Nat
    BY <1>1
  <2>2. P \in [1..n -> T]
    BY <1>4
  <2> QED
    BY <2>1, <2>2
<1>6. Len(P) = n
  BY <1>1, <1>4, <1>5, LenProperties
<1>7. FlattenSeq(P) \in Seq(Chars)
  BY <1>5, FlatType DEF T
<1> QED
  BY <1>1, <1>3, <1>4, <1>5, <1>6, <1>7 DEF P, T

LEMMA JoinAppend ==
    ASSUME NEW lines \in Seq(Seq(Chars)), NEW line \in Seq(Chars)
    PROVE  Join(Append(lines, line)) =
             IF lines = << >> THEN line ELSE Join(lines) \o (<<LF>> \o line)
<1> DEFINE n == Len(lines)
           m == n + 1
           ls == Append(lines, line)
           last == IF lines = << >> THEN line ELSE <<LF>> \o line
           T == Seq(Chars)
           P == Fed(lines)
           Q == Fed(ls)
<1>1. /\ ls \in Seq(T) /\ Len(ls) = n + 1 /\ ls[n + 1] = line /\ (\A i \in 1..n : ls[i] = lines[i])
      /\ n \in Nat /\ n = Len(lines) /\ (lines = << >> <=> n = 0)
  BY AppendProperties, LenProperties, EmptySeq
<1>2. last \in T
  <2>1. <<LF>> \in Seq(Chars)
    BY FileToolsAssumption
  <2> QED
    BY <2>1, ConcatProperties
<1>3. /\ P \in Seq(T) /\ Len(P) = n /\ Join(lines) = FlattenSeq(P) /\ Join(lines) \in T
      /\ \A i \in 1..n : P[i] = IF i = 1 THEN lines[i] ELSE <<LF>> \o lines[i]
  BY FedType
<1> HIDE DEF P, n, ls
<1>4. /\ Q \in Seq(T) /\ Len(Q) = m /\ Join(ls) = FlattenSeq(Q)
      /\ \A i \in 1..m : Q[i] = IF i = 1 THEN ls[i] ELSE <<LF>> \o ls[i]
  <2>1. ls \in Seq(Seq(Chars)) /\ Len(ls) = m
    BY <1>1
  <2> HIDE DEF m
  <2> QED
    BY <2>1, FedType
<1> HIDE DEF Q, last
<1>5. Q = Append(P, last)
  <2> DEFINE R == Append(P, last)
  <2> HIDE DEF T
  <2>1. R \in Seq(T) /\ Len(R) = n + 1 /\ R[n + 1] = last /\ \A i \in 1..n : R[i] = P[i]
    BY <1>2, <1>3, AppendProperties
  <2> HIDE DEF R
  <2>2. ASSUME NEW i \in 1..m PROVE Q[i] = R[i]
    <3>1. CASE i = n + 1
      <4>1. Q[i] = IF i = 1 THEN line ELSE <<LF>> \o line
        BY <1>1, <1>4, <3>1
      <4>2. i = 1 <=> lines = << >>
        BY <1>1, <3>1
      <4> QED
        BY <2>1, <3>1, <4>1, <4>2 DEF last
    <3>2. CASE i # n + 1
      <4>1. i \in 1..n
        BY <1>1, <3>2
      <4>2. ls[i] = lines[i] /\ R[i] = P[i]
        BY <1>1, <2>1, <4>1, Zenon
      <4>3. Q[i] = IF i = 1 THEN ls[i] ELSE <<LF>> \o ls[i]
        BY <1>4, Zenon
      <4>4. P[i] = IF i = 1 THEN lines[i] ELSE <<LF>> \o lines[i]
        BY <1>3, <4>1, Zenon
      <4> QED
        BY <4>2, <4>3, <4>4, Zenon
    <3> QED
      BY <3>1, <3>2
  <2>3. Len(Q) = Len(R) /\ \A i \in 1..Len(Q) : Q[i] = R[i]
    BY <1>4, <2>1, <2>2
  <2>4. Q = R
    BY <1>4, <2>1, <2>3, SeqEqual, Zenon
  <2> QED
    BY <2>4 DEF R
<1>6. FlattenSeq(Append(P, last)) = FlattenSeq(P) \o last
  BY <1>2, <1>3, FlatAppend
<1>7. Join(ls) = Join(lines) \o last
  BY <1>3, <1>4, <1>5, <1>6
<1>8. CASE lines = << >>
  <2>1. Join(lines) = << >>
    <3>1. P = << >>
      BY <1>1, <1>3, <1>8, EmptySeq
    <3> QED
      BY <1>3, <3>1, FlatEmpty
  <2>2. last = line
    BY <1>8 DEF last
  <2> QED
    BY <1>7, <1>8, <2>1, <2>2, ConcatEmptySeq DEF ls
<1>9. CASE lines # << >>
  BY <1>7, <1>9 DEF ls, last
<1> QED
  BY <1>8, <1>9

LEMMA JoinEmpty == Join(<< >>) = << >>
<1>1. << >> \in Seq(Seq(Chars)) /\ Len(<< >>) = 0
  OBVIOUS
<1>2. Fed(<< >>) = << >>
  BY <1>1, FedType, EmptySeq
<1> QED
  BY <1>1, <1>2, FedType, FlatEmpty

LEMMA JoinSingle ==
    ASSUME NEW line \in Seq(Chars)
    PROVE  Join(<<line>>) = line
<1> DEFINE T == Seq(Chars)
<1>1. << >> \in Seq(T) /\ line \in T
  OBVIOUS
<1>2. Append(<< >>, line) = <<line>>
  OBVIOUS
<1>3. Join(Append(<< >>, line)) = line
  BY <1>1, JoinAppend
<1> QED
  BY <1>2, <1>3

\* A character at the end of the last line.
LEMMA JoinGrown ==
    ASSUME NEW lines \in SomeLines, NEW c \in Chars
    PROVE  Join(Grown(lines, c)) = Append(Join(lines), c)
<1> DEFINE T == Seq(Chars)
           f == Front(lines)
           l == Last(lines)
<1>1. lines \in Seq(T) /\ lines # << >>
  <2>1. Seq(InLine) \subseteq T
    BY SeqMonotonic DEF InLine
  <2> HIDE DEF T
  <2> QED
    BY <2>1, SeqMonotonic DEF SomeLines
<1>2. f \in Seq(T) /\ l \in T /\ lines = Append(f, l)
  BY <1>1, FrontLast
<1>3. Join(lines) \in T /\ Join(f) \in T
  BY <1>1, <1>2, FedType
<1> HIDE DEF f, l
<1>4. CASE c = LF
  <2>1. << >> \in T /\ <<LF>> \in T
    BY FileToolsAssumption
  <2>2. Join(Append(lines, << >>)) = Join(lines) \o (<<LF>> \o << >>)
    BY <1>1, <2>1, JoinAppend
  <2>3. <<LF>> \o << >> = <<LF>>
    BY <2>1, ConcatEmptySeq
  <2>4. Append(Join(lines), LF) = Join(lines) \o <<LF>>
    BY <1>3, AppendIsConcat, FileToolsAssumption
  <2> QED
    BY <1>4, <2>2, <2>3, <2>4 DEF Grown
<1>5. CASE c # LF
  <2>1. Append(l, c) \in T
    BY <1>2, AppendProperties
  <2>2. Join(Grown(lines, c)) = Join(Append(f, Append(l, c)))
    BY <1>5 DEF Grown, f, l
  <2>3. CASE f = << >>
    <3>1. Join(Append(f, Append(l, c))) = Append(l, c)
      BY <1>2, <2>1, <2>3, JoinAppend
    <3>2. Join(lines) = l
      BY <1>2, <2>3, JoinAppend
    <3> QED
      BY <2>2, <3>1, <3>2
  <2>4. CASE f # << >>
    <3> DEFINE e == <<LF>>
               u == Join(f)
    <3>1. Join(Append(f, Append(l, c))) = u \o (e \o Append(l, c))
      BY <1>2, <2>1, <2>4, JoinAppend
    <3>2. Join(lines) = u \o (e \o l)
      BY <1>2, <2>4, JoinAppend
    <3>3. e \in T /\ u \in T /\ l \in T
      BY <1>2, <1>3, FileToolsAssumption
    <3> HIDE DEF e, u
    <3>4. e \o Append(l, c) = Append(e \o l, c) /\ e \o l \in T
      BY <3>3, AppendConcat, ConcatProperties
    <3>5. u \o Append(e \o l, c) = Append(u \o (e \o l), c)
      BY <3>3, <3>4, AppendConcat
    <3> QED
      BY <2>2, <3>1, <3>2, <3>4, <3>5
  <2> QED
    BY <2>3, <2>4
<1> QED
  BY <1>4, <1>5

LEMMA JoinLines ==
    ASSUME NEW text \in Seq(Chars)
    PROVE  Join(Lines(text)) = text
<1> DEFINE good == {t \in Seq(Chars) : Join(Lines(t)) = t}
<1>1. << >> \in good
  <2>1. << >> \in Seq(Chars)
    OBVIOUS
  <2> QED
    BY <2>1, LinesEmpty, JoinSingle
<1>2. ASSUME NEW t \in Seq(Chars), NEW c \in Chars, t \in good PROVE Append(t, c) \in good
  <2>1. Lines(t) \in SomeLines /\ Lines(Append(t, c)) = Grown(Lines(t), c)
    BY LinesAppend
  <2>2. Join(Grown(Lines(t), c)) = Append(Join(Lines(t)), c)
    BY <2>1, JoinGrown
  <2>3. Join(Lines(t)) = t /\ Append(t, c) \in Seq(Chars)
    BY <1>2, AppendProperties
  <2> QED
    BY <2>1, <2>2, <2>3
<1>3. Seq(Chars) \subseteq good
  <2> HIDE DEF good
  <2> QED
    BY <1>1, <1>2, SeqInduction
<1> QED
  BY <1>3

\* Two runs of lines, one after the other.
LEMMA JoinConcat ==
    ASSUME NEW u \in Seq(AllTexts), NEW v \in Seq(AllTexts), u # << >>, v # << >>
    PROVE  Join(u \o v) = Join(u) \o (<<LF>> \o Join(v))
<1> DEFINE T == AllTexts
           e == <<LF>>
           good == {w \in Seq(T) : w # << >> => Join(u \o w) = Join(u) \o (e \o Join(w))}
<1>1. u \in Seq(T) /\ v \in Seq(T) /\ e \in T
  BY FileToolsAssumption DEF AllTexts
<1>2. << >> \in good
  OBVIOUS
<1>3. ASSUME NEW w \in Seq(T), NEW l \in T, w \in good PROVE Append(w, l) \in good
  <2>1. u \o Append(w, l) = Append(u \o w, l) /\ u \o w \in Seq(T) /\ Append(w, l) \in Seq(T)
    BY <1>1, AppendConcat, ConcatProperties, AppendProperties
  <2>2. u \o w # << >>
    BY <1>1, ConcatEqualIffEmpty
  <2>3. Join(Append(u \o w, l)) = Join(u \o w) \o (e \o l)
    BY <2>1, <2>2, JoinAppend DEF AllTexts
  <2>4. CASE w = << >>
    <3>1. u \o w = u
      BY <1>1, <2>4, ConcatEmptySeq
    <3>2. Join(Append(w, l)) = l
      BY <2>4, JoinAppend DEF AllTexts
    <3> QED
      BY <2>1, <2>3, <3>1, <3>2
  <2>5. CASE w # << >>
    <3> DEFINE a == Join(u)
               b == Join(w)
    <3>1. Join(Append(w, l)) = b \o (e \o l)
      BY <2>5, JoinAppend DEF AllTexts
    <3>2. Join(u \o w) = a \o (e \o b)
      BY <1>3, <2>5
    <3>3. a \in T /\ b \in T
      BY <1>1, FedType DEF AllTexts
    <3> HIDE DEF a, b, e, good
    <3>4. e \o l \in T /\ e \o b \in T
      BY <1>1, <3>3, ConcatProperties DEF AllTexts
    <3>6. a \in Seq(Chars) /\ b \in Seq(Chars) /\ e \in Seq(Chars)
      BY <1>1, <3>3 DEF AllTexts
    <3>7. e \o b \in Seq(Chars) /\ e \o l \in Seq(Chars)
      BY <3>4 DEF AllTexts
    <3>5. (a \o (e \o b)) \o (e \o l) = a \o (e \o (b \o (e \o l)))
      <4> DEFINE x == e \o l
      <4>1. x \in Seq(Chars)
        BY <3>7
      <4> HIDE DEF x
      <4>2. (a \o (e \o b)) \o x = a \o ((e \o b) \o x)
        <5> DEFINE y == e \o b
        <5>1. y \in Seq(Chars)
          BY <3>7
        <5>2. a \in Seq(Chars)
          BY <3>6
        <5> HIDE DEF y
        <5>3. (a \o y) \o x = a \o (y \o x)
          BY <4>1, <5>1, <5>2, ConcatAssociative, SMTT(30)
        <5> QED
          BY <5>3 DEF y
      <4>3. (e \o b) \o x = e \o (b \o x)
        BY <3>6, <4>1, ConcatAssociative, SMTT(30)
      <4> QED
        BY <4>2, <4>3 DEF x
    <3> QED
      BY <2>1, <2>3, <3>1, <3>2, <3>5 DEF a, b, good
  <2> QED
    BY <2>4, <2>5
<1>4. Seq(T) \subseteq good
  <2> HIDE DEF good, T
  <2> QED
    BY <1>2, <1>3, SeqInduction
<1> QED
  BY <1>1, <1>4

LEMMA FrontLastAppend ==
    ASSUME NEW S, NEW s \in Seq(S), NEW e \in S
    PROVE  Front(Append(s, e)) = s /\ Last(Append(s, e)) = e
<1> DEFINE r == Append(s, e)
<1>1. r \in Seq(S) /\ Len(r) = Len(s) + 1 /\ r[Len(s) + 1] = e /\ Len(s) \in Nat
      /\ r = s \o <<e>> /\ <<e>> \in Seq(S)
  BY AppendProperties, AppendIsConcat, LenProperties
<1>2. SubSeq(s \o <<e>>, 1, Len(s)) = s
  BY <1>1, Cut
<1> HIDE DEF r
<1>3. Len(r) - 1 = Len(s)
  BY <1>1
<1>4. Front(r) = s
  BY <1>1, <1>2, <1>3 DEF Front
<1>5. Last(r) = e
  BY <1>1 DEF Last
<1> QED
  BY <1>4, <1>5 DEF r

LEMMA InLineText == Seq(InLine) \subseteq Seq(Chars) /\ SomeLines \subseteq Seq(Seq(Chars)) \ {<< >>}
<1>1. Seq(InLine) \subseteq Seq(Chars)
  BY SeqMonotonic DEF InLine
<1> DEFINE A == Seq(InLine)
           B == Seq(Chars)
<1>2. A \subseteq B
  BY <1>1
<1> HIDE DEF A, B
<1>3. Seq(A) \subseteq Seq(B)
  BY <1>2, SeqMonotonic
<1> QED
  BY <1>1, <1>3 DEF SomeLines, A, B

\* Characters that are no line feed go on with the last line.
LEMMA LinesConcat ==
    ASSUME NEW text \in Seq(Chars), NEW line \in Seq(InLine)
    PROVE  Lines(text \o line) = Append(Front(Lines(text)), Last(Lines(text)) \o line)
<1> DEFINE T == Seq(InLine)
           f == Front(Lines(text))
           l == Last(Lines(text))
           good == {v \in Seq(InLine) : Lines(text \o v) = Append(f, l \o v)}
<1>1. Lines(text) \in Seq(T) /\ Lines(text) # << >>
  BY LinesType DEF SomeLines
<1>2. f \in Seq(T) /\ l \in T /\ Lines(text) = Append(f, l)
  <2> HIDE DEF T
  <2> QED
    BY <1>1, FrontLast
<1> HIDE DEF f, l
<1>3. << >> \in good
  <2>1. text \o << >> = text /\ l \o << >> = l /\ << >> \in Seq(InLine)
    <3>1. l \in Seq(InLine) /\ << >> \in Seq(InLine)
      BY <1>2
    <3> QED
      BY <3>1, ConcatEmptySeq
  <2> QED
    BY <1>2, <2>1
<1>4. ASSUME NEW v \in Seq(InLine), NEW c \in InLine, v \in good PROVE Append(v, c) \in good
  <2>1. c \in Chars /\ c # LF /\ v \in Seq(Chars)
    BY InLineText DEF InLine
  <2>2. text \o Append(v, c) = Append(text \o v, c) /\ text \o v \in Seq(Chars)
    BY <2>1, AppendConcat, ConcatProperties
  <2>3. Lines(Append(text \o v, c)) = Grown(Lines(text \o v), c)
    BY <2>1, <2>2, LinesAppend
  <2>4. Lines(text \o v) = Append(f, l \o v)
    BY <1>4
  <2>5. l \o v \in T /\ Append(v, c) \in T /\ l \o Append(v, c) = Append(l \o v, c)
    <3>1. l \in Seq(InLine)
      BY <1>2
    <3> QED
      BY <3>1, AppendConcat, ConcatProperties, AppendProperties
  <2> DEFINE w == l \o v
  <2>6. w \in T /\ f \in Seq(T)
    BY <1>2, <2>5
  <2> HIDE DEF w, T
  <2>7. Front(Append(f, w)) = f /\ Last(Append(f, w)) = w
    BY <2>6, FrontLastAppend
  <2>8. Grown(Append(f, w), c) = Append(f, Append(w, c))
    BY <2>1, <2>7, Zenon DEF Grown
  <2>9. Lines(text \o Append(v, c)) = Append(f, l \o Append(v, c))
    BY <2>2, <2>3, <2>4, <2>5, <2>8, Zenon DEF w
  <2> QED
    BY <2>5, <2>9 DEF T
<1>5. Seq(InLine) \subseteq good
  <2> HIDE DEF good
  <2> QED
    BY <1>3, <1>4, SeqInduction
<1> QED
  BY <1>5 DEF f, l

\* Splitting undoes joining.
LEMMA LinesJoin ==
    ASSUME NEW lines \in SomeLines
    PROVE  Lines(Join(lines)) = lines
<1> DEFINE T == Seq(InLine)
           good == {ls \in Seq(T) : ls # << >> => Lines(Join(ls)) = ls}
<1>1. << >> \in good
  OBVIOUS
<1>2. ASSUME NEW ls \in Seq(T), NEW l \in T, ls \in good PROVE Append(ls, l) \in good
  <2>1. l \in Seq(Chars) /\ << >> \in T /\ << >> \o l = l
    BY InLineText, EmptySeq, ConcatEmptySeq
  <2>2. Append(ls, l) \in Seq(T)
    <3> HIDE DEF T
    <3> QED
      BY AppendProperties
  <2>3. CASE ls = << >>
    <3>1. Join(Append(ls, l)) = l
      <4>1. << >> \in Seq(Seq(Chars))
        OBVIOUS
      <4> QED
        BY <2>1, <2>3, <4>1, JoinAppend
    <3>2. Lines(<< >> \o l) = Append(Front(Lines(<< >>)), Last(Lines(<< >>)) \o l)
      <4>1. << >> \in Seq(Chars)
        OBVIOUS
      <4> QED
        BY <4>1, LinesConcat
    <3> DEFINE e == << >>
               none == << << >> >>
    <3>3. Front(none) = << >> /\ Last(none) = << >>
      <4>1. << >> \in Seq(T) /\ Append(<< >>, e) = none /\ e \in T
        BY <2>1
      <4> HIDE DEF e, none, T
      <4>2. Front(Append(<< >>, e)) = << >> /\ Last(Append(<< >>, e)) = e
        BY <4>1, FrontLastAppend
      <4> QED
        BY <4>1, <4>2 DEF e
    <3>4. Lines(l) = Append(<< >>, l)
      BY <2>1, <3>2, <3>3, LinesEmpty
    <3> QED
      BY <2>2, <2>3, <3>1, <3>4
  <2>4. CASE ls # << >>
    <3> DEFINE J == Join(ls)
               e == <<LF>>
    <3>1. ls \in SomeLines /\ ls \in Seq(Seq(Chars))
      BY <2>4, InLineText DEF SomeLines
    <3>2. J \in Seq(Chars) /\ Lines(J) = ls /\ LF \in Chars /\ e \in Seq(Chars)
      BY <1>2, <2>4, <3>1, FedType, FileToolsAssumption
    <3>3. Join(Append(ls, l)) = J \o (e \o l)
      BY <2>1, <2>4, <3>1, JoinAppend
    <3>4. Append(J, LF) = J \o e /\ Append(J, LF) \in Seq(Chars)
      BY <3>2, AppendIsConcat, AppendProperties
    <3>5. Lines(Append(J, LF)) = Append(ls, << >>)
      BY <3>2, LinesAppend DEF Grown
    <3> HIDE DEF J, e, T
    <3>6. Front(Append(ls, << >>)) = ls /\ Last(Append(ls, << >>)) = << >>
      BY <2>1, FrontLastAppend
    <3>7. Lines(Append(J, LF) \o l) = Append(ls, << >> \o l)
      <4>1. l \in Seq(InLine)
        BY DEF T
      <4> QED
        BY <3>4, <3>5, <3>6, <4>1, LinesConcat
    <3>8. (J \o e) \o l = J \o (e \o l)
      BY <2>1, <3>2, ConcatAssociative, SMTT(30)
    <3> QED
      BY <2>1, <2>2, <3>3, <3>4, <3>7, <3>8
  <2> QED
    BY <2>3, <2>4
<1>3. Seq(T) \subseteq good
  <2> HIDE DEF good, T
  <2> QED
    BY <1>1, <1>2, SeqInduction
<1> QED
  BY <1>3 DEF SomeLines

-----------------------------------------------------------------------------
(* Bytes, and what a page has of its lines. *)

LEMMA BytesType ==
    ASSUME NEW text \in Seq(Chars)
    PROVE  /\ Bytes(text) \in Nat /\ Bytes(text) >= Len(text)
           /\ Bytes(text) = Len(text) + Cardinality({i \in 1..Len(text) : text[i] \in Wide})
<1> DEFINE n == Len(text)
           W == {i \in 1..n : text[i] \in Wide}
<1>1. n \in Nat /\ n \in Int /\ 1 \in Int
  BY LenProperties
<1>2. IsFiniteSet(1..n)
  <2> HIDE DEF n
  <2> QED
    BY <1>1, FS_Interval
<1>3. W \in SUBSET (1..n)
  OBVIOUS
<1>5. Bytes(text) = n + Cardinality(W)
  BY DEF Bytes
<1> HIDE DEF W, n
<1>4. Cardinality(W) \in Nat
  BY <1>2, <1>3, FS_Subset, FS_CardinalityType
<1> QED
  BY <1>1, <1>4, <1>5 DEF n, W

\* A loop that adds up.
LEMMA Sums ==
    ASSUME NEW n \in Nat, NEW c \in [1..n -> Nat]
    PROVE  \E f : f \in [0..n -> Nat] /\ f = [i \in 0..n |-> IF i = 0 THEN 0 ELSE f[i - 1] + c[i]]
<1> DEFINE Step == [p \in (1..n) \X Nat |-> p[2] + c[p[1]]]
<1>1. Step \in [(1..n) \X Nat -> Nat] /\ 0 \in Nat
  OBVIOUS
<1>2. PICK f : Iterates(f, n, Nat, 0, Step)
  <2> HIDE DEF Step
  <2> QED
    BY <1>1, Loop, Zenon
<1>3. f \in [0..n -> Nat] /\ f[0] = 0
  BY <1>2 DEF Iterates
<1>4. ASSUME NEW i \in 1..n PROVE f[i] = f[i - 1] + c[i]
  <2>1. i - 1 \in 0..n
    OBVIOUS
  <2>2. <<i, f[i - 1]>> \in (1..n) \X Nat
    BY <1>3, <2>1
  <2>3. Step[<<i, f[i - 1]>>] = f[i - 1] + c[i]
    BY <2>2
  <2> HIDE DEF Step
  <2> QED
    BY <1>2, <2>3 DEF Iterates
<1>5. ASSUME NEW i \in 0..n PROVE f[i] = IF i = 0 THEN 0 ELSE f[i - 1] + c[i]
  <2>1. i = 0 \/ i \in 1..n
    OBVIOUS
  <2> QED
    BY <1>3, <1>4, <2>1
<1> QED
  BY <1>3, <1>5

LEMMA HeadBytesLoop ==
    ASSUME NEW lines \in Seq(AllTexts)
    PROVE  \A i \in 0..Len(lines) :
             HeadBytes(lines)[i] = IF i = 0 THEN 0 ELSE HeadBytes(lines)[i - 1] + LineBytes(lines, i, 1)
<1> DEFINE n == Len(lines)
           c == [i \in 1..n |-> LineBytes(lines, i, 1)]
           Took(f) == f = [i \in 0..n |-> IF i = 0 THEN 0 ELSE f[i - 1] + LineBytes(lines, i, 1)]
<1>1. n \in Nat /\ \A i \in 1..n : lines[i] \in AllTexts
  BY LenProperties, ElementOfSeq
<1>2. HeadBytes(lines) = CHOOSE f : Took(f)
  BY DEF HeadBytes
<1> HIDE DEF n
<1>3. ASSUME NEW i \in 1..n PROVE LineBytes(lines, i, 1) \in Nat
  <2>1. Bytes(lines[i]) \in Nat
    BY <1>1, BytesType DEF AllTexts
  <2> QED
    BY <2>1 DEF LineBytes
<1>4. c \in [1..n -> Nat]
  BY <1>3
<1>5. PICK f : f \in [0..n -> Nat] /\ f = [i \in 0..n |-> IF i = 0 THEN 0 ELSE f[i - 1] + c[i]]
  <2> HIDE DEF c
  <2> QED
    BY <1>1, <1>4, Sums
<1>6. Took(f)
  <2>1. ASSUME NEW i \in 0..n
        PROVE  f[i] = IF i = 0 THEN 0 ELSE f[i - 1] + LineBytes(lines, i, 1)
    <3>1. CASE i = 0
      BY <1>5, <3>1
    <3>2. CASE i # 0
      <4>1. i \in 1..n
        BY <1>1, <3>2
      <4>2. f[i] = f[i - 1] + c[i] /\ c[i] = LineBytes(lines, i, 1)
        BY <1>5, <3>2, <4>1
      <4> QED
        BY <3>2, <4>2
    <3> QED
      BY <3>1, <3>2
  <2>2. f = [i \in 0..n |-> f[i]]
    BY <1>5
  <2> QED
    BY <2>1, <2>2
<1>7. Took(HeadBytes(lines))
  <2> HIDE DEF Took
  <2> QED
    BY <1>2, <1>6
<1>8. ASSUME NEW i \in 0..n
      PROVE  HeadBytes(lines)[i] = IF i = 0 THEN 0 ELSE HeadBytes(lines)[i - 1] + LineBytes(lines, i, 1)
  BY <1>7
<1> QED
  BY <1>8 DEF n

\* A page has a line at least, where the first one fits.
LEMMA HeadCountType ==
    ASSUME NEW lines \in Seq(AllTexts), lines # << >>, Bytes(lines[1]) <= MaxBytes
    PROVE  HeadCount(lines) \in 1..Len(lines)
<1> DEFINE n == Len(lines)
           fit == {i \in 0..n : i <= MaxLines /\ HeadBytes(lines)[i] <= MaxBytes}
<1>1. n \in Nat \ {0} /\ lines[1] \in AllTexts /\ MaxLines \in Nat \ {0}
  <2>1. n \in Nat \ {0}
    BY EmptySeq
  <2>2. 1 \in 1..n
    <3> HIDE DEF n
    <3> QED
      BY <2>1
  <2> QED
    BY <2>1, <2>2, ElementOfSeq, FileToolsAssumption
<1>2. HeadCount(lines) = Max(fit)
  BY DEF HeadCount
<1>3. \A i \in 0..n :
        HeadBytes(lines)[i] = IF i = 0 THEN 0 ELSE HeadBytes(lines)[i - 1] + LineBytes(lines, i, 1)
  BY HeadBytesLoop
<1> HIDE DEF n
<1>4. HeadBytes(lines)[1] = Bytes(lines[1])
  <2>1. 0 \in 0..n /\ 1 \in 0..n /\ 1 - 1 = 0
    BY <1>1
  <2>2. HeadBytes(lines)[0] = 0 /\ HeadBytes(lines)[1] = 0 + LineBytes(lines, 1, 1)
    BY <1>3, <2>1
  <2>3. LineBytes(lines, 1, 1) = Bytes(lines[1]) + 0 /\ Bytes(lines[1]) \in Nat
    BY <1>1, BytesType DEF LineBytes, AllTexts
  <2> QED
    BY <2>2, <2>3
<1>5. 1 \in fit
  BY <1>1, <1>4
<1>6. fit \in SUBSET (0..n) /\ fit # {} /\ n \in Nat
  BY <1>1, <1>5
<1> HIDE DEF fit
<1>7. Max(fit) \in fit /\ 1 <= Max(fit)
  BY <1>5, <1>6, LargestOf
<1>8. Max(fit) \in 0..n
  BY <1>6, <1>7
<1>9. HeadCount(lines) \in 1..n
  BY <1>1, <1>2, <1>7, <1>8
<1> QED
  BY <1>9 DEF n

\* The lines that count, of lines joined, are the lines themselves, or all but
\* an empty last one.
LEMMA CountedJoin ==
    ASSUME NEW lines \in SomeLines, Join(lines) # << >>
    PROVE  \E c \in 1..Len(lines) : CountedLines(Join(lines)) = SubSeq(lines, 1, c)
<1> DEFINE n == Len(lines)
           t == Join(lines)
<1>1. Lines(t) = lines /\ lines \in Seq(Seq(InLine)) /\ lines # << >> /\ t \in Seq(Chars)
  BY LinesJoin, InLineText, FedType DEF SomeLines
<1>2. n \in Nat \ {0}
  BY <1>1, EmptySeq
<1>3. CASE Last(t) # LF
  <2>1. CountedLines(t) = lines
    BY <1>1, <1>3 DEF CountedLines
  <2>2. SubSeq(lines, 1, n) = lines
    BY <1>1, SubSeqFull
  <2>3. n \in 1..n
    <3> HIDE DEF n
    <3> QED
      BY <1>2
  <2> QED
    BY <2>1, <2>2, <2>3
<1>4. CASE Last(t) = LF
  <2>1. CountedLines(t) = SubSeq(lines, 1, n - 1)
    BY <1>1, <1>4 DEF CountedLines, Front
  <2>2. n # 1
    <3> SUFFICES ASSUME n = 1 PROVE FALSE
      OBVIOUS
    <3> DEFINE T == Seq(InLine)
               l == lines[1]
    <3>1. l \in T /\ 1 \in 1..n
      BY <1>1, ElementOfSeq
    <3>2. lines = <<l>>
      <4>1. <<l>> \in Seq(T) /\ Len(<<l>>) = 1 /\ <<l>>[1] = l
        BY <3>1
      <4>2. lines \in Seq(T) /\ Len(lines) = Len(<<l>>) /\ \A i \in 1..Len(lines) : lines[i] = <<l>>[i]
        BY <1>1, <4>1
      <4> HIDE DEF T, l
      <4> QED
        BY <4>1, <4>2, SeqEqual, Zenon
    <3>3. l \in Seq(Chars)
      BY <3>1, InLineText
    <3>4. t = l
      <4> HIDE DEF l
      <4> QED
        BY <3>2, <3>3, JoinSingle
    <3>5. l # << >> /\ l \in Seq(InLine)
      BY <3>1, <3>4
    <3> HIDE DEF l
    <3>6. Last(l) \in InLine
      BY <3>5, FrontLast
    <3> QED
      BY <1>4, <3>4, <3>6 DEF InLine
  <2>3. n - 1 \in 1..n
    <3> HIDE DEF n
    <3> QED
      BY <1>2, <2>2
  <2> QED
    BY <2>1, <2>3
<1> QED
  BY <1>3, <1>4

-----------------------------------------------------------------------------
(* Bytes of texts put together. *)

\* The bytes of a character.
Cost(c) == IF c \in Wide THEN 2 ELSE 1

LEMMA BytesEmpty == Bytes(<< >>) = 0
<1>1. {i \in 1..0 : << >>[i] \in Wide} = {} /\ Len(<< >>) = 0
  OBVIOUS
<1>2. Bytes(<< >>) = 0 + Cardinality({})
  BY <1>1 DEF Bytes
<1> QED
  BY <1>2, FS_EmptySet

LEMMA BytesAppend ==
    ASSUME NEW text \in Seq(Chars), NEW c \in Chars
    PROVE  Bytes(Append(text, c)) = Bytes(text) + Cost(c)
<1> DEFINE n == Len(text)
           t == Append(text, c)
           V == {i \in 1..n : text[i] \in Wide}
           W == {i \in 1..(n + 1) : t[i] \in Wide}
<1>1. /\ n \in Nat /\ t \in Seq(Chars) /\ Len(t) = n + 1 /\ t[n + 1] = c
      /\ \A i \in 1..n : t[i] = text[i]
  BY AppendProperties, LenProperties
<1>2. Bytes(text) = n + Cardinality(V) /\ Bytes(t) = (n + 1) + Cardinality(W)
  BY <1>1 DEF Bytes
<1> HIDE DEF n, t
<1>3. IsFiniteSet(V) /\ Cardinality(V) \in Nat /\ n + 1 \notin V
  <2>1. IsFiniteSet(1..n)
    BY <1>1, FS_Interval
  <2>2. V \in SUBSET (1..n)
    OBVIOUS
  <2>3. n + 1 \notin V
    BY <1>1
  <2> HIDE DEF V
  <2> QED
    BY <2>1, <2>2, <2>3, FS_Subset, FS_CardinalityType
<1>4. CASE c \in Wide
  <2>1. W = V \cup {n + 1}
    BY <1>1, <1>4
  <2> HIDE DEF V, W
  <2>2. Cardinality(W) = Cardinality(V) + 1
    BY <1>3, <2>1, FS_AddElement
  <2> QED
    BY <1>1, <1>2, <1>3, <1>4, <2>2 DEF Cost, t
<1>5. CASE c \notin Wide
  <2>1. W = V
    BY <1>1, <1>5
  <2> HIDE DEF V, W
  <2> QED
    BY <1>1, <1>2, <1>3, <1>5, <2>1 DEF Cost, t
<1> QED
  BY <1>4, <1>5

LEMMA BytesConcat ==
    ASSUME NEW text \in Seq(Chars), NEW more \in Seq(Chars)
    PROVE  Bytes(text \o more) = Bytes(text) + Bytes(more)
<1> DEFINE good == {v \in Seq(Chars) : Bytes(text \o v) = Bytes(text) + Bytes(v)}
<1>1. << >> \in good
  <2>1. text \o << >> = text /\ << >> \in Seq(Chars)
    BY ConcatEmptySeq
  <2>2. Bytes(text) \in Nat
    BY BytesType
  <2> QED
    BY <2>1, <2>2, BytesEmpty
<1>2. ASSUME NEW v \in Seq(Chars), NEW c \in Chars, v \in good PROVE Append(v, c) \in good
  <2>1. text \o Append(v, c) = Append(text \o v, c) /\ text \o v \in Seq(Chars) /\ Append(v, c) \in Seq(Chars)
    BY AppendConcat, ConcatProperties, AppendProperties
  <2>2. Bytes(Append(text \o v, c)) = Bytes(text \o v) + Cost(c) /\ Bytes(Append(v, c)) = Bytes(v) + Cost(c)
    BY <2>1, BytesAppend
  <2>3. Bytes(text) \in Nat /\ Bytes(v) \in Nat /\ Cost(c) \in Nat
    BY BytesType DEF Cost
  <2>4. Bytes(text \o v) = Bytes(text) + Bytes(v)
    BY <1>2
  <2>5. Bytes(text \o Append(v, c)) = Bytes(text) + Bytes(Append(v, c))
    BY <2>1, <2>2, <2>3, <2>4
  <2> QED
    BY <2>1, <2>5
<1>3. Seq(Chars) \subseteq good
  <2> HIDE DEF good
  <2> QED
    BY <1>1, <1>2, SeqInduction
<1> QED
  BY <1>3

LEMMA BytesFeed == Bytes(<<LF>>) = 1 /\ <<LF>> \in Seq(Chars) /\ Len(<<LF>>) = 1
<1>1. LF \in Chars /\ LF \notin Wide /\ << >> \in Seq(Chars) /\ Append(<< >>, LF) = <<LF>>
  BY FileToolsAssumption
<1>2. Bytes(Append(<< >>, LF)) = 0 + Cost(LF)
  BY <1>1, BytesAppend, BytesEmpty
<1> QED
  BY <1>1, <1>2 DEF Cost

-----------------------------------------------------------------------------
(* read_tool's promise. *)

LEMMA FeedBetween ==
    ASSUME NEW a \in Seq(Chars), NEW b \in Seq(Chars)
    PROVE  (a \o <<LF>>) \o b = a \o (<<LF>> \o b)
<1> DEFINE c == <<LF>>
<1>1. c \in Seq(Chars)
  BY FileToolsAssumption
<1> HIDE DEF c
<1>2. (a \o c) \o b = a \o (c \o b)
  BY <1>1, ConcatAssociative, SMTT(30)
<1> QED
  BY <1>2 DEF c

\* What has been shown, and the lines from there on.
LEMMA ShowsMore ==
    ASSUME NEW F \in Seq(AllTexts), NEW o \in 1..Len(F), NEW h \in 1..(Len(F) - o + 1)
    PROVE  Join(SubSeq(F, 1, o + h - 1)) =
             IF o = 1 THEN Join(SubSeq(F, o, o + h - 1))
             ELSE Join(SubSeq(F, 1, o - 1)) \o <<LF>> \o Join(SubSeq(F, o, o + h - 1))
<1> DEFINE N == Len(F)
           e == o + h - 1
           u == SubSeq(F, 1, o - 1)
           v == SubSeq(F, o, e)
<1>1. N \in Nat /\ N = Len(F) /\ o \in 1..N /\ h \in 1..(N - o + 1)
  BY LenProperties
<1> HIDE DEF N
<1>2. e \in o..N /\ e - o + 1 = h
  BY <1>1
<1> HIDE DEF e
<1>3. CASE o = 1
  BY <1>3 DEF e
<1>4. CASE o # 1
  <2>1. /\ 1 \in 1..(N + 1) /\ o - 1 \in (1 - 1)..N /\ e \in (o - 1)..N /\ (o - 1) + 1 = o
        /\ o \in 1..(N + 1) /\ (o - 1) - 1 + 1 = o - 1 /\ o - 1 # 0
    <3>1. o \in Nat /\ e \in Nat /\ N \in Nat /\ 1 < o /\ o <= N /\ o <= e /\ e <= N
      BY <1>1, <1>2, <1>4
    <3> QED
      BY <3>1
  <2>2. u \o v = SubSeq(F, 1, e)
    <3>1. SubSeq(F, 1, o - 1) \o SubSeq(F, (o - 1) + 1, e) = SubSeq(F, 1, e)
      BY <1>1, <2>1, ConcatAdjacentSubSeq
    <3> QED
      BY <2>1, <3>1
  <2>3. u \in Seq(AllTexts) /\ Len(u) = o - 1
    BY <1>1, <2>1, SubSeqType
  <2>4. v \in Seq(AllTexts) /\ Len(v) = h
    BY <1>1, <1>2, <2>1, SubSeqType
  <2> HIDE DEF u, v
  <2>5. u # << >> /\ v # << >>
    BY <1>1, <2>1, <2>3, <2>4, EmptySeq
  <2>6. Join(u \o v) = Join(u) \o (<<LF>> \o Join(v))
    BY <2>3, <2>4, <2>5, JoinConcat
  <2>7. (Join(u) \o <<LF>>) \o Join(v) = Join(u) \o (<<LF>> \o Join(v))
    <3>1. Join(u) \in Seq(Chars) /\ Join(v) \in Seq(Chars)
      BY <2>3, <2>4, FedType DEF AllTexts
    <3> QED
      BY <3>1, FeedBetween, Zenon
  <2> QED
    BY <1>4, <2>2, <2>6, <2>7 DEF e, u, v
<1> QED
  BY <1>3, <1>4

\* A line over the byte limit, shown by itself.
LEMMA OneLine ==
    ASSUME NEW F \in Seq(AllTexts), NEW o \in 1..Len(F)
    PROVE  F[o] = Join(SubSeq(F, o, o))
<1> DEFINE l == F[o]
           s == SubSeq(F, o, o)
           N == Len(F)
<1>1. l \in AllTexts /\ N \in Nat
  BY ElementOfSeq, LenProperties
<1>2. o \in 1..(N + 1) /\ o \in (o - 1)..N /\ o - o + 1 = 1 /\ 1 \in 1..(o - o + 1) /\ o + 1 - 1 = o
  <2> HIDE DEF N
  <2>1. o \in 1..N
    BY DEF N
  <2> QED
    BY <1>1, <2>1
<1>3. s \in Seq(AllTexts) /\ Len(s) = 1 /\ s[1] = l
  <2>1. s \in Seq(AllTexts) /\ Len(s) = o - o + 1
    BY <1>2, SubSeqType
  <2>2. \A i \in 1..(o - o + 1) : s[i] = F[o + i - 1]
    BY <1>2, SubSeqProperties
  <2> HIDE DEF s
  <2> QED
    BY <1>2, <2>1, <2>2
<1>4. s = <<l>>
  <2> HIDE DEF s, l
  <2>1. <<l>> \in Seq(AllTexts) /\ Len(<<l>>) = 1 /\ <<l>>[1] = l
    BY <1>1
  <2>2. Len(s) = Len(<<l>>) /\ \A i \in 1..Len(s) : s[i] = <<l>>[i]
    BY <1>3, <2>1
  <2> QED
    BY <1>3, <2>1, <2>2, SeqEqual, Zenon
<1>5. Join(<<l>>) = l
  <2>1. l \in Seq(Chars)
    BY <1>1 DEF AllTexts
  <2> HIDE DEF l
  <2> QED
    BY <2>1, JoinSingle
<1> QED
  BY <1>4, <1>5

\* The first lines cost what they come to, joined.
LEMMA HeadBytesJoin ==
    ASSUME NEW lines \in Seq(AllTexts), NEW i \in 1..Len(lines)
    PROVE  HeadBytes(lines)[i] = Bytes(Join(SubSeq(lines, 1, i)))
<1> DEFINE N == Len(lines)
           J(k) == Join(SubSeq(lines, 1, k))
           C(k) == LineBytes(lines, k, 1)
           T(n) == HeadBytes(lines)[n]
           good == {d \in Nat : d + 1 <= N => T(d + 1) = Bytes(J(d + 1)) /\ J(d + 1) \in Seq(Chars)}
<1>1. N \in Nat /\ N = Len(lines) /\ i \in 1..N
  BY LenProperties
<1>2. \A n \in 0..N : T(n) = IF n = 0 THEN 0 ELSE T(n - 1) + C(n)
  BY HeadBytesLoop
<1>3. \A k \in 1..N : lines[k] \in Seq(Chars) /\ Bytes(lines[k]) \in Nat
  BY ElementOfSeq, BytesType DEF AllTexts
<1>4. \A k \in 1..N : C(k) = Bytes(lines[k]) + (IF k = 1 THEN 0 ELSE 1)
  BY DEF LineBytes
<1> HIDE DEF N
\* One line more.
<1>5. ASSUME NEW k \in 1..N
      PROVE  J(k) = IF k = 1 THEN lines[k] ELSE J(k - 1) \o <<LF>> \o lines[k]
  <2>1. k \in 1..Len(lines) /\ 1 \in 1..(Len(lines) - k + 1)
    BY <1>1
  <2>2. k + 1 - 1 = k
    BY <1>1
  <2>3. Join(SubSeq(lines, 1, k + 1 - 1)) =
          IF k = 1 THEN Join(SubSeq(lines, k, k + 1 - 1))
          ELSE Join(SubSeq(lines, 1, k - 1)) \o <<LF>> \o Join(SubSeq(lines, k, k + 1 - 1))
    BY <2>1, ShowsMore
  <2>4. lines[k] = Join(SubSeq(lines, k, k))
    BY <2>1, OneLine
  <2> QED
    BY <2>2, <2>3, <2>4
<1> HIDE DEF J, C, T
<1>6. 0 \in good
  <2>1. ASSUME 0 + 1 <= N PROVE T(0 + 1) = Bytes(J(0 + 1)) /\ J(0 + 1) \in Seq(Chars)
    <3>1. 0 \in 0..N /\ 1 \in 0..N /\ 1 \in 1..N /\ 1 - 1 = 0 /\ 0 + 1 = 1
      BY <1>1, <2>1
    <3>2. T(1) = T(0) + C(1) /\ T(0) = 0
      BY <1>2, <3>1
    <3>3. C(1) = Bytes(lines[1]) + 0 /\ Bytes(lines[1]) \in Nat /\ J(1) = lines[1] /\ lines[1] \in Seq(Chars)
      BY <1>3, <1>4, <1>5, <3>1
    <3>4. T(1) = Bytes(J(1)) /\ J(1) \in Seq(Chars)
      BY <3>2, <3>3
    <3> QED
      BY <3>1, <3>4
  <2> QED
    BY <2>1
<1>7. ASSUME NEW d \in Nat, d \in good PROVE d + 1 \in good
  <2>1. ASSUME (d + 1) + 1 <= N
        PROVE  T((d + 1) + 1) = Bytes(J((d + 1) + 1)) /\ J((d + 1) + 1) \in Seq(Chars)
    <3> DEFINE k == (d + 1) + 1
               l == lines[k]
               h == J(d + 1)
               e == <<LF>>
    <3>1. k \in 1..N /\ k \in 0..N /\ k # 0 /\ k # 1 /\ k - 1 = d + 1 /\ d + 1 <= N
      BY <1>1, <2>1
    <3> HIDE DEF k
    <3>2. T(k) = T(d + 1) + C(k)
      BY <1>2, <3>1
    <3>3. T(d + 1) = Bytes(h) /\ h \in Seq(Chars)
      BY <1>7, <3>1
    <3>4. C(k) = Bytes(l) + 1 /\ J(k) = h \o e \o l /\ l \in Seq(Chars) /\ Bytes(l) \in Nat
      BY <1>3, <1>4, <1>5, <3>1
    <3> HIDE DEF h, l
    <3>5. e \in Seq(Chars) /\ Bytes(e) = 1
      BY BytesFeed
    <3> HIDE DEF e
    <3>6. h \o e \in Seq(Chars) /\ Bytes(h \o e) = Bytes(h) + 1
      BY <3>3, <3>5, BytesConcat, ConcatProperties
    <3> DEFINE g == h \o e
    <3> HIDE DEF g
    <3>7. g \o l \in Seq(Chars) /\ Bytes(g \o l) = Bytes(g) + Bytes(l)
      <4>1. g \in Seq(Chars)
        BY <3>6 DEF g
      <4> QED
        BY <3>4, <4>1, BytesConcat, ConcatProperties
    <3>8. Bytes(h) \in Nat
      BY <3>3, BytesType
    <3>9. Bytes(g) = Bytes(h) + 1 /\ J(k) = g \o l
      BY <3>4, <3>6 DEF g
    <3>10. T(k) = Bytes(J(k)) /\ J(k) \in Seq(Chars)
      BY <3>2, <3>3, <3>4, <3>7, <3>8, <3>9
    <3> QED
      BY <3>10 DEF k
  <2> QED
    BY <2>1
<1>8. Nat \subseteq good
  <2> HIDE DEF good
  <2> QED
    BY <1>6, <1>7, Induction
<1> DEFINE d == i - 1
<1>9. d \in Nat /\ d + 1 <= N /\ d + 1 = i
  BY <1>1
<1> HIDE DEF d
<1>10. d \in good
  BY <1>8, <1>9
<1>11. T(d + 1) = Bytes(J(d + 1))
  BY <1>9, <1>10
<1> QED
  BY <1>9, <1>11 DEF T, J

\* A page that is cut leaves a line of what was asked for.
LEMMA CutPage ==
    ASSUME NEW lines \in Seq(AllTexts), lines # << >>, Bytes(lines[1]) <= MaxBytes,
           Len(lines) <= MaxLines => Bytes(Join(lines)) > MaxBytes
    PROVE  HeadCount(lines) < Len(lines)
<1> DEFINE N == Len(lines)
           fit == {i \in 0..N : i <= MaxLines /\ HeadBytes(lines)[i] <= MaxBytes}
           h == HeadCount(lines)
<1>1. N \in Nat /\ N = Len(lines) /\ MaxLines \in Nat /\ MaxBytes \in Nat
  BY LenProperties, FileToolsAssumption
<1>2. h \in 1..N
  BY HeadCountType
<1>3. h = Max(fit)
  BY DEF HeadCount
<1>4. SubSeq(lines, 1, N) = lines
  BY SubSeqFull
<1>5. \A i \in 1..N : HeadBytes(lines)[i] = Bytes(Join(SubSeq(lines, 1, i)))
  BY HeadBytesJoin
<1>6. Bytes(Join(lines)) \in Nat
  BY FedType, BytesType DEF AllTexts
<1> HIDE DEF N, h
<1>7. 0 \in fit
  <2>1. HeadBytes(lines)[0] = 0 /\ 0 \in 0..N
    <3>1. 0 \in 0..Len(lines)
      BY <1>1
    <3> QED
      BY <1>1, <3>1, HeadBytesLoop
  <2> QED
    BY <1>1, <2>1
<1>8. fit \in SUBSET (0..N) /\ fit # {}
  BY <1>7
<1>9. h \in fit
  <2> HIDE DEF fit
  <2> QED
    BY <1>1, <1>3, <1>8, LargestOf
<1>10. h # N
  <2> SUFFICES ASSUME h = N PROVE FALSE
    OBVIOUS
  <2>1. N <= MaxLines /\ HeadBytes(lines)[N] <= MaxBytes /\ N \in 1..N
    BY <1>2, <1>9
  <2>2. HeadBytes(lines)[N] = Bytes(Join(lines))
    BY <1>4, <1>5, <2>1
  <2> QED
    BY <1>1, <1>6, <2>1, <2>2
<1>11. h < N
  BY <1>1, <1>2, <1>10
<1> QED
  BY <1>11 DEF h, N

\* What is kept fits.
LEMMA HeadFits ==
    ASSUME NEW lines \in Seq(AllTexts), lines # << >>, Bytes(lines[1]) <= MaxBytes
    PROVE  Bytes(Join(SubSeq(lines, 1, HeadCount(lines)))) <= MaxBytes
<1> DEFINE N == Len(lines)
           fit == {i \in 0..N : i <= MaxLines /\ HeadBytes(lines)[i] <= MaxBytes}
           h == HeadCount(lines)
<1>1. N \in Nat
  BY LenProperties
<1>2. h \in 1..N /\ h = Max(fit)
  BY HeadCountType DEF HeadCount
<1>3. 0 \in fit
  <2>1. 0 \in 0..N
    <3> HIDE DEF N
    <3> QED
      BY <1>1
  <2>2. HeadBytes(lines)[0] = 0
    BY <2>1, HeadBytesLoop
  <2> QED
    BY <2>1, <2>2, FileToolsAssumption
<1>4. HeadBytes(lines)[h] = Bytes(Join(SubSeq(lines, 1, h)))
  BY <1>2, HeadBytesJoin
<1> HIDE DEF N, h
<1>5. fit \in SUBSET (0..N) /\ fit # {}
  BY <1>3
<1>6. h \in fit
  <2> HIDE DEF fit
  <2> QED
    BY <1>1, <1>2, <1>5, LargestOf
<1> QED
  BY <1>4, <1>6 DEF h

\* No line of a text has more bytes than the text.
LEMMA BytesOfLine ==
    ASSUME NEW lines \in Seq(AllTexts), NEW i \in 1..Len(lines)
    PROVE  Bytes(lines[i]) <= Bytes(Join(lines))
<1> DEFINE N == Len(lines)
           T(n) == HeadBytes(lines)[n]
           C(n) == LineBytes(lines, n, 1)
           b == Bytes(lines[i])
           good == {d \in Nat : i + d <= N => b <= T(i + d)}
<1>1. N \in Nat /\ i \in 1..N
  BY LenProperties
<1>2. \A n \in 0..N : T(n) = IF n = 0 THEN 0 ELSE T(n - 1) + C(n)
  BY HeadBytesLoop
<1>3. \A n \in 1..N : C(n) \in Nat /\ Bytes(lines[n]) <= C(n) /\ Bytes(lines[n]) \in Nat
  <2>1. ASSUME NEW n \in 1..N PROVE C(n) \in Nat /\ Bytes(lines[n]) <= C(n) /\ Bytes(lines[n]) \in Nat
    <3>1. Bytes(lines[n]) \in Nat
      BY ElementOfSeq, BytesType DEF AllTexts
    <3> QED
      BY <3>1 DEF LineBytes
  <2> QED
    BY <2>1
<1>4. T(N) = Bytes(Join(lines))
  <2>1. N \in 1..N
    <3> HIDE DEF N
    <3> QED
      BY <1>1
  <2>2. T(N) = Bytes(Join(SubSeq(lines, 1, N)))
    BY <2>1, HeadBytesJoin
  <2> QED
    BY <2>2, SubSeqFull
<1> HIDE DEF N, T, C
<1>5. \A n \in 0..N : T(n) \in Nat
  <2> DEFINE typed == {n \in Nat : n <= N => T(n) \in Nat}
  <2>1. 0 \in typed
    <3>1. 0 \in 0..N
      BY <1>1
    <3> QED
      BY <1>2, <3>1
  <2>2. ASSUME NEW n \in Nat, n \in typed PROVE n + 1 \in typed
    <3> SUFFICES ASSUME n + 1 <= N PROVE T(n + 1) \in Nat
      OBVIOUS
    <3>1. n + 1 \in 0..N /\ n + 1 \in 1..N /\ n + 1 # 0 /\ n + 1 - 1 = n /\ n <= N
      BY <1>1
    <3>2. T(n + 1) = T(n) + C(n + 1)
      BY <1>2, <3>1
    <3> QED
      BY <1>3, <2>2, <3>1, <3>2
  <2>3. Nat \subseteq typed
    <3> HIDE DEF typed
    <3> QED
      BY <2>1, <2>2, Induction
  <2> QED
    BY <1>1, <2>3
<1>6. b \in Nat /\ b <= C(i)
  BY <1>1, <1>3
<1> HIDE DEF b
<1>7. 0 \in good
  <2>1. i \in 0..N /\ i - 1 \in 0..N /\ i # 0 /\ i + 0 = i
    BY <1>1
  <2>2. T(i) = T(i - 1) + C(i) /\ T(i - 1) \in Nat /\ C(i) \in Nat
    BY <1>1, <1>2, <1>3, <1>5, <2>1
  <2>3. b <= T(i)
    BY <1>6, <2>2
  <2> QED
    BY <2>1, <2>3
<1>8. ASSUME NEW d \in Nat, d \in good PROVE d + 1 \in good
  <2> SUFFICES ASSUME i + (d + 1) <= N PROVE b <= T(i + (d + 1))
    OBVIOUS
  <2>1. /\ i + (d + 1) \in 0..N /\ i + (d + 1) \in 1..N /\ i + (d + 1) # 0
        /\ i + (d + 1) - 1 = i + d /\ i + d \in 0..N /\ i + d <= N
    BY <1>1
  <2>2. T(i + (d + 1)) = T(i + d) + C(i + (d + 1)) /\ T(i + d) \in Nat /\ C(i + (d + 1)) \in Nat
    BY <1>2, <1>3, <1>5, <2>1
  <2>3. b <= T(i + d)
    BY <1>8, <2>1
  <2> QED
    BY <1>6, <2>2, <2>3
<1>9. Nat \subseteq good
  <2> HIDE DEF good
  <2> QED
    BY <1>7, <1>8, Induction
<1>10. N - i \in Nat /\ i + (N - i) = N
  BY <1>1
<1>11. b <= T(N)
  <2>1. N - i \in good
    BY <1>9, <1>10
  <2> QED
    BY <1>1, <1>10, <2>1
<1> QED
  BY <1>4, <1>11 DEF b

\* The beginning of a line is a text, and what sed prints of any line.
LEMMA SedType ==
    ASSUME NEW n \in Nat \ {0}, file \in Seq(Chars)
    PROVE  SedPrints(n) \in Seq(Chars)
<1> DEFINE L == Lines(file)
           line == L[n]
           fit == {i \in 0..Len(line) : Bytes(SubSeq(line, 1, i)) <= MaxBytes}
<1>1. << >> \in Seq(Chars)
  OBVIOUS
<1>2. ASSUME n <= Len(L) PROVE Beginning(line) \in Seq(Chars)
  <2>1. L \in Seq(AllTexts) /\ Len(L) \in Nat
    BY LinesType, InLineText, LenProperties DEF AllTexts
  <2>2. n \in 1..Len(L)
    <3> HIDE DEF L
    <3> QED
      BY <1>2, <2>1
  <2>3. line \in Seq(Chars) /\ Len(line) \in Nat
    BY <2>1, <2>2, ElementOfSeq, LenProperties DEF AllTexts
  <2> HIDE DEF L, line
  <2>4. 0 \in fit
    <3>1. SubSeq(line, 1, 0) = << >>
      <4>1. 1 \in 1..(Len(line) + 1) /\ 0 \in (1 - 1)..Len(line) /\ 0 - 1 + 1 = 0
        BY <2>3
      <4>2. SubSeq(line, 1, 0) \in Seq(Chars) /\ Len(SubSeq(line, 1, 0)) = 0
        BY <2>3, <4>1, SubSeqType
      <4> QED
        BY <4>2, EmptySeq
    <3>2. 0 \in 0..Len(line) /\ 0 <= MaxBytes
      BY <2>3, FileToolsAssumption
    <3> QED
      BY <3>1, <3>2, BytesEmpty
  <2>5. fit \in SUBSET (0..Len(line)) /\ fit # {}
    BY <2>4
  <2>6. Max(fit) \in 0..Len(line)
    <3> DEFINE m == Len(line)
    <3>1. m \in Nat /\ fit \in SUBSET (0..m) /\ fit # {}
      BY <2>3, <2>5
    <3> HIDE DEF fit, m
    <3>2. Max(fit) \in fit
      BY <3>1, LargestOf
    <3> QED
      BY <3>1, <3>2 DEF m
  <2>7. Beginning(line) = SubSeq(line, 1, Max(fit))
    BY DEF Beginning
  <2> DEFINE x == Max(fit)
  <2> HIDE DEF x
  <2>8. 1 \in 1..(Len(line) + 1) /\ x \in (1 - 1)..Len(line)
    BY <2>3, <2>6 DEF x
  <2>9. SubSeq(line, 1, x) \in Seq(Chars)
    BY <2>3, <2>8, SubSeqType
  <2> QED
    BY <2>7, <2>9 DEF x
<1> QED
  BY <1>1, <1>2 DEF SedPrints

\* What is shown of the lines is as many texts.
LEMMA ShownLinesType ==
    ASSUME file \in Seq(Chars)
    PROVE  /\ FileLines \in Seq(AllTexts) /\ Len(FileLines) \in Nat \ {0}
           /\ ShownLines \in Seq(AllTexts) /\ Len(ShownLines) = Len(FileLines)
<1> DEFINE F == FileLines
           N == Len(F)
<1>1. F \in SomeLines
  BY NormalType, LinesType DEF FileLines, Readable
<1>2. F \in Seq(AllTexts) /\ F # << >>
  BY <1>1, InLineText DEF AllTexts
<1>3. N \in Nat \ {0}
  <2> HIDE DEF F
  <2> QED
    BY <1>2, EmptySeq
<1>4. ASSUME NEW n \in 1..N PROVE ShownLines[n] \in AllTexts
  <2>1. n \in Nat \ {0}
    <3> HIDE DEF N
    <3> QED
      BY <1>3
  <2>2. F[n] \in AllTexts
    BY <1>2, ElementOfSeq
  <2> QED
    BY <2>1, <2>2, SedType DEF ShownLines, AllTexts
<1>5. ShownLines \in [1..N -> AllTexts]
  BY <1>4 DEF ShownLines
<1> HIDE DEF N
<1>6. ShownLines \in Seq(AllTexts) /\ Len(ShownLines) = N
  BY <1>3, <1>5
<1> QED
  BY <1>2, <1>3, <1>6 DEF N

\* A page that fits shows its lines as they are.
LEMMA ShownPage ==
    ASSUME file \in Seq(Chars), NEW o \in 1..Len(FileLines), NEW h \in 1..(Len(FileLines) - o + 1),
           Bytes(Join(SubSeq(FileLines, o, o + h - 1))) <= MaxBytes
    PROVE  SubSeq(ShownLines, o, o + h - 1) = SubSeq(FileLines, o, o + h - 1)
<1> DEFINE F == FileLines
           N == Len(F)
           e == o + h - 1
           u == SubSeq(F, o, e)
           v == SubSeq(ShownLines, o, e)
<1>1. F \in Seq(AllTexts) /\ N \in Nat /\ ShownLines \in Seq(AllTexts) /\ Len(ShownLines) = N
  BY ShownLinesType
<1>2. o \in 1..N /\ h \in 1..(N - o + 1)
  OBVIOUS
<1> HIDE DEF F, N
<1>3. o \in 1..(N + 1) /\ e \in (o - 1)..N /\ e - o + 1 = h
  BY <1>1, <1>2
<1>4. u \in Seq(AllTexts) /\ Len(u) = h /\ \A i \in 1..h : u[i] = F[o + i - 1]
  BY <1>1, <1>3, SubSeqType DEF N
<1>5. v \in Seq(AllTexts) /\ Len(v) = h /\ \A i \in 1..h : v[i] = ShownLines[o + i - 1]
  BY <1>1, <1>3, SubSeqType
<1>6. ASSUME NEW i \in 1..h PROVE v[i] = u[i]
  <2>1. o + i - 1 \in 1..N
    BY <1>1, <1>2
  <2>2. Bytes(u[i]) <= Bytes(Join(u))
    BY <1>4, <1>6, BytesOfLine
  <2>3. Bytes(u[i]) \in Nat /\ Bytes(Join(u)) \in Nat
    <3>1. u[i] \in Seq(Chars)
      BY <1>4, ElementOfSeq DEF AllTexts
    <3>2. Join(u) \in Seq(Chars)
      BY <1>4, FedType DEF AllTexts
    <3> QED
      BY <3>1, <3>2, BytesType
  <2>4. Bytes(Join(u)) <= MaxBytes
    BY DEF F
  <2>5. Bytes(u[i]) <= MaxBytes
    BY <2>2, <2>3, <2>4, FileToolsAssumption
  <2>6. ShownLines[o + i - 1] = F[o + i - 1]
    <3>1. Bytes(F[o + i - 1]) <= MaxBytes
      BY <1>4, <2>5
    <3> QED
      BY <2>1, <3>1 DEF ShownLines, F, N
  <2> QED
    BY <1>4, <1>5, <2>6
<1> HIDE DEF u, v
<1>7. u = v
  BY <1>4, <1>5, <1>6, SeqEqual
<1> QED
  BY <1>7 DEF u, v, F

\* The page at the offset, and the offset in its footer: one line at least, and
\* the next one after what the page shows, if there is one.
LEMMA PageStep ==
    ASSUME NEW limit \in Limits, file \in Seq(Chars), offset \in 1..Len(FileLines)
    PROVE  /\ FileLines \in SomeLines
           /\ TooLong(limit) => Bytes(FileLines[offset]) > MaxBytes
           /\ ~TooLong(limit) => Bytes(Page(limit)) <= MaxBytes
           /\ ~TooLong(limit) =>
                \E h \in 1..(Len(FileLines) - offset + 1) :
                  /\ Page(limit) = Join(SubSeq(FileLines, offset, offset + h - 1))
                  /\ \/ (NextOffset(limit) = offset + h /\ offset + h <= Len(FileLines))
                     \/ (NextOffset(limit) = 0 /\ offset + h - 1 = Len(FileLines))
<1> DEFINE F == FileLines
           N == Len(F)
           o == offset
           e == Min({o + limit - 1, N})
           G == SubSeq(F, o, e)
           sel == Selected(limit)
           CL == CountedLines(sel)
<1>1. F \in SomeLines
  BY NormalType, LinesType DEF FileLines, Readable
<1>2. limit \in Nat \ {0} /\ o \in 1..N /\ F \in Seq(Seq(InLine)) /\ F # << >>
  BY <1>1, FileToolsAssumption DEF SomeLines
<1>3. N \in Nat /\ N = Len(F)
  BY <1>2, LenProperties
<1>4. sel = Join(G)
  BY DEF Selected
<1> HIDE DEF F, N, o
<1>5. e \in o..N /\ (e = o + limit - 1 \/ e = N) /\ e <= o + limit - 1
  <2> DEFINE both == {o + limit - 1, N}
  <2>1. both \in SUBSET Nat /\ both # {} /\ o + limit - 1 \in both /\ N \in both
    BY <1>2, <1>3
  <2>2. \A x \in both : x = o + limit - 1 \/ x = N
    OBVIOUS
  <2> HIDE DEF both
  <2>3. Min(both) \in both /\ Min(both) <= o + limit - 1 /\ Min(both) <= N
    BY <2>1, LeastOf
  <2> QED
    BY <1>2, <1>3, <2>2, <2>3 DEF both
<1> HIDE DEF e
<1>6. G \in SomeLines /\ Len(G) = e - o + 1
  <2> DEFINE T == Seq(InLine)
  <2>1. F \in Seq(T) /\ o \in 1..(Len(F) + 1) /\ e \in (o - 1)..Len(F)
    BY <1>2, <1>3, <1>5
  <2>2. o \in Nat /\ e \in Nat /\ e - o + 1 # 0
    BY <1>2, <1>3, <1>5
  <2> HIDE DEF T
  <2>3. G \in Seq(T) /\ Len(G) = e - o + 1
    BY <2>1, SubSeqType
  <2> HIDE DEF G
  <2>4. G # << >>
    BY <2>2, <2>3, EmptySeq
  <2> QED
    BY <2>3, <2>4 DEF T, SomeLines
<1>7. CASE Fits(sel)
  <2> DEFINE h == e - o + 1
  <2>1. h \in 1..(N - o + 1) /\ o + h - 1 = e /\ o + h = e + 1
    BY <1>2, <1>3, <1>5
  <2>2. Page(limit) = Join(G)
    BY <1>4, <1>7 DEF Page
  <2>3. NextOffset(limit) = IF o + limit - 1 < N THEN o + limit ELSE 0
    BY <1>7 DEF NextOffset, o, N, F
  <2>4. (NextOffset(limit) = o + h /\ o + h <= N) \/ (NextOffset(limit) = 0 /\ o + h - 1 = N)
    <3>1. CASE o + limit - 1 < N
      <4>1. e = o + limit - 1
        BY <1>2, <1>3, <1>5, <3>1
      <4>2. o + limit = o + h /\ o + h <= N
        <5> HIDE DEF h
        <5>1. o \in Int /\ limit \in Int /\ e \in Int /\ N \in Int /\ o + h = e + 1
          BY <1>2, <1>3, <1>5, <2>1
        <5>2. e + 1 = o + limit /\ e + 1 <= N
          BY <3>1, <4>1, <5>1
        <5> QED
          BY <5>1, <5>2
      <4> HIDE DEF h
      <4>3. NextOffset(limit) = o + limit
        BY <2>3, <3>1
      <4> QED
        BY <4>2, <4>3
    <3>2. CASE ~(o + limit - 1 < N)
      <4>1. e = N
        BY <1>2, <1>3, <1>5, <3>2
      <4> QED
        BY <2>1, <2>3, <3>2, <4>1
    <3> QED
      BY <3>1, <3>2
  <2> HIDE DEF h, G
  <2>5. Page(limit) = Join(SubSeq(F, o, o + h - 1))
    BY <2>1, <2>2 DEF G
  <2>6. Bytes(Page(limit)) <= MaxBytes /\ ~TooLong(limit)
    BY <1>7 DEF Page, Fits, TooLong, sel
  <2> QED
    BY <1>1, <2>1, <2>4, <2>5, <2>6 DEF o, N, F
<1>10. ASSUME ~Fits(sel) PROVE sel # << >>
    <3> SUFFICES ASSUME sel = << >> PROVE FALSE
      OBVIOUS
    <3>1. CL = << >> /\ << >> \in Seq(Chars)
      BY DEF CountedLines
    <3>2. Bytes(<< >>) = 0
      <4>1. {i \in 1..0 : << >>[i] \in Wide} = {} /\ Len(<< >>) = 0
        OBVIOUS
      <4>2. Bytes(<< >>) = 0 + Cardinality({})
        BY <4>1 DEF Bytes
      <4> QED
        BY <4>2, FS_EmptySet
    <3>3. Len(<< >>) <= MaxLines /\ 0 <= MaxBytes
      BY FileToolsAssumption
    <3> QED
      BY <1>10, <3>1, <3>2, <3>3 DEF Fits
<1>11. CASE TooLong(limit)
  <2>1. ~Fits(sel) /\ Bytes(Head(CL)) > MaxBytes
    BY <1>11 DEF TooLong
  <2>2. sel # << >>
    BY <1>10, <2>1
  <2> HIDE DEF G, sel
  <2>3. PICK c \in 1..Len(G) : CL = SubSeq(G, 1, c)
    BY <1>4, <1>6, <2>2, CountedJoin
  <2>4. Head(CL) = F[o]
    <3> DEFINE g == Len(G)
    <3>1. g \in Nat /\ c \in 1..g /\ g = e - o + 1 /\ o \in Nat /\ e \in Nat
      BY <1>2, <1>3, <1>5, <1>6
    <3>2. G \in Seq(AllTexts) /\ F \in Seq(AllTexts)
      BY <1>1, <1>6, InLineText DEF AllTexts
    <3>3. 1 \in 1..(g + 1) /\ c \in (1 - 1)..g /\ 1 \in 1..(c - 1 + 1) /\ 1 + 1 - 1 = 1
      <4> HIDE DEF g
      <4> QED
        BY <3>1
    <3>4. CL[1] = G[1]
      BY <2>3, <3>2, <3>3, SubSeqType
    <3>5. o \in 1..(N + 1) /\ e \in (o - 1)..N /\ 1 \in 1..(e - o + 1) /\ o + 1 - 1 = o
      BY <1>2, <1>3, <1>5
    <3>6. G[1] = F[o]
      BY <1>3, <3>2, <3>5, SubSeqType DEF G
    <3>7. Head(CL) = CL[1]
      BY DEF Head
    <3> QED
      BY <3>4, <3>6, <3>7
  <2> QED
    BY <1>1, <1>11, <2>1, <2>4 DEF o, F
<1>8. CASE ~Fits(sel) /\ ~TooLong(limit)
  <2>1. sel # << >>
    BY <1>8, <1>10
  <2> HIDE DEF G, sel
  <2>2. PICK c \in 1..Len(G) : CL = SubSeq(G, 1, c)
    BY <1>4, <1>6, <2>1, CountedJoin
  <2>3. CL \in Seq(AllTexts) /\ Len(CL) = c /\ CL # << >> /\ c \in 1..(e - o + 1)
    <3>1. G \in Seq(AllTexts)
      BY <1>6, InLineText DEF AllTexts
    <3>2. 1 \in 1..(Len(G) + 1) /\ c \in (1 - 1)..Len(G) /\ c - 1 + 1 = c /\ c # 0 /\ c \in 1..(e - o + 1)
      <4> DEFINE g == Len(G)
      <4>1. g \in Nat /\ c \in 1..g /\ g = e - o + 1
        BY <1>2, <1>3, <1>5, <1>6
      <4> HIDE DEF g
      <4>2. 1 \in 1..(g + 1) /\ c \in (1 - 1)..g /\ c - 1 + 1 = c /\ c # 0 /\ c \in 1..(e - o + 1)
        BY <4>1
      <4> QED
        BY <4>2 DEF g
    <3>3. CL \in Seq(AllTexts) /\ Len(CL) = c
      BY <2>2, <3>1, <3>2, SubSeqType
    <3> HIDE DEF CL
    <3> QED
      BY <3>2, <3>3, EmptySeq
  <2>4. Bytes(CL[1]) <= MaxBytes
    <3>1. ~(Bytes(Head(CL)) > MaxBytes)
      BY <1>8 DEF TooLong, sel
    <3> HIDE DEF CL
    <3>2. Head(CL) = CL[1]
      BY <2>3
    <3>3. CL[1] \in Seq(Chars)
      <4>1. 1 \in 1..Len(CL)
        BY <2>3
      <4> QED
        BY <2>3, <4>1, ElementOfSeq DEF AllTexts
    <3>4. Bytes(CL[1]) \in Nat
      BY <3>3, BytesType
    <3> QED
      BY <3>1, <3>2, <3>4, FileToolsAssumption
  <2> DEFINE h == HeadCount(CL)
  <2>5. h \in 1..c
    <3> HIDE DEF CL
    <3> QED
      BY <2>3, <2>4, HeadCountType
  <2>6. Page(limit) = Join(SubSeq(CL, 1, h)) /\ NextOffset(limit) = o + h
    BY <1>8 DEF Page, TruncateHead, NextOffset, sel, o
  <2> HIDE DEF h
  <2>7. h \in 1..(N - o + 1)
    BY <1>2, <1>3, <1>5, <2>3, <2>5
  <2>8. SubSeq(CL, 1, h) = SubSeq(F, o, o + h - 1)
    <3>1. F \in Seq(AllTexts)
      BY <1>1, InLineText DEF AllTexts
    <3>2. 1 \in 1..(e - o + 1) /\ c \in 1..(e - o + 1) /\ h \in 1..(c - 1 + 1)
          /\ 1 \in 1..(c - 1 + 1) /\ 1 \in 1..Len(G) /\ c \in 1..Len(G)
          /\ o \in 1..N /\ e \in 1..N /\ o + 1 - 1 = o
          /\ h \in 1..(e - o + 1)
      BY <1>2, <1>3, <1>5, <1>6, <2>3, <2>5
    <3>3. G \in Seq(AllTexts)
      BY <1>6, InLineText DEF AllTexts
    <3>4. SubSeq(SubSeq(G, 1, c), 1, h) = SubSeq(G, 1 + 1 - 1, 1 + h - 1)
      BY <3>2, <3>3, SubSeqOfSubSeq
    <3>5. 1 + 1 - 1 = 1 /\ 1 + h - 1 = h
      BY <2>7
    <3>6. SubSeq(SubSeq(F, o, e), 1, h) = SubSeq(F, o + 1 - 1, o + h - 1)
      BY <1>3, <3>1, <3>2, SubSeqOfSubSeq
    <3> QED
      BY <2>2, <3>2, <3>4, <3>5, <3>6 DEF G
  <2>9. Page(limit) = Join(SubSeq(F, o, o + h - 1)) /\ NextOffset(limit) = o + h
    BY <2>6, <2>8
  <2>10. o + h <= N
    <3>1. CASE c = e - o + 1
      <4>1. CL = G
        <5>1. G \in Seq(Seq(InLine)) /\ c = Len(G)
          BY <1>6, <3>1 DEF SomeLines
        <5>2. SubSeq(G, 1, Len(G)) = G
          BY <5>1, SubSeqFull
        <5> QED
          BY <2>2, <5>1, <5>2
      <4>2. Len(CL) <= MaxLines => Bytes(Join(CL)) > MaxBytes
        <5>1. ~(Len(CL) <= MaxLines /\ Bytes(Join(CL)) <= MaxBytes)
          <6>1. ~(Len(CL) <= MaxLines /\ Bytes(sel) <= MaxBytes)
            BY <1>8 DEF Fits
          <6> QED
            BY <1>4, <4>1, <6>1, Zenon
        <5>2. Bytes(Join(CL)) \in Nat /\ MaxBytes \in Nat
          <6>1. Join(CL) \in Seq(Chars)
            BY <2>3, FedType DEF AllTexts
          <6> HIDE DEF CL
          <6> QED
            BY <6>1, BytesType, FileToolsAssumption
        <5> DEFINE x == Bytes(Join(CL))
        <5> HIDE DEF x
        <5>3. x \in Nat /\ MaxBytes \in Nat /\ (Len(CL) <= MaxLines => ~(x <= MaxBytes))
          BY <5>1, <5>2, Zenon DEF x
        <5>4. Len(CL) <= MaxLines => x > MaxBytes
          BY <5>3
        <5> QED
          BY <5>4 DEF x
      <4>3. HeadCount(CL) < Len(CL)
        <5> HIDE DEF CL
        <5> QED
          BY <2>3, <2>4, <4>2, CutPage
      <4>4. h < c
        <5>1. HeadCount(CL) < c
          BY <2>3, <4>3
        <5> QED
          BY <5>1 DEF h
      <4> QED
        BY <1>2, <1>3, <1>5, <2>3, <2>5, <3>1, <4>4
    <3>2. CASE c # e - o + 1
      BY <1>2, <1>3, <1>5, <2>3, <2>5, <3>2
    <3> QED
      BY <3>1, <3>2
  <2>11. \E k \in 1..(N - o + 1) :
           /\ Page(limit) = Join(SubSeq(F, o, o + k - 1))
           /\ (NextOffset(limit) = o + k /\ o + k <= N) \/ (NextOffset(limit) = 0 /\ o + k - 1 = N)
    BY <2>7, <2>9, <2>10, Zenon
  <2>12. Bytes(Page(limit)) <= MaxBytes
    <3> HIDE DEF CL
    <3> QED
      BY <2>3, <2>4, <2>6, HeadFits DEF h
  <2> QED
    BY <1>1, <1>8, <2>11, <2>12, Zenon DEF o, N, F
<1>9. Fits(sel) \/ ~Fits(sel)
  OBVIOUS
<1> QED
  BY <1>1, <1>7, <1>8, <1>9, <1>11, Zenon DEF F

\* Where a reader is, and what it has been shown.
ReadsInv ==
    /\ file \in Seq(Chars) /\ tool \in {"none", "edit", "read", "tail"}
    /\ tool # "read" => offset = 1
    /\ tool = "read" => offset = 0 \/ offset \in 2..Len(FileLines)
    /\ ReadsAll

\* A page, or a line, after what has been shown.
LEMMA ShowsPage ==
    ASSUME ReadsInv, NEW page, Shows(page), tool \in {"none", "read"}, tool' = "read", file' = file,
           offset # 0, offset <= Len(FileLines),
           NEW h \in 1..(Len(FileLines) - offset + 1),
           page = Join(SubSeq(ShownLines, offset, offset + h - 1)),
           \/ (offset' = offset + h /\ offset + h <= Len(FileLines))
           \/ (offset' = 0 /\ offset + h - 1 = Len(FileLines))
    PROVE  ReadsInv'
<1> DEFINE F == ShownLines
           N == Len(F)
<1>1. F \in Seq(AllTexts) /\ N \in Nat /\ N # 0 /\ Len(FileLines) = N
  BY ShownLinesType DEF ReadsInv
<1>2. F' = F /\ FileLines' = FileLines
  BY DEF ShownLines, SedPrints, FileLines, Readable
<1>3. offset \in 1..N /\ (offset # 1 => shown = Join(SubSeq(F, 1, offset - 1)))
  <2> HIDE DEF F
  <2>1. offset = 1 \/ (offset \in 2..N /\ tool = "read")
    BY <1>1 DEF ReadsInv, F
  <2>2. 1 \in 1..N
    BY <1>1
  <2>3. offset \in 1..N
    BY <1>1, <2>1, <2>2
  <2>4. tool = "read" => shown = Join(SubSeq(F, 1, offset - 1))
    BY DEF ReadsInv, ReadsAll, F
  <2> QED
    BY <2>1, <2>3, <2>4
<1> HIDE DEF F
<1>4. Join(SubSeq(F, 1, offset + h - 1)) =
        IF offset = 1 THEN page ELSE Join(SubSeq(F, 1, offset - 1)) \o <<LF>> \o page
  <2>1. h \in 1..(N - offset + 1)
    BY <1>1
  <2> QED
    BY <1>1, <1>3, <2>1, ShowsMore DEF F
<1>5. shown' = Join(SubSeq(F, 1, offset + h - 1))
  BY <1>3, <1>4, Zenon DEF Shows
<1>6. CASE offset' = offset + h /\ offset + h <= N
  <2>1. offset' - 1 = offset + h - 1 /\ offset' \in 2..N
    <3>1. h \in 1..(N - offset + 1)
      BY <1>1
    <3> QED
      BY <1>1, <1>3, <1>6, <3>1
  <2>2. offset' # 0 /\ offset' <= Len(FileLines') /\ shown' = Join(SubSeq(F', 1, offset' - 1))
    BY <1>1, <1>2, <1>5, <2>1
  <2>3. ReadsAll'
    BY <2>2, Zenon DEF ReadsAll, F
  <2>4. offset' \in 2..Len(FileLines')
    BY <1>1, <1>2, <2>1 DEF F
  <2> QED
    BY <2>3, <2>4 DEF ReadsInv
<1>7. CASE offset' = 0 /\ offset + h - 1 = N
  <2>1. SubSeq(F, 1, N) = F
    BY <1>1, SubSeqFull
  <2>2. shown' = Join(F')
    BY <1>1, <1>2, <1>5, <1>7, <2>1
  <2>3. ReadsAll'
    BY <1>7, <2>2, Zenon DEF ReadsAll, F
  <2> QED
    BY <1>7, <2>3 DEF ReadsInv
<1> QED
  BY <1>1, <1>6, <1>7

LEMMA ReadsInvInit == FileToolsInit => ReadsInv
<1> SUFFICES ASSUME FileToolsInit PROVE ReadsInv
  OBVIOUS
<1>1. file \in Seq(Chars) /\ tool = "none" /\ offset = 1
  BY FileToolsAssumption DEF FileToolsInit
<1>2. ReadsAll
  BY <1>1, Zenon DEF ReadsAll
<1> QED
  BY <1>1, <1>2 DEF ReadsInv

LEMMA ReadsPageStep ==
    ASSUME ReadsInv, NEW limit \in Limits, ReadsPage(limit)
    PROVE  ReadsInv'
<1> DEFINE N == Len(FileLines)
<1>1. FileLines \in SomeLines /\ N \in Nat /\ offset \in 1..N
  <2>1. FileLines \in SomeLines
    BY NormalType, LinesType DEF FileLines, Readable, ReadsInv
  <2>2. N \in Nat
    BY <2>1, LenProperties DEF SomeLines
  <2>3. offset = 1 \/ offset \in 2..N
    BY DEF ReadsInv, ReadsPage
  <2>4. offset <= N
    BY DEF ReadsPage
  <2> HIDE DEF N
  <2>5. offset \in 1..N
    BY <2>2, <2>3, <2>4
  <2> QED
    BY <2>1, <2>2, <2>5
<1>2. PICK h \in 1..(N - offset + 1) :
        /\ Page(limit) = Join(SubSeq(ShownLines, offset, offset + h - 1))
        /\ \/ (NextOffset(limit) = offset + h /\ offset + h <= N)
           \/ (NextOffset(limit) = 0 /\ offset + h - 1 = N)
  <2>1. file \in Seq(Chars) /\ ~TooLong(limit)
    BY DEF ReadsInv, ReadsPage
  <2>2. PICK h \in 1..(N - offset + 1) :
          /\ Page(limit) = Join(SubSeq(FileLines, offset, offset + h - 1))
          /\ \/ (NextOffset(limit) = offset + h /\ offset + h <= N)
             \/ (NextOffset(limit) = 0 /\ offset + h - 1 = N)
    BY <1>1, <2>1, PageStep
  <2>3. Bytes(Page(limit)) <= MaxBytes
    BY <1>1, <2>1, PageStep
  <2>4. SubSeq(ShownLines, offset, offset + h - 1) = SubSeq(FileLines, offset, offset + h - 1)
    BY <1>1, <2>1, <2>2, <2>3, ShownPage
  <2> QED
    BY <2>2, <2>4
<1>3. /\ Shows(Page(limit)) /\ tool \in {"none", "read"} /\ tool' = "read" /\ file' = file
      /\ offset # 0 /\ offset <= N /\ offset' = NextOffset(limit)
  BY DEF ReadsPage
<1>4. (offset' = offset + h /\ offset + h <= N) \/ (offset' = 0 /\ offset + h - 1 = N)
  BY <1>2, <1>3
<1> QED
  BY <1>2, <1>3, <1>4, ShowsPage, Zenon

LEMMA ReadsWithSedStep ==
    ASSUME ReadsInv, NEW limit \in Limits, ReadsWithSed(limit)
    PROVE  ReadsInv'
<1> DEFINE N == Len(FileLines)
<1>1. FileLines \in SomeLines /\ FileLines \in Seq(AllTexts) /\ N \in Nat /\ offset \in 1..N
  <2>1. FileLines \in SomeLines
    BY NormalType, LinesType DEF FileLines, Readable, ReadsInv
  <2>2. N \in Nat /\ FileLines \in Seq(AllTexts)
    BY <2>1, InLineText, LenProperties DEF SomeLines, AllTexts
  <2>3. offset = 1 \/ offset \in 2..N
    BY DEF ReadsInv, ReadsWithSed
  <2>4. offset <= N
    BY DEF ReadsWithSed
  <2> HIDE DEF N
  <2>5. offset \in 1..N
    BY <2>2, <2>3, <2>4
  <2> QED
    BY <2>1, <2>2, <2>5
<1>2. SedPrints(offset) = Join(SubSeq(ShownLines, offset, offset))
  <2>1. file \in Seq(Chars) /\ TooLong(limit)
    BY DEF ReadsInv, ReadsWithSed
  <2>2. Bytes(FileLines[offset]) > MaxBytes
    BY <1>1, <2>1, PageStep
  <2>3. ShownLines[offset] = SedPrints(offset)
    <3>1. Bytes(FileLines[offset]) \in Nat
      BY <1>1, ElementOfSeq, BytesType DEF AllTexts
    <3>2. ~(Bytes(FileLines[offset]) <= MaxBytes)
      BY <2>2, <3>1, FileToolsAssumption
    <3> QED
      BY <1>1, <3>2 DEF ShownLines
  <2>4. ShownLines \in Seq(AllTexts) /\ offset \in 1..Len(ShownLines)
    BY <1>1, <2>1, ShownLinesType
  <2> QED
    BY <2>3, <2>4, OneLine
<1>3. /\ Shows(SedPrints(offset)) /\ tool \in {"none", "read"} /\ tool' = "read" /\ file' = file
      /\ offset # 0 /\ offset <= N /\ offset' = IF offset < N THEN offset + 1 ELSE 0
  BY DEF ReadsWithSed
<1> HIDE DEF N
<1>4. 1 \in 1..(N - offset + 1) /\ offset + 1 - 1 = offset
  BY <1>1
<1>5. (offset' = offset + 1 /\ offset + 1 <= N) \/ (offset' = 0 /\ offset + 1 - 1 = N)
  BY <1>1, <1>3
<1>6. SedPrints(offset) = Join(SubSeq(ShownLines, offset, offset + 1 - 1))
  BY <1>2, <1>4
<1> QED
  BY <1>3, <1>4, <1>5, <1>6, ShowsPage, Zenon DEF N

LEMMA ReadsInvNext == ReadsInv /\ FilesInv /\ [FileToolsNext]_fileVars => ReadsInv'
<1> SUFFICES ASSUME ReadsInv, FilesInv, [FileToolsNext]_fileVars PROVE ReadsInv'
  OBVIOUS
<1>1. CASE UNCHANGED fileVars
  <2>1. file' = file /\ tool' = tool /\ shown' = shown /\ offset' = offset
    BY <1>1 DEF fileVars
  <2>2. ReadsAll' = ReadsAll /\ FileLines' = FileLines
    BY <2>1 DEF ReadsAll, ShownLines, SedPrints, FileLines, Readable
  <2>3. ReadsAll'
    BY <2>2, Zenon DEF ReadsInv
  <2> QED
    BY <2>1, <2>2, <2>3 DEF ReadsInv
<1>2. ASSUME NEW limit \in Limits, ReadsPage(limit) PROVE ReadsInv'
  BY <1>2, ReadsPageStep
<1>3. ASSUME NEW limit \in Limits, ReadsWithSed(limit) PROVE ReadsInv'
  BY <1>3, ReadsWithSedStep
<1>4. ASSUME ShowsOutput PROVE ReadsInv'
  <2>1. tool' = "tail" /\ file' = file /\ offset' = offset /\ offset = 1
    BY <1>4 DEF ShowsOutput, ReadsInv
  <2>2. ReadsAll'
    BY <2>1, Zenon DEF ReadsAll
  <2> QED
    BY <2>1, <2>2 DEF ReadsInv
<1>5. ASSUME NEW n \in 1..MaxEdits, NEW es \in [1..n -> Edits], EditsFile(es) PROVE ReadsInv'
  <2>1. tool' = "edit" /\ offset' = offset /\ offset = 1
    BY <1>5 DEF EditsFile, ReadsInv
  <2>2. ReadsAll'
    BY <2>1, Zenon DEF ReadsAll
  <2>3. file' \in Seq(Chars)
    BY <1>5, EditedType
  <2> QED
    BY <2>1, <2>2, <2>3 DEF ReadsInv
<1> QED
  BY <1>1, <1>2, <1>3, <1>4, <1>5 DEF FileToolsNext

\* A model that follows the footers of its read calls has been shown every line
\* that the byte limit has room for, whole, once and in its place, up to the
\* offset that it is told to go on at, which is that of a line of the file; and
\* in the place of a longer line what the command of its notice prints.
THEOREM ReadsAllCorrect == FileToolsSpec => []ReadsAll
<1>1. ReadsInv => ReadsAll
  BY DEF ReadsInv
<1> QED
  BY <1>1, FilesInvInit, FilesInvNext, ReadsInvInit, ReadsInvNext, PTL DEF FileToolsSpec

-----------------------------------------------------------------------------
(* The types. *)

\* Pieces of one character at most.
LEMMA FlatShort ==
    ASSUME NEW S, NEW ss \in Seq(Seq(S)), \A i \in 1..Len(ss) : Len(ss[i]) <= 1
    PROVE  Len(FlattenSeq(ss)) <= Len(ss)
<1> DEFINE T == Seq(S)
           Short(u) == \A i \in 1..Len(u) : Len(u[i]) <= 1
           good == {u \in Seq(T) : Short(u) => Len(FlattenSeq(u)) <= Len(u)}
<1>1. << >> \in good
  <2>1. << >> \in Seq(T) /\ Len(<< >>) = 0 /\ Len(FlattenSeq(<< >>)) = 0
    BY FlatEmpty
  <2> QED
    BY <2>1
<1>2. ASSUME NEW u \in Seq(T), NEW e \in T, u \in good PROVE Append(u, e) \in good
  <2> DEFINE v == Append(u, e)
             n == Len(u)
             F == FlattenSeq(u)
  <2>1. /\ v \in Seq(T) /\ Len(v) = n + 1 /\ v[n + 1] = e /\ n \in Nat
        /\ \A i \in 1..n : v[i] = u[i]
    <3> HIDE DEF T
    <3> QED
      BY AppendProperties, LenProperties
  <2>2. FlattenSeq(v) = F \o e /\ F \in Seq(S)
    BY FlatAppend, FlatType
  <2>3. Len(F \o e) = Len(F) + Len(e) /\ Len(F) \in Nat /\ Len(e) \in Nat
    BY <2>2, ConcatProperties, LenProperties
  <2>4. ASSUME Short(v) PROVE Len(FlattenSeq(v)) <= Len(v)
    <3>1. n + 1 \in 1..(n + 1) /\ \A i \in 1..n : i \in 1..(n + 1)
      BY <2>1
    <3>2. Len(e) <= 1
      BY <2>1, <2>4, <3>1
    <3>3. \A i \in 1..n : Len(u[i]) <= 1
      BY <2>1, <2>4, <3>1
    <3>4. Len(F) <= n
      BY <1>2, <3>3
    <3> HIDE DEF F, n
    <3> QED
      BY <2>1, <2>2, <2>3, <3>2, <3>4
  <2> QED
    BY <2>1, <2>4
<1>3. Seq(T) \subseteq good
  <2> HIDE DEF good, T
  <2> QED
    BY <1>1, <1>2, SeqInduction
<1> QED
  BY <1>3

\* Normalizing makes no text longer.
LEMMA NormalShort ==
    ASSUME NEW text \in Seq(Chars)
    PROVE  Len(NormalizeToLf(text)) <= Len(text)
<1> DEFINE P == Pieces(text)
<1>1. P \in Seq(Seq(Chars)) /\ Len(P) = Len(text) /\ NormalizeToLf(text) = FlattenSeq(P)
  BY PiecesType
<1>2. ASSUME NEW i \in 1..Len(P) PROVE Len(P[i]) <= 1
  <2>1. P[i] = Piece(text, i)
    BY <1>1 DEF Pieces
  <2>2. Len(<< >>) = 0 /\ Len(<<LF>>) = 1 /\ Len(<<text[i]>>) = 1
    OBVIOUS
  <2> HIDE DEF P
  <2>3. P[i] = << >> \/ P[i] = <<LF>> \/ P[i] = <<text[i]>>
    BY <2>1 DEF Piece
  <2> DEFINE l == Len(P[i])
  <2>4. l = 0 \/ l = 1
    BY <2>2, <2>3, Zenon
  <2> HIDE DEF l
  <2>5. l <= 1
    BY <2>4
  <2> QED
    BY <2>5 DEF l
<1> HIDE DEF P
<1> QED
  BY <1>1, <1>2, FlatShort

LEMMA FileToolsTyped ==
    ASSUME FilesInv, ReadsInv
    PROVE  FileToolsTypeOK
<1> DEFINE m == Len(file)
           r == Len(Readable)
           n == Len(FileLines)
<1>1. file \in Seq(Chars) /\ m \in Nat
  BY LenProperties DEF ReadsInv
<1>2. r <= m /\ r \in Nat
  BY <1>1, NormalShort, NormalType, LenProperties DEF Readable
<1>3. n \in 1..(r + 1)
  BY <1>1, LinesType, NormalType DEF FileLines, Readable
<1>4. offset = 0 \/ offset = 1 \/ offset \in 2..n
  BY DEF ReadsInv
<1> HIDE DEF m, r, n
<1>5. offset \in 0..(m + 1)
  BY <1>1, <1>2, <1>3, <1>4
<1>6. \A i \in DOMAIN edits : edits[i] \in Edits
  BY DEF FilesInv
<1>7. taken \in BOOLEAN /\ (taken => tool = "edit")
  BY Zenon DEF FilesInv
<1> QED
  BY <1>5, <1>6, <1>7 DEF FileToolsTypeOK, FilesInv, m

\* The variables keep their types.
THEOREM FileToolsTypeCorrect == FileToolsSpec => []FileToolsTypeOK
BY FilesInvInit, FilesInvNext, ReadsInvInit, ReadsInvNext, FileToolsTyped, PTL DEF FileToolsSpec

-----------------------------------------------------------------------------
(* The last lines of an output. *)

\* A line more, before the others.
LEMMA JoinCons ==
    ASSUME NEW lines \in Seq(AllTexts), NEW a \in 1..(Len(lines) - 1)
    PROVE  LET rest == Join(SubSeq(lines, a + 1, Len(lines)))
               more == Join(SubSeq(lines, a, Len(lines)))
           IN  /\ more = lines[a] \o (<<LF>> \o rest) /\ rest \in Seq(Chars) /\ more \in Seq(Chars)
               /\ Bytes(more) = Bytes(lines[a]) + 1 + Bytes(rest)
               /\ Len(more) = Len(lines[a]) + 1 + Len(rest)
<1> DEFINE N == Len(lines)
           u == SubSeq(lines, a, a)
           v == SubSeq(lines, a + 1, N)
           w == SubSeq(lines, a, N)
           l == lines[a]
<1>1. N \in Nat /\ N = Len(lines) /\ a \in 1..(N - 1)
  BY LenProperties
<1>2. l \in AllTexts /\ l = Join(u)
  <2>1. a \in 1..Len(lines)
    <3> HIDE DEF N
    <3>1. a \in 1..N
      BY <1>1
    <3> QED
      BY <1>1, <3>1
  <2> QED
    BY <2>1, ElementOfSeq, OneLine
<1> HIDE DEF N
<1>3. /\ a \in 1..(N + 1) /\ a \in (a - 1)..N /\ N \in a..N /\ N \in (a - 1)..N
      /\ a + 1 \in 1..(N + 1) /\ N \in ((a + 1) - 1)..N
      /\ a - a + 1 = 1 /\ N - (a + 1) + 1 # 0
  BY <1>1
<1>4. u \in Seq(AllTexts) /\ Len(u) = a - a + 1 /\ v \in Seq(AllTexts) /\ Len(v) = N - (a + 1) + 1
  BY <1>1, <1>3, SubSeqType
<1>5. u \o v = w
  BY <1>1, <1>3, ConcatAdjacentSubSeq
<1> HIDE DEF u, v, w
<1>6. u # << >> /\ v # << >>
  <2>1. Len(u) # 0 /\ Len(v) # 0
    BY <1>3, <1>4
  <2>2. Len(<< >>) = 0
    OBVIOUS
  <2> QED
    BY <2>1, <2>2, Zenon
<1> DEFINE rest == Join(v)
           fed == <<LF>> \o rest
<1>7. Join(w) = l \o fed
  BY <1>2, <1>4, <1>5, <1>6, JoinConcat
<1>8. rest \in Seq(Chars) /\ l \in Seq(Chars)
  BY <1>2, <1>4, FedType DEF AllTexts
<1> HIDE DEF rest, l
<1>9. fed \in Seq(Chars) /\ Bytes(fed) = 1 + Bytes(rest) /\ Len(fed) = 1 + Len(rest)
  BY <1>8, BytesFeed, BytesConcat, ConcatProperties
<1> HIDE DEF fed
<1>10. /\ l \o fed \in Seq(Chars) /\ Bytes(l \o fed) = Bytes(l) + Bytes(fed)
       /\ Len(l \o fed) = Len(l) + Len(fed)
  BY <1>8, <1>9, BytesConcat, ConcatProperties
<1>11. Bytes(l) \in Nat /\ Bytes(rest) \in Nat /\ Len(l) \in Nat /\ Len(rest) \in Nat
  BY <1>8, BytesType, LenProperties
<1>12. Bytes(l \o fed) = Bytes(l) + 1 + Bytes(rest) /\ Len(l \o fed) = Len(l) + 1 + Len(rest)
  BY <1>9, <1>10, <1>11
<1> QED
  BY <1>1, <1>7, <1>8, <1>10, <1>12 DEF rest, fed, l, v, w

\* The lines from i on.
LinesFrom(lines, i) == Join(SubSeq(lines, i, Len(lines)))

LEMMA RestType ==
    ASSUME NEW lines \in Seq(AllTexts), NEW i \in 1..Len(lines)
    PROVE  /\ LinesFrom(lines, i) \in Seq(Chars) /\ Len(LinesFrom(lines, i)) \in Nat /\ Bytes(LinesFrom(lines, i)) \in Nat
           /\ i = Len(lines) => LinesFrom(lines, i) = lines[i]
<1> DEFINE N == Len(lines)
           r == SubSeq(lines, i, N)
<1>1. N \in Nat /\ N = Len(lines) /\ i \in 1..N
  BY LenProperties
<1> HIDE DEF N
<1>2. i \in 1..(N + 1) /\ N \in (i - 1)..N
  BY <1>1
<1>3. r \in Seq(AllTexts)
  BY <1>1, <1>2, SubSeqType
<1>4. i = N => Join(r) = lines[i]
  BY <1>1, OneLine
<1> HIDE DEF r
<1>5. Join(r) \in Seq(Chars)
  BY <1>3, FedType DEF AllTexts
<1>6. Len(Join(r)) \in Nat /\ Bytes(Join(r)) \in Nat
  BY <1>5, BytesType, LenProperties
<1> QED
  BY <1>1, <1>4, <1>5, <1>6 DEF LinesFrom, r

LEMMA RestMore ==
    ASSUME NEW lines \in Seq(AllTexts), NEW a \in 1..(Len(lines) - 1)
    PROVE  /\ Bytes(LinesFrom(lines, a)) = Bytes(lines[a]) + 1 + Bytes(LinesFrom(lines, a + 1))
           /\ Len(LinesFrom(lines, a)) > Len(LinesFrom(lines, a + 1))
<1> DEFINE N == Len(lines)
           p == Len(LinesFrom(lines, a))
           q == Len(LinesFrom(lines, a + 1))
           l == Len(lines[a])
<1>1. Bytes(LinesFrom(lines, a)) = Bytes(lines[a]) + 1 + Bytes(LinesFrom(lines, a + 1)) /\ p = l + 1 + q
  BY JoinCons DEF LinesFrom
<1>2. N \in Nat /\ N = Len(lines) /\ a \in 1..(N - 1)
  BY LenProperties
<1> HIDE DEF N
<1>3. a + 1 \in 1..N /\ a \in 1..N
  BY <1>2
<1>4. q \in Nat
  BY <1>2, <1>3, RestType
<1>5. l \in Nat
  BY <1>2, <1>3, ElementOfSeq, LenProperties DEF AllTexts
<1> HIDE DEF p, q, l
<1>6. p > q
  BY <1>1, <1>4, <1>5
<1> QED
  BY <1>1, <1>6 DEF p, q

\* More lines are longer.
LEMMA RestLonger ==
    ASSUME NEW lines \in Seq(AllTexts), NEW i \in 1..Len(lines), NEW j \in 1..Len(lines), i < j
    PROVE  Len(LinesFrom(lines, j)) < Len(LinesFrom(lines, i))
<1> DEFINE N == Len(lines)
           L(k) == Len(LinesFrom(lines, k))
           good == {d \in Nat : \A k \in 1..N : k + d + 1 <= N => L(k + d + 1) < L(k)}
<1>1. N \in Nat /\ N = Len(lines) /\ i \in 1..N /\ j \in 1..N
  BY LenProperties
<1>2. \A k \in 1..(N - 1) : L(k) > L(k + 1)
  BY RestMore
<1>3. \A k \in 1..N : L(k) \in Nat
  BY RestType
<1> HIDE DEF N, L
<1>4. 0 \in good
  <2>1. ASSUME NEW k \in 1..N, k + 0 + 1 <= N PROVE L(k + 0 + 1) < L(k)
    <3>1. k \in 1..(N - 1) /\ k + 0 + 1 = k + 1 /\ k + 1 \in 1..N
      BY <1>1, <2>1
    <3>2. L(k + 0 + 1) = L(k + 1)
      BY <3>1
    <3>3. L(k) > L(k + 1)
      BY <1>2, <3>1
    <3>4. L(k) \in Nat /\ L(k + 1) \in Nat
      BY <1>3, <3>1
    <3> QED
      BY <3>2, <3>3, <3>4
  <2> QED
    BY <2>1
<1>5. ASSUME NEW d \in Nat, d \in good PROVE d + 1 \in good
  <2>1. ASSUME NEW k \in 1..N, k + (d + 1) + 1 <= N PROVE L(k + (d + 1) + 1) < L(k)
    <3>1. /\ k \in 1..(N - 1) /\ k + 1 \in 1..N /\ (k + 1) + d + 1 <= N
          /\ (k + 1) + d + 1 = k + (d + 1) + 1 /\ k + (d + 1) + 1 \in 1..N
      BY <1>1, <2>1
    <3>2. L((k + 1) + d + 1) < L(k + 1)
      BY <1>5, <3>1
    <3>3. L(k + (d + 1) + 1) = L((k + 1) + d + 1)
      BY <3>1
    <3>4. L(k) > L(k + 1)
      BY <1>2, <3>1
    <3>5. L(k) \in Nat /\ L(k + 1) \in Nat /\ L(k + (d + 1) + 1) \in Nat
      BY <1>3, <3>1
    <3> QED
      BY <3>2, <3>3, <3>4, <3>5
  <2> QED
    BY <2>1
<1>6. Nat \subseteq good
  <2> HIDE DEF good
  <2> QED
    BY <1>4, <1>5, Induction
<1> DEFINE d == j - i - 1
<1>7. d \in Nat /\ i + d + 1 = j /\ i + d + 1 <= N
  BY <1>1
<1> HIDE DEF d
<1>8. d \in good
  BY <1>6, <1>7
<1>9. L(i + d + 1) < L(i)
  BY <1>1, <1>7, <1>8
<1> QED
  BY <1>7, <1>9 DEF L

LEMMA TailBytesLoop ==
    ASSUME NEW lines \in Seq(AllTexts)
    PROVE  \A i \in 0..Len(lines) :
             TailBytes(lines)[i] =
               IF i = 0 THEN 0 ELSE TailBytes(lines)[i - 1] + TailLine(lines, Len(lines) + 1 - i)
<1> DEFINE n == Len(lines)
           c == [i \in 1..n |-> TailLine(lines, n + 1 - i)]
           Took(f) == f = [i \in 0..n |-> IF i = 0 THEN 0 ELSE f[i - 1] + TailLine(lines, n + 1 - i)]
<1>1. n \in Nat /\ \A i \in 1..n : lines[i] \in AllTexts
  BY LenProperties, ElementOfSeq
<1>2. TailBytes(lines) = CHOOSE f : Took(f)
  BY DEF TailBytes
<1> HIDE DEF n
<1>3. ASSUME NEW i \in 1..n PROVE TailLine(lines, n + 1 - i) \in Nat
  <2>1. n + 1 - i \in 1..n
    BY <1>1
  <2> DEFINE k == n + 1 - i
  <2>2. Bytes(lines[k]) \in Nat
    BY <1>1, <2>1, BytesType DEF AllTexts
  <2> HIDE DEF k
  <2>3. TailLine(lines, k) \in Nat
    BY <2>2 DEF TailLine, LineBytes
  <2> QED
    BY <2>3 DEF k
<1>4. c \in [1..n -> Nat]
  BY <1>3
<1>5. PICK f : f \in [0..n -> Nat] /\ f = [i \in 0..n |-> IF i = 0 THEN 0 ELSE f[i - 1] + c[i]]
  <2> HIDE DEF c
  <2> QED
    BY <1>1, <1>4, Sums
<1>6. Took(f)
  <2>1. ASSUME NEW i \in 0..n
        PROVE  f[i] = IF i = 0 THEN 0 ELSE f[i - 1] + TailLine(lines, n + 1 - i)
    <3>1. CASE i = 0
      BY <1>5, <3>1
    <3>2. CASE i # 0
      <4>1. i \in 1..n
        BY <1>1, <3>2
      <4>2. f[i] = f[i - 1] + c[i] /\ c[i] = TailLine(lines, n + 1 - i)
        BY <1>5, <3>2, <4>1
      <4> QED
        BY <3>2, <4>2
    <3> QED
      BY <3>1, <3>2
  <2>2. f = [i \in 0..n |-> f[i]]
    BY <1>5
  <2> QED
    BY <2>1, <2>2
<1>7. Took(TailBytes(lines))
  <2> HIDE DEF Took
  <2> QED
    BY <1>2, <1>6
<1>8. ASSUME NEW i \in 0..n
      PROVE  TailBytes(lines)[i] =
               IF i = 0 THEN 0 ELSE TailBytes(lines)[i - 1] + TailLine(lines, n + 1 - i)
  BY <1>7
<1> QED
  BY <1>8 DEF n

\* The last n lines cost what they come to, joined.
LEMMA TailBytesJoin ==
    ASSUME NEW lines \in Seq(AllTexts), NEW i \in 1..Len(lines)
    PROVE  TailBytes(lines)[Len(lines) + 1 - i] = Bytes(LinesFrom(lines, i))
<1> DEFINE N == Len(lines)
           B(k) == Bytes(LinesFrom(lines, k))
           C(k) == TailLine(lines, k)
           T(n) == TailBytes(lines)[n]
           good == {d \in Nat : d + 1 <= N => T(d + 1) = B(N + 1 - (d + 1))}
<1>1. N \in Nat /\ N = Len(lines) /\ i \in 1..N
  BY LenProperties
<1>2. \A n \in 0..N : T(n) = IF n = 0 THEN 0 ELSE T(n - 1) + C(N + 1 - n)
  BY TailBytesLoop
<1>3. \A k \in 1..N : lines[k] \in Seq(Chars) /\ Bytes(lines[k]) \in Nat /\ B(k) \in Nat
  BY ElementOfSeq, BytesType, RestType DEF AllTexts
<1>4. \A k \in 1..(N - 1) : B(k) = Bytes(lines[k]) + 1 + B(k + 1)
  BY RestMore
<1>5. N >= 1 => B(N) = Bytes(lines[N])
  <2>1. N >= 1 => N \in 1..N
    <3> HIDE DEF N
    <3> QED
      BY <1>1
  <2> QED
    BY <2>1, RestType
<1>6. \A k \in 1..N : C(k) = Bytes(lines[k]) + (IF k = N THEN 0 ELSE 1)
  BY DEF TailLine, LineBytes
<1> HIDE DEF N, B, C, T
<1>7. 0 \in good
  <2>1. ASSUME 0 + 1 <= N PROVE T(0 + 1) = B(N + 1 - (0 + 1))
    <3>1. 0 \in 0..N /\ 1 \in 0..N /\ N \in 1..N /\ N + 1 - 1 = N /\ 1 - 1 = 0
          /\ 0 + 1 = 1 /\ N + 1 - (0 + 1) = N
      BY <1>1, <2>1
    <3>2. T(1) = T(0) + C(N) /\ T(0) = 0
      BY <1>2, <3>1
    <3>3. C(N) = Bytes(lines[N]) + 0 /\ Bytes(lines[N]) \in Nat /\ B(N) = Bytes(lines[N])
      BY <1>3, <1>5, <1>6, <2>1, <3>1
    <3>4. T(1) = B(N)
      BY <3>2, <3>3
    <3> QED
      BY <3>1, <3>4
  <2> QED
    BY <2>1
<1>8. ASSUME NEW d \in Nat, d \in good PROVE d + 1 \in good
  <2>1. ASSUME (d + 1) + 1 <= N PROVE T((d + 1) + 1) = B(N + 1 - ((d + 1) + 1))
    <3> DEFINE k == N + 1 - ((d + 1) + 1)
               n == (d + 1) + 1
    <3>1. k \in 1..(N - 1) /\ k \in 1..N /\ k # N /\ n \in 0..N /\ n # 0 /\ n - 1 = d + 1
          /\ N + 1 - n = k /\ k + 1 = N + 1 - (d + 1) /\ d + 1 <= N /\ k + 1 \in 1..N
      BY <1>1, <2>1
    <3> HIDE DEF k, n
    <3>2. T(n) = T(n - 1) + C(k)
      BY <1>2, <3>1
    <3>3. T(d + 1) = B(N + 1 - (d + 1))
      BY <1>8, <3>1
    <3>4. T(n - 1) = B(k + 1)
      BY <3>1, <3>3
    <3>5. C(k) = Bytes(lines[k]) + 1 /\ B(k) = Bytes(lines[k]) + 1 + B(k + 1)
      BY <1>4, <1>6, <3>1
    <3>6. Bytes(lines[k]) \in Nat /\ B(k + 1) \in Nat
      BY <1>3, <3>1
    <3>7. T(n) = B(k)
      BY <3>2, <3>4, <3>5, <3>6
    <3> QED
      BY <3>7 DEF k, n
  <2> QED
    BY <2>1
<1>9. Nat \subseteq good
  <2> HIDE DEF good
  <2> QED
    BY <1>7, <1>8, Induction
<1> DEFINE d == N - i
<1>10. d \in Nat /\ d + 1 <= N /\ N + 1 - (d + 1) = i /\ d + 1 = N + 1 - i
  BY <1>1
<1> HIDE DEF d
<1>11. d \in good
  BY <1>9, <1>10
<1>12. T(d + 1) = B(N + 1 - (d + 1))
  BY <1>10, <1>11
<1>13. T(N + 1 - i) = B(i)
  BY <1>10, <1>12
<1> QED
  BY <1>13 DEF T, B, N

\* How many of the last lines are kept: they fit, and no longer run of the last
\* lines does.
LEMMA TailCountType ==
    ASSUME NEW lines \in Seq(AllTexts)
    PROVE  LET N == Len(lines)
               count == TailCount(lines)
           IN  /\ count \in 0..N
               /\ count # 0 => /\ count <= MaxLines
                               /\ Bytes(LinesFrom(lines, N + 1 - count)) <= MaxBytes
               /\ \A i \in 1..N : i + MaxLines > N /\ Bytes(LinesFrom(lines, i)) <= MaxBytes => N + 1 - i <= count
<1> DEFINE N == Len(lines)
           T(n) == TailBytes(lines)[n]
           fit == {n \in 0..N : n <= MaxLines /\ T(n) <= MaxBytes}
           count == TailCount(lines)
           B(k) == Bytes(LinesFrom(lines, k))
<1>1. N \in Nat /\ N = Len(lines) /\ MaxLines \in Nat /\ MaxBytes \in Nat
  BY LenProperties, FileToolsAssumption
<1>2. count = Max(fit)
  BY DEF TailCount
<1>3. \A i \in 1..N : T(N + 1 - i) = B(i)
  BY TailBytesJoin
<1>4. T(0) = 0
  <2>1. 0 \in 0..N
    <3> HIDE DEF N
    <3> QED
      BY <1>1
  <2> QED
    BY <2>1, TailBytesLoop
<1> HIDE DEF N, T, B, count
<1>5. 0 \in fit /\ fit \in SUBSET (0..N)
  BY <1>1, <1>4
<1>6. count \in fit /\ \A y \in fit : y <= count
  <2> HIDE DEF fit
  <2> QED
    BY <1>1, <1>2, <1>5, LargestOf
<1>7. count \in 0..N /\ count <= MaxLines /\ T(count) <= MaxBytes
  BY <1>6
<1>8. count # 0 => B(N + 1 - count) <= MaxBytes
  <2> SUFFICES ASSUME count # 0 PROVE B(N + 1 - count) <= MaxBytes
    OBVIOUS
  <2> DEFINE k == N + 1 - count
  <2>1. k \in 1..N /\ N + 1 - k = count
    BY <1>1, <1>7
  <2> HIDE DEF k
  <2>2. T(count) = B(k)
    BY <1>3, <2>1
  <2>3. B(k) <= MaxBytes
    BY <1>7, <2>2
  <2> QED
    BY <2>3 DEF k
<1>9. ASSUME NEW i \in 1..N, i + MaxLines > N, B(i) <= MaxBytes PROVE N + 1 - i <= count
  <2> DEFINE n == N + 1 - i
  <2>1. n \in 0..N /\ n <= MaxLines
    BY <1>1, <1>9
  <2>2. T(n) = B(i)
    BY <1>3
  <2> HIDE DEF n
  <2>3. T(n) <= MaxBytes
    BY <1>9, <2>2
  <2>4. n \in fit
    BY <2>1, <2>3
  <2>5. n <= count
    BY <1>6, <2>4
  <2> QED
    BY <2>5 DEF n
<1> QED
  BY <1>7, <1>8, <1>9 DEF N, B, count

\* The one text of a set that is longer than the others.
LEMMA OneLongest ==
    ASSUME NEW T, NEW t \in T, Len(t) \in Nat,
           \A u \in T : Len(u) \in Nat /\ (u # t => Len(u) < Len(t))
    PROVE  (CHOOSE x \in T : \A u \in T : Len(u) <= Len(x)) = t
<1> DEFINE Longest(x) == \A u \in T : Len(u) <= Len(x)
           x == CHOOSE y \in T : Longest(y)
<1>1. Longest(t)
  <2>1. ASSUME NEW u \in T PROVE Len(u) <= Len(t)
    <3> DEFINE p == Len(u)
               q == Len(t)
    <3>1. p \in Nat /\ q \in Nat /\ (p = q \/ p < q)
      BY Zenon
    <3> HIDE DEF p, q
    <3>2. p <= q
      BY <3>1
    <3> QED
      BY <3>2 DEF p, q
  <2> QED
    BY <2>1
<1>2. x \in T /\ Longest(x)
  <2> HIDE DEF Longest
  <2> QED
    BY <1>1
<1>3. x = t
  <2> SUFFICES ASSUME x # t PROVE FALSE
    OBVIOUS
  <2> HIDE DEF x
  <2> DEFINE p == Len(x)
             q == Len(t)
  <2>1. p \in Nat /\ q \in Nat /\ p < q /\ q <= p
    BY <1>2, Zenon
  <2> HIDE DEF p, q
  <2> QED
    BY <2>1
<1> QED
  BY <1>3

\* The runs of last lines that the limits leave room for.
LastRuns(lines) == {Join(SubSeq(lines, i, Len(lines))) : i \in {j \in 1..Len(lines) : j + MaxLines > Len(lines)}}
Fitting(lines) == {t \in LastRuns(lines) : Bytes(t) <= MaxBytes}

LEMMA FittingRests ==
    ASSUME NEW lines \in Seq(AllTexts)
    PROVE  \A t : t \in Fitting(lines) <=>
             \E i \in 1..Len(lines) : /\ i + MaxLines > Len(lines) /\ Bytes(LinesFrom(lines, i)) <= MaxBytes
                                      /\ t = LinesFrom(lines, i)
BY DEF Fitting, LastRuns, LinesFrom

LEMMA KeptLines ==
    ASSUME NEW lines \in Seq(AllTexts), TailCount(lines) # 0
    PROVE  LET kept == Join(SubSeq(lines, Len(lines) - TailCount(lines) + 1, Len(lines)))
           IN  /\ kept \in Fitting(lines)
               /\ (CHOOSE t \in Fitting(lines) : \A u \in Fitting(lines) : Len(u) <= Len(t)) = kept
<1> DEFINE N == Len(lines)
           count == TailCount(lines)
           k == N + 1 - count
           kept == LinesFrom(lines, k)
           T == Fitting(lines)
           R(i) == LinesFrom(lines, i)
<1>1. N \in Nat /\ N = Len(lines) /\ MaxLines \in Nat
  BY LenProperties, FileToolsAssumption
<1>2. /\ count \in 0..N /\ count # 0 /\ count <= MaxLines /\ Bytes(R(N + 1 - count)) <= MaxBytes
      /\ \A i \in 1..N : i + MaxLines > N /\ Bytes(R(i)) <= MaxBytes => N + 1 - i <= count
  BY TailCountType
<1>3. \A t : t \in T <=> \E i \in 1..N : i + MaxLines > N /\ Bytes(R(i)) <= MaxBytes /\ t = R(i)
  BY FittingRests
<1>4. \A i, j \in 1..N : i < j => Len(R(j)) < Len(R(i))
  BY RestLonger
<1>5. \A i \in 1..N : Len(R(i)) \in Nat
  BY RestType
<1>6. kept = Join(SubSeq(lines, N - count + 1, N))
  <2>1. N - count + 1 = k
    <3> HIDE DEF N, count
    <3>1. N - count + 1 = N + 1 - count
      BY <1>1, <1>2
    <3> QED
      BY <3>1
  <2> QED
    BY <2>1 DEF LinesFrom
<1> HIDE DEF N, count, T, R
<1>7. k \in 1..N /\ k + MaxLines > N /\ N + 1 - k = count
  BY <1>1, <1>2
<1>8. kept = R(k) /\ Bytes(R(k)) <= MaxBytes
  BY <1>2 DEF R
<1> HIDE DEF k, kept
<1>9. kept \in T /\ Len(kept) \in Nat
  BY <1>3, <1>5, <1>7, <1>8
<1>10. ASSUME NEW u \in T PROVE Len(u) \in Nat /\ (u # kept => Len(u) < Len(kept))
  <2>1. PICK i \in 1..N : i + MaxLines > N /\ Bytes(R(i)) <= MaxBytes /\ u = R(i)
    BY <1>3
  <2>2. N + 1 - i <= count
    BY <1>2, <2>1
  <2>3. k <= i
    BY <1>1, <1>2, <1>7, <2>2
  <2>4. u # kept => k < i
    BY <1>7, <1>8, <2>1, <2>3
  <2> QED
    BY <1>4, <1>5, <1>7, <1>8, <2>1, <2>4
<1>11. (CHOOSE t \in T : \A u \in T : Len(u) <= Len(t)) = kept
  BY <1>9, <1>10, OneLongest
<1>12. kept \in Fitting(lines) /\ (CHOOSE t \in Fitting(lines) : \A u \in Fitting(lines) : Len(u) <= Len(t)) = kept
  BY <1>9, <1>11 DEF T
<1>13. kept = Join(SubSeq(lines, Len(lines) - TailCount(lines) + 1, Len(lines)))
  BY <1>6 DEF N, count
<1> QED
  BY <1>12, <1>13, Zenon

LEMMA NoLines ==
    ASSUME NEW lines \in Seq(AllTexts), lines # << >>, TailCount(lines) = 0
    PROVE  Fitting(lines) = {} /\ Bytes(Last(lines)) > MaxBytes /\ Last(lines) \in Seq(Chars)
<1> DEFINE N == Len(lines)
           count == TailCount(lines)
           T == Fitting(lines)
           R(i) == LinesFrom(lines, i)
<1>1. N \in Nat /\ N = Len(lines) /\ N # 0 /\ MaxLines \in Nat \ {0} /\ MaxBytes \in Nat /\ count = 0
  BY LenProperties, EmptySeq, FileToolsAssumption
<1>2. \A i \in 1..N : i + MaxLines > N /\ Bytes(R(i)) <= MaxBytes => N + 1 - i <= count
  BY TailCountType
<1>3. \A t : t \in T <=> \E i \in 1..N : i + MaxLines > N /\ Bytes(R(i)) <= MaxBytes /\ t = R(i)
  BY FittingRests
<1>4. \A i \in 1..N : Bytes(R(i)) \in Nat /\ R(i) \in Seq(Chars) /\ (i = N => R(i) = lines[i])
  BY RestType
<1>5. Last(lines) = lines[N]
  BY DEF Last
<1> HIDE DEF N, count, T, R
<1>6. \A i \in 1..N : ~(N + 1 - i <= count)
  BY <1>1
<1>7. N \in 1..N /\ N + MaxLines > N
  BY <1>1
<1>8. R(N) = Last(lines)
  BY <1>4, <1>5, <1>7
<1>9. ~(Bytes(R(N)) <= MaxBytes)
  BY <1>2, <1>6, <1>7
<1>10. Bytes(R(N)) > MaxBytes
  BY <1>1, <1>4, <1>7, <1>9
<1>11. T = {}
  BY <1>2, <1>3, <1>6
<1> QED
  BY <1>4, <1>7, <1>8, <1>10, <1>11 DEF T

-----------------------------------------------------------------------------
(* The end of a line, cut between two bytes. *)

\* Where, in a line's bytes, the character at i begins.
Pos(line, i) == Bytes(SubSeq(line, 1, i - 1)) + 1

\* The bytes of a character.
Units == [of : Nat, lead : BOOLEAN]
UnitsOf(i, c) ==
    IF c \in Wide THEN <<[of |-> i, lead |-> TRUE], [of |-> i, lead |-> FALSE]>>
    ELSE <<[of |-> i, lead |-> TRUE]>>
Coded(text) == [i \in 1..Len(text) |-> UnitsOf(i, text[i])]

LEMMA UnitsType ==
    ASSUME NEW i \in Nat, NEW c
    PROVE  /\ UnitsOf(i, c) \in Seq(Units) /\ Len(UnitsOf(i, c)) = Cost(c)
           /\ UnitsOf(i, c)[1] = [of |-> i, lead |-> TRUE]
           /\ c \in Wide => UnitsOf(i, c)[2] = [of |-> i, lead |-> FALSE]
<1> DEFINE a == [of |-> i, lead |-> TRUE]
           b == [of |-> i, lead |-> FALSE]
<1>1. a \in Units /\ b \in Units
  BY DEF Units
<1>2. UnitsOf(i, c) = IF c \in Wide THEN <<a, b>> ELSE <<a>>
  BY DEF UnitsOf
<1> HIDE DEF a, b
<1>3. /\ <<a, b>> \in Seq(Units) /\ Len(<<a, b>>) = 2 /\ <<a, b>>[1] = a /\ <<a, b>>[2] = b
      /\ <<a>> \in Seq(Units) /\ Len(<<a>>) = 1 /\ <<a>>[1] = a
  BY <1>1
<1>4. /\ UnitsOf(i, c) \in Seq(Units) /\ Len(UnitsOf(i, c)) = Cost(c) /\ UnitsOf(i, c)[1] = a
      /\ c \in Wide => UnitsOf(i, c)[2] = b
  BY <1>2, <1>3, Zenon DEF Cost
<1> QED
  BY <1>4 DEF a, b

LEMMA CodedType ==
    ASSUME NEW text \in Seq(Chars)
    PROVE  /\ Coded(text) \in Seq(Seq(Units)) /\ Len(Coded(text)) = Len(text)
           /\ \A i \in 1..Len(text) : Coded(text)[i] = UnitsOf(i, text[i])
           /\ Encode(text) = FlattenSeq(Coded(text)) /\ Encode(text) \in Seq(Units)
<1> DEFINE n == Len(text)
           T == Seq(Units)
           P == Coded(text)
<1>1. n \in Nat /\ n = Len(text)
  BY LenProperties
<1>2. Encode(text) = FlattenSeq(P)
  BY DEF Encode, Coded, UnitsOf
<1>3. \A i \in Nat : \A c : UnitsOf(i, c) \in T
  BY UnitsType
<1> HIDE DEF n, T
<1>4. P \in [1..n -> T] /\ \A i \in 1..n : P[i] = UnitsOf(i, text[i])
  BY <1>1, <1>3 DEF Coded
<1> HIDE DEF P
<1>5. P \in Seq(T)
  <2>1. n \in Nat
    BY <1>1
  <2>2. P \in [1..n -> T]
    BY <1>4
  <2> QED
    BY <2>1, <2>2
<1>6. Len(P) = n
  BY <1>1, <1>4, <1>5, LenProperties
<1>7. FlattenSeq(P) \in Seq(Units)
  BY <1>5, FlatType DEF T
<1> QED
  BY <1>1, <1>2, <1>4, <1>5, <1>6, <1>7 DEF P, T

LEMMA EncodeAppend ==
    ASSUME NEW text \in Seq(Chars), NEW c \in Chars
    PROVE  Encode(Append(text, c)) = Encode(text) \o UnitsOf(Len(text) + 1, c)
<1> DEFINE n == Len(text)
           t == Append(text, c)
           u == UnitsOf(n + 1, c)
           T == Seq(Units)
           P == Coded(text)
           Q == Coded(t)
           R == Append(P, u)
<1>1. /\ n \in Nat /\ n = Len(text) /\ t \in Seq(Chars) /\ Len(t) = n + 1 /\ t[n + 1] = c
      /\ \A i \in 1..n : t[i] = text[i]
  BY AppendProperties, LenProperties
<1>2. u \in T
  <2>1. n + 1 \in Nat
    BY <1>1
  <2> HIDE DEF n
  <2> QED
    BY <2>1, UnitsType
<1>3. /\ P \in Seq(T) /\ Len(P) = n /\ \A i \in 1..n : P[i] = UnitsOf(i, text[i])
      /\ Encode(text) = FlattenSeq(P)
  BY CodedType
<1>4. /\ Q \in Seq(T) /\ Len(Q) = n + 1 /\ \A i \in 1..(n + 1) : Q[i] = UnitsOf(i, t[i])
      /\ Encode(t) = FlattenSeq(Q)
  <2>1. /\ Q \in Seq(T) /\ Len(Q) = Len(t) /\ \A i \in 1..Len(t) : Q[i] = UnitsOf(i, t[i])
        /\ Encode(t) = FlattenSeq(Q)
    BY <1>1, CodedType
  <2> HIDE DEF t, n, Q, T
  <2> QED
    BY <1>1, <2>1
<1> HIDE DEF n, t, u, P, Q, T
<1>5. R \in Seq(T) /\ Len(R) = n + 1 /\ R[n + 1] = u /\ \A i \in 1..n : R[i] = P[i]
  BY <1>2, <1>3, AppendProperties
<1> HIDE DEF R
<1>6. ASSUME NEW i \in 1..(n + 1) PROVE Q[i] = R[i]
  <2>1. CASE i = n + 1
    BY <1>1, <1>4, <1>5, <2>1 DEF u
  <2>2. CASE i # n + 1
    <3>1. i \in 1..n
      BY <1>1, <2>2
    <3> QED
      BY <1>1, <1>3, <1>4, <1>5, <3>1
  <2> QED
    BY <2>1, <2>2
<1>7. Q = R
  <2>1. Len(Q) = Len(R) /\ \A i \in 1..Len(Q) : Q[i] = R[i]
    BY <1>4, <1>5, <1>6
  <2> QED
    BY <1>4, <1>5, <2>1, SeqEqual, Zenon
<1>8. FlattenSeq(R) = FlattenSeq(P) \o u
  BY <1>2, <1>3, FlatAppend DEF R, T
<1>9. Encode(t) = Encode(text) \o u
  BY <1>3, <1>4, <1>7, <1>8
<1> QED
  BY <1>9 DEF t, u, n

\* Every byte is of one character, and every character begins at its place.
Indexed(text) ==
    /\ Len(Encode(text)) = Bytes(text)
    /\ \A k \in 1..Bytes(text) :
         Encode(text)[k].lead => Encode(text)[k].of \in 1..Len(text) /\ k = Pos(text, Encode(text)[k].of)
    /\ \A i \in 1..Len(text) :
         /\ Pos(text, i) \in 1..Bytes(text)
         /\ Encode(text)[Pos(text, i)] = [of |-> i, lead |-> TRUE]

LEMMA PosAppend ==
    ASSUME NEW text \in Seq(Chars), NEW c \in Chars
    PROVE  /\ \A i \in 1..Len(text) : Pos(Append(text, c), i) = Pos(text, i)
           /\ Pos(Append(text, c), Len(text) + 1) = Bytes(text) + 1
<1> DEFINE n == Len(text)
           t == Append(text, c)
<1>1. n \in Nat /\ n = Len(text) /\ <<c>> \in Seq(Chars)
  BY LenProperties
<1>2. t = text \o <<c>>
  BY AppendIsConcat
<1>3. \A e \in 0..Len(text) : SubSeq(text \o <<c>>, 1, e) = SubSeq(text, 1, e)
  BY <1>1, HeadConcat
<1>4. SubSeq(text, 1, Len(text)) = text
  BY SubSeqFull
<1> HIDE DEF n, t
<1>5. ASSUME NEW e \in 0..n PROVE SubSeq(t, 1, e) = SubSeq(text, 1, e)
  BY <1>1, <1>2, <1>3
<1>6. ASSUME NEW i \in 1..n PROVE Pos(t, i) = Pos(text, i)
  <2>1. i - 1 \in 0..n
    BY <1>1
  <2> QED
    BY <1>5, <2>1 DEF Pos
<1>7. Pos(t, n + 1) = Bytes(text) + 1
  <2>1. (n + 1) - 1 = n /\ n \in 0..n
    BY <1>1
  <2>2. SubSeq(t, 1, (n + 1) - 1) = text
    BY <1>1, <1>4, <1>5, <2>1
  <2> QED
    BY <2>2 DEF Pos
<1> QED
  BY <1>6, <1>7 DEF n, t

LEMMA EncodeIndexed ==
    ASSUME NEW line \in Seq(Chars)
    PROVE  Indexed(line)
<1> DEFINE good == {t \in Seq(Chars) : Indexed(t)}
<1>1. << >> \in good
  <2>1. << >> \in Seq(Chars) /\ Len(<< >>) = 0
    OBVIOUS
  <2>2. Coded(<< >>) = << >>
    BY <2>1, CodedType, EmptySeq
  <2>3. Encode(<< >>) = << >>
    BY <2>1, <2>2, CodedType, FlatEmpty
  <2>4. 1..0 = {}
    OBVIOUS
  <2>5. Indexed(<< >>)
    BY <2>1, <2>3, <2>4, BytesEmpty DEF Indexed
  <2> QED
    BY <2>1, <2>5
<1>2. ASSUME NEW t \in Seq(Chars), NEW c \in Chars, Indexed(t) PROVE Indexed(Append(t, c))
  <2> DEFINE m == Len(t)
             s == Append(t, c)
             b == Encode(t)
             n == Bytes(t)
             u == UnitsOf(m + 1, c)
             w == Cost(c)
             d == Encode(s)
  <2>1. m \in Nat /\ Len(s) = m + 1 /\ s \in Seq(Chars)
    BY AppendProperties, LenProperties
  <2>2. n \in Nat /\ Bytes(s) = n + w
    BY BytesType, BytesAppend
  <2>3. (\A i \in 1..m : Pos(s, i) = Pos(t, i)) /\ Pos(s, m + 1) = n + 1
    BY PosAppend
  <2>4. /\ Len(b) = n
        /\ \A k \in 1..n : b[k].lead => b[k].of \in 1..m /\ k = Pos(t, b[k].of)
        /\ \A i \in 1..m : Pos(t, i) \in 1..n /\ b[Pos(t, i)] = [of |-> i, lead |-> TRUE]
    BY <1>2 DEF Indexed
  <2>5. d = b \o u /\ b \in Seq(Units)
    BY EncodeAppend, CodedType
  <2>6. /\ u \in Seq(Units) /\ Len(u) = w /\ u[1] = [of |-> m + 1, lead |-> TRUE]
        /\ c \in Wide => u[2] = [of |-> m + 1, lead |-> FALSE]
    <3>1. m + 1 \in Nat
      BY <2>1
    <3> HIDE DEF m
    <3> QED
      BY <3>1, UnitsType
  <2>7. (w = 1 \/ (w = 2 /\ c \in Wide)) /\ w \in Nat
    BY DEF Cost
  <2>8. /\ Len(b \o u) = Len(b) + Len(u)
        /\ \A k \in 1..(Len(b) + Len(u)) : (b \o u)[k] = IF k <= Len(b) THEN b[k] ELSE u[k - Len(b)]
    BY <2>5, <2>6, ConcatProperties
  <2>9. /\ Len(d) = n + w
        /\ \A k \in 1..(n + w) : d[k] = IF k <= n THEN b[k] ELSE u[k - n]
    <3> HIDE DEF b, u, d, n, w
    <3> QED
      BY <2>4, <2>5, <2>6, <2>8
  <2> HIDE DEF m, s, b, n, u, w, d
  <2>10. d[n + 1] = [of |-> m + 1, lead |-> TRUE] /\ n + 1 \in 1..(n + w)
    <3>1. n + 1 \in 1..(n + w) /\ ~(n + 1 <= n) /\ (n + 1) - n = 1
      BY <2>2, <2>7
    <3> QED
      BY <2>6, <2>9, <3>1
  <2>11. ASSUME NEW k \in 1..(n + w), d[k].lead PROVE d[k].of \in 1..(m + 1) /\ k = Pos(s, d[k].of)
    <3>1. CASE k <= n
      <4>1. k \in 1..n /\ d[k] = b[k]
        BY <2>2, <2>9, <3>1
      <4>2. b[k].of \in 1..m /\ k = Pos(t, b[k].of)
        BY <2>4, <2>11, <4>1, Zenon
      <4>3. b[k].of \in 1..(m + 1) /\ Pos(s, b[k].of) = Pos(t, b[k].of)
        BY <2>1, <2>3, <4>2
      <4> QED
        BY <4>1, <4>2, <4>3, Zenon
    <3>2. CASE k = n + 1
      <4>1. d[k].of = m + 1
        BY <2>10, <3>2
      <4>2. m + 1 \in 1..(m + 1)
        BY <2>1
      <4> QED
        BY <2>3, <3>2, <4>1, <4>2
    <3>3. CASE ~(k <= n) /\ k # n + 1
      <4>1. k - n = 2 /\ c \in Wide
        BY <2>2, <2>7, <3>3
      <4>2. d[k] = [of |-> m + 1, lead |-> FALSE]
        BY <2>6, <2>9, <3>3, <4>1
      <4>3. ~d[k].lead
        BY <4>2
      <4> QED
        BY <2>11, <4>3, Zenon
    <3> QED
      BY <3>1, <3>2, <3>3
  <2>12. ASSUME NEW i \in 1..(m + 1)
         PROVE  Pos(s, i) \in 1..(n + w) /\ d[Pos(s, i)] = [of |-> i, lead |-> TRUE]
    <3>1. CASE i = m + 1
      BY <2>3, <2>10, <3>1
    <3>2. CASE i # m + 1
      <4>1. i \in 1..m
        BY <2>1, <3>2
      <4>2. Pos(s, i) = Pos(t, i) /\ Pos(t, i) \in 1..n /\ b[Pos(t, i)] = [of |-> i, lead |-> TRUE]
        BY <2>3, <2>4, <4>1
      <4> DEFINE k == Pos(t, i)
      <4>3. k \in 1..n
        BY <4>2
      <4> HIDE DEF k
      <4>4. k \in 1..(n + w) /\ k <= n
        BY <2>2, <2>7, <4>3
      <4>5. d[k] = b[k]
        BY <2>9, <4>4
      <4> QED
        BY <4>2, <4>4, <4>5 DEF k
    <3> QED
      BY <3>1, <3>2
  <2> QED
    BY <2>1, <2>2, <2>9, <2>11, <2>12, Zenon DEF Indexed, s, d
<1>3. Seq(Chars) \subseteq good
  <2>1. ASSUME NEW t \in Seq(Chars), NEW c \in Chars, t \in good PROVE Append(t, c) \in good
    BY <1>2, <2>1, AppendProperties
  <2> HIDE DEF good
  <2> QED
    BY <1>1, <2>1, SeqInduction
<1> QED
  BY <1>3

\* A line in two parts.
LEMMA PosEnds ==
    ASSUME NEW line \in Seq(Chars)
    PROVE  /\ \A i \in 1..Len(line) : Pos(line, i) + Bytes(SubSeq(line, i, Len(line))) = Bytes(line) + 1
           /\ \A i, j \in 1..Len(line) : i < j => Pos(line, i) < Pos(line, j)
           /\ \A i \in 1..(Len(line) + 1) : /\ SubSeq(line, i, Len(line)) \in Seq(Chars)
                                            /\ Len(SubSeq(line, i, Len(line))) = Len(line) - i + 1
<1> DEFINE N == Len(line)
           H(e) == SubSeq(line, 1, e)
           M(a, e) == SubSeq(line, a, e)
<1>1. N \in Nat /\ N = Len(line)
  BY LenProperties
<1> HIDE DEF N
<1>2. ASSUME NEW a \in 1..(N + 1), NEW e \in (a - 1)..N
      PROVE  M(a, e) \in Seq(Chars) /\ Len(M(a, e)) = e - a + 1 /\ Bytes(M(a, e)) \in Nat
             /\ Bytes(M(a, e)) >= e - a + 1
  <2>1. M(a, e) \in Seq(Chars) /\ Len(M(a, e)) = e - a + 1
    BY <1>1, SubSeqType
  <2> HIDE DEF M
  <2>2. Bytes(M(a, e)) \in Nat /\ Bytes(M(a, e)) >= Len(M(a, e))
    BY <2>1, BytesType
  <2> QED
    BY <2>1, <2>2
<1>3. ASSUME NEW i \in 1..N, NEW e \in i..N
      PROVE  Bytes(H(e)) = Bytes(H(i - 1)) + Bytes(M(i, e))
  <2>1. 1 \in 1..(N + 1) /\ i - 1 \in (1 - 1)..N /\ e \in (i - 1)..N /\ (i - 1) + 1 = i /\ i \in 1..(N + 1)
    BY <1>1
  <2>2. H(i - 1) \o M(i, e) = H(e)
    <3>1. SubSeq(line, 1, i - 1) \o SubSeq(line, (i - 1) + 1, e) = SubSeq(line, 1, e)
      BY <1>1, <2>1, ConcatAdjacentSubSeq
    <3> QED
      BY <2>1, <3>1
  <2>3. M(1, i - 1) \in Seq(Chars) /\ M(i, e) \in Seq(Chars)
    BY <1>2, <2>1
  <2>4. H(i - 1) = M(1, i - 1)
    OBVIOUS
  <2> HIDE DEF H, M
  <2> QED
    BY <2>2, <2>3, <2>4, BytesConcat
<1>4. SubSeq(line, 1, N) = line
  BY <1>1, SubSeqFull
<1>5. ASSUME NEW i \in 1..N PROVE Pos(line, i) = Bytes(H(i - 1)) + 1 /\ Bytes(H(i - 1)) \in Nat
  <2>1. 1 \in 1..(N + 1) /\ i - 1 \in (1 - 1)..N
    BY <1>1
  <2>2. Bytes(M(1, i - 1)) \in Nat
    BY <1>2, <2>1
  <2> QED
    BY <2>2 DEF Pos
<1>6. ASSUME NEW i \in 1..N PROVE Pos(line, i) + Bytes(M(i, N)) = Bytes(line) + 1
  <2>1. N \in i..N /\ i \in 1..(N + 1) /\ N \in (i - 1)..N
    BY <1>1
  <2>2. Bytes(H(N)) = Bytes(H(i - 1)) + Bytes(M(i, N)) /\ Bytes(M(i, N)) \in Nat
    BY <1>2, <1>3, <2>1
  <2>3. H(N) = line
    BY <1>4
  <2> HIDE DEF H, M
  <2> QED
    BY <1>5, <2>2, <2>3
<1>7. ASSUME NEW i \in 1..N, NEW j \in 1..N, i < j PROVE Pos(line, i) < Pos(line, j)
  <2>1. j - 1 \in i..N /\ i \in 1..(N + 1) /\ j - 1 \in (i - 1)..N /\ (j - 1) - i + 1 >= 1
    BY <1>1, <1>7
  <2>2. Bytes(H(j - 1)) = Bytes(H(i - 1)) + Bytes(M(i, j - 1))
    BY <1>3, <2>1
  <2>3. Bytes(M(i, j - 1)) \in Nat /\ Bytes(M(i, j - 1)) >= (j - 1) - i + 1
    BY <1>2, <2>1
  <2> HIDE DEF H, M
  <2>4. Bytes(M(i, j - 1)) >= 1
    BY <2>1, <2>3
  <2> QED
    BY <1>5, <2>2, <2>3, <2>4
<1>8. ASSUME NEW i \in 1..(N + 1) PROVE M(i, N) \in Seq(Chars) /\ Len(M(i, N)) = N - i + 1
  <2>1. N \in (i - 1)..N
    BY <1>1
  <2> QED
    BY <1>2, <2>1
<1> QED
  BY <1>6, <1>7, <1>8 DEF N

\* What is kept of a line that is too long is its longest end that fits.
LEMMA EndIsLongest ==
    ASSUME NEW line \in Seq(Chars), Bytes(line) > MaxBytes,
           NEW parts, parts = {t \in {SubSeq(line, i, Len(line)) : i \in 1..(Len(line) + 1)} :
                                 Bytes(t) <= MaxBytes}
    PROVE  EndOf(line) = CHOOSE t \in parts : \A u \in parts : Len(u) <= Len(t)
<1> DEFINE N == Len(line)
           n == Bytes(line)
           buf == Encode(line)
           kept == {k \in (Len(buf) - MaxBytes + 1)..Len(buf) : buf[k].lead}
           E(i) == SubSeq(line, i, N)
           P(i) == Pos(line, i)
<1>1. N \in Nat /\ N = Len(line) /\ n \in Nat /\ MaxBytes \in Nat /\ MaxBytes < n
  BY LenProperties, BytesType, FileToolsAssumption
<1>2. /\ Len(buf) = n
      /\ \A k \in 1..n : buf[k].lead => buf[k].of \in 1..N /\ k = P(buf[k].of)
      /\ \A i \in 1..N : P(i) \in 1..n /\ buf[P(i)] = [of |-> i, lead |-> TRUE]
  BY EncodeIndexed DEF Indexed
<1>3. /\ \A i \in 1..N : P(i) + Bytes(E(i)) = n + 1
      /\ \A i, j \in 1..N : i < j => P(i) < P(j)
      /\ \A i \in 1..(N + 1) : E(i) \in Seq(Chars) /\ Len(E(i)) = N - i + 1
  BY PosEnds
<1>4. \A i \in 1..(N + 1) : Bytes(E(i)) \in Nat
  <2> HIDE DEF E
  <2> QED
    BY <1>3, BytesType
<1>5. EndOf(line) = IF kept = {} THEN << >> ELSE E(buf[Min(kept)].of)
  BY DEF EndOf
<1>6. \A t : t \in parts <=> \E i \in 1..(N + 1) : t = E(i) /\ Bytes(E(i)) <= MaxBytes
  OBVIOUS
<1> HIDE DEF N, n, buf, E, P
<1>7. E(N + 1) = << >> /\ Bytes(E(N + 1)) = 0
  <2>1. N + 1 \in 1..(N + 1) /\ N - (N + 1) + 1 = 0
    BY <1>1
  <2>2. Len(E(N + 1)) = 0 /\ E(N + 1) \in Seq(Chars)
    BY <1>3, <2>1
  <2>3. E(N + 1) = << >>
    BY <2>2, EmptySeq
  <2> QED
    BY <2>3, BytesEmpty
<1>8. \A k : k \in kept <=> k \in (n - MaxBytes + 1)..n /\ buf[k].lead
  BY <1>2
<1> HIDE DEF kept
\* A character's end fits just when its first byte is kept.
<1>9. ASSUME NEW i \in 1..N PROVE Bytes(E(i)) <= MaxBytes <=> P(i) \in kept
  <2>1. buf[P(i)].lead /\ P(i) \in 1..n
    <3>1. P(i) \in 1..n /\ buf[P(i)] = [of |-> i, lead |-> TRUE]
      BY <1>2
    <3> QED
      BY <3>1
  <2>2. P(i) \in kept <=> P(i) \in (n - MaxBytes + 1)..n
    BY <1>8, <2>1, Zenon
  <2>3. i \in 1..(N + 1)
    BY <1>1
  <2>4. Bytes(E(i)) \in Nat /\ P(i) + Bytes(E(i)) = n + 1
    BY <1>3, <1>4, <2>3
  <2> QED
    BY <1>1, <2>1, <2>2, <2>4
<1>10. \E j \in 1..(N + 1) :
         /\ EndOf(line) = E(j) /\ Bytes(E(j)) <= MaxBytes
         /\ \A i \in 1..(N + 1) : Bytes(E(i)) <= MaxBytes => j <= i
  <2>1. CASE kept = {}
    <3>1. N + 1 \in 1..(N + 1) /\ Bytes(E(N + 1)) <= MaxBytes
      BY <1>1, <1>7
    <3>2. EndOf(line) = E(N + 1)
      BY <1>5, <1>7, <2>1
    <3>3. ASSUME NEW i \in 1..(N + 1), Bytes(E(i)) <= MaxBytes PROVE N + 1 <= i
      <4>1. i \notin 1..N
        BY <1>9, <2>1, <3>3
      <4> QED
        BY <1>1, <4>1
    <3> QED
      BY <3>1, <3>2, <3>3
  <2>2. CASE kept # {}
    <3> DEFINE m == Min(kept)
               j == buf[m].of
    <3>1. m \in kept /\ \A k \in kept : m <= k
      <4>1. kept \in SUBSET Nat
        <5>1. n - MaxBytes + 1 \in Nat
          BY <1>1
        <5>2. \A k \in kept : k \in (n - MaxBytes + 1)..n
          BY <1>8
        <5> QED
          BY <1>1, <5>1, <5>2
      <4> QED
        BY <2>2, <4>1, LeastOf
    <3> HIDE DEF m
    <3>2. m \in 1..n /\ buf[m].lead
      <4>1. m \in (n - MaxBytes + 1)..n /\ buf[m].lead
        BY <1>8, <3>1, Zenon
      <4>2. m \in 1..n
        BY <1>1, <4>1
      <4> QED
        BY <4>1, <4>2, Zenon
    <3>3. j \in 1..N /\ m = P(j)
      BY <1>2, <3>2, Zenon
    <3>4. EndOf(line) = E(j)
      BY <1>5, <2>2 DEF m
    <3> HIDE DEF j
    <3>5. Bytes(E(j)) <= MaxBytes /\ j \in 1..(N + 1)
      BY <1>1, <1>9, <3>1, <3>3
    <3>6. ASSUME NEW i \in 1..(N + 1), Bytes(E(i)) <= MaxBytes PROVE j <= i
      <4>1. CASE i = N + 1
        BY <1>1, <3>3, <4>1
      <4>2. CASE i # N + 1
        <5>1. i \in 1..N
          BY <1>1, <4>2
        <5>2. P(i) \in kept
          BY <1>9, <3>6, <5>1
        <5>3. P(j) <= P(i) /\ P(i) \in 1..n /\ P(j) \in 1..n
          BY <1>2, <3>1, <3>3, <5>1, <5>2
        <5>4. ~(P(i) < P(j))
          BY <1>1, <5>3
        <5>5. ~(i < j)
          BY <1>3, <3>3, <5>1, <5>4
        <5> QED
          BY <1>1, <3>3, <5>1, <5>5
      <4> QED
        BY <4>1, <4>2
    <3> QED
      BY <3>4, <3>5, <3>6
  <2> QED
    BY <2>1, <2>2
<1>11. PICK j \in 1..(N + 1) :
         /\ EndOf(line) = E(j) /\ Bytes(E(j)) <= MaxBytes
         /\ \A i \in 1..(N + 1) : Bytes(E(i)) <= MaxBytes => j <= i
  BY <1>10
<1> DEFINE t == E(j)
<1>12. t \in parts /\ Len(t) = N - j + 1 /\ Len(t) \in Nat
  <2>1. t \in parts
    BY <1>6, <1>11
  <2>2. Len(t) = N - j + 1
    BY <1>3
  <2>3. N - j + 1 \in Nat
    BY <1>1
  <2> HIDE DEF t
  <2> QED
    BY <2>1, <2>2, <2>3
<1>13. ASSUME NEW u \in parts PROVE Len(u) \in Nat /\ (u # t => Len(u) < Len(t))
  <2>1. PICK i \in 1..(N + 1) : u = E(i) /\ Bytes(E(i)) <= MaxBytes
    BY <1>6
  <2>2. j <= i /\ Len(u) = N - i + 1
    BY <1>3, <1>11, <2>1
  <2>3. u # t => i # j
    BY <2>1
  <2> HIDE DEF t
  <2> QED
    BY <1>1, <1>12, <2>2, <2>3
<1> HIDE DEF t
<1> DEFINE T == parts
<1>14. t \in T /\ Len(t) \in Nat /\ \A u \in T : Len(u) \in Nat /\ (u # t => Len(u) < Len(t))
  BY <1>12, <1>13, Zenon
<1> HIDE DEF T
<1>15. (CHOOSE x \in T : \A u \in T : Len(u) <= Len(x)) = t
  BY <1>14, OneLongest
<1> QED
  BY <1>11, <1>15, Zenon DEF t, T

\* A text that is not empty has a line.
LEMMA CountedType ==
    ASSUME NEW text \in Seq(Chars), text # << >>
    PROVE  CountedLines(text) \in Seq(AllTexts) /\ CountedLines(text) # << >>
<1> DEFINE ls == Lines(text)
           CL == CountedLines(text)
<1>1. ls \in SomeLines /\ Join(ls) = text
  BY LinesType, JoinLines
<1> HIDE DEF ls
<1>2. PICK c \in 1..Len(ls) : CL = SubSeq(ls, 1, c)
  BY <1>1, CountedJoin
<1>3. ls \in Seq(AllTexts)
  BY <1>1, InLineText DEF AllTexts
<1>4. 1 \in 1..(Len(ls) + 1) /\ c \in (1 - 1)..Len(ls) /\ c - 1 + 1 = c /\ c # 0
  <2> DEFINE m == Len(ls)
  <2>1. m \in Nat /\ c \in 1..m
    BY <1>3, LenProperties
  <2> HIDE DEF m
  <2>2. 1 \in 1..(m + 1) /\ c \in (1 - 1)..m /\ c - 1 + 1 = c /\ c # 0
    BY <2>1
  <2> QED
    BY <2>2 DEF m
<1>5. CL \in Seq(AllTexts) /\ Len(CL) = c
  BY <1>2, <1>3, <1>4, SubSeqType
<1> HIDE DEF CL
<1>6. CL # << >>
  BY <1>4, <1>5, EmptySeq
<1> QED
  BY <1>5, <1>6 DEF CL

LEMMA EmptyFits == Fits(<< >>)
<1>1. CountedLines(<< >>) = << >> /\ Len(<< >>) = 0
  BY DEF CountedLines
<1>2. 0 <= MaxLines /\ 0 <= MaxBytes
  BY FileToolsAssumption
<1> QED
  BY <1>1, <1>2, BytesEmpty DEF Fits

\* What truncate_tail keeps.
LEMMA KeptIsLongest ==
    ASSUME NEW text \in Seq(Chars), ~Fits(text)
    PROVE  LET lines == CountedLines(text)
               line == Last(lines)
               parts == {t \in {SubSeq(line, i, Len(line)) : i \in 1..(Len(line) + 1)} : Bytes(t) <= MaxBytes}
           IN  TruncateTail(text) =
                 IF Fitting(lines) # {}
                 THEN CHOOSE t \in Fitting(lines) : \A u \in Fitting(lines) : Len(u) <= Len(t)
                 ELSE CHOOSE t \in parts : \A u \in parts : Len(u) <= Len(t)
<1> DEFINE lines == CountedLines(text)
           line == Last(lines)
           parts == {t \in {SubSeq(line, i, Len(line)) : i \in 1..(Len(line) + 1)} : Bytes(t) <= MaxBytes}
           count == TailCount(lines)
<1>1. lines \in Seq(AllTexts) /\ lines # << >>
  BY EmptyFits, CountedType
<1>2. TruncateTail(text) =
        IF count = 0 THEN EndOf(Last(lines)) ELSE Join(SubSeq(lines, Len(lines) - count + 1, Len(lines)))
  BY DEF TruncateTail
<1> HIDE DEF lines
<1>3. CASE count = 0
  <2>1. Fitting(lines) = {} /\ Bytes(line) > MaxBytes /\ line \in Seq(Chars)
    BY <1>1, <1>3, NoLines
  <2> HIDE DEF line
  <2>2. EndOf(line) = CHOOSE t \in parts : \A u \in parts : Len(u) <= Len(t)
    BY <2>1, EndIsLongest, ZenonT(60)
  <2> HIDE DEF parts
  <2>3. TruncateTail(text) = EndOf(line)
    BY <1>2, <1>3 DEF line
  <2>4. TruncateTail(text) = IF Fitting(lines) # {}
                 THEN CHOOSE t \in Fitting(lines) : \A u \in Fitting(lines) : Len(u) <= Len(t)
                 ELSE CHOOSE t \in parts : \A u \in parts : Len(u) <= Len(t)
    BY <2>1, <2>2, <2>3, Zenon
  <2> QED
    BY <2>4 DEF lines, line, parts
<1>4. CASE count # 0
  <2> DEFINE kept == Join(SubSeq(lines, Len(lines) - count + 1, Len(lines)))
  <2>1. /\ kept \in Fitting(lines)
        /\ (CHOOSE t \in Fitting(lines) : \A u \in Fitting(lines) : Len(u) <= Len(t)) = kept
    BY <1>1, <1>4, KeptLines
  <2>2. TruncateTail(text) = kept
    BY <1>2, <1>4
  <2> HIDE DEF kept, parts
  <2>3. TruncateTail(text) = IF Fitting(lines) # {}
                 THEN CHOOSE t \in Fitting(lines) : \A u \in Fitting(lines) : Len(u) <= Len(t)
                 ELSE CHOOSE t \in parts : \A u \in parts : Len(u) <= Len(t)
    BY <2>1, <2>2, Zenon
  <2> QED
    BY <2>3 DEF lines, line, parts
<1> QED
  BY <1>3, <1>4

\* What an output's reader has been shown.
TailInv == tool = "tail" => shown = TruncateTail(file)

LEMMA TailShown == FilesInv /\ ReadsInv /\ TailInv => TailIsLongest
<1> SUFFICES ASSUME ReadsInv, TailInv, tool = "tail" PROVE TailIsLongest
  BY DEF TailIsLongest
<1> DEFINE lines == CountedLines(file)
           line == Last(lines)
           good == Fitting(lines)
           parts == {t \in {SubSeq(line, i, Len(line)) : i \in 1..(Len(line) + 1)} : Bytes(t) <= MaxBytes}
<1>1. file \in Seq(Chars) /\ shown = TruncateTail(file)
  BY DEF ReadsInv, TailInv
<1>2. shown = IF Fits(file) THEN file
              ELSE IF good # {} THEN CHOOSE t \in good : \A u \in good : Len(u) <= Len(t)
              ELSE CHOOSE t \in parts : \A u \in parts : Len(u) <= Len(t)
  <2>1. CASE Fits(file)
    BY <1>1, <2>1 DEF TruncateTail
  <2>2. CASE ~Fits(file)
    <3>1. TruncateTail(file) = IF good # {} THEN CHOOSE t \in good : \A u \in good : Len(u) <= Len(t)
                               ELSE CHOOSE t \in parts : \A u \in parts : Len(u) <= Len(t)
      BY <1>1, <2>2, KeptIsLongest
    <3> HIDE DEF good, parts
    <3> QED
      BY <1>1, <2>2, <3>1, Zenon
  <2> QED
    BY <2>1, <2>2
<1> QED
  BY <1>2, Zenon DEF TailIsLongest, Fitting, LastRuns

LEMMA TailInvNext == TailInv /\ [FileToolsNext]_fileVars => TailInv'
<1> SUFFICES ASSUME TailInv, [FileToolsNext]_fileVars PROVE TailInv'
  OBVIOUS
<1>1. CASE UNCHANGED fileVars
  BY <1>1 DEF fileVars, TailInv
<1>2. ASSUME NEW limit \in Limits, ReadsPage(limit) \/ ReadsWithSed(limit) PROVE TailInv'
  BY <1>2 DEF ReadsPage, ReadsWithSed, TailInv
<1>3. ASSUME ShowsOutput PROVE TailInv'
  BY <1>3 DEF ShowsOutput, TailInv
<1>4. ASSUME NEW n \in 1..MaxEdits, NEW es \in [1..n -> Edits], EditsFile(es) PROVE TailInv'
  BY <1>4 DEF EditsFile, TailInv
<1> QED
  BY <1>1, <1>2, <1>3, <1>4 DEF FileToolsNext

\* What the model is shown of a text is what it is told it is shown: a page is
\* followed by the line that the footer names, and an output is cut as little as
\* the two limits allow.
THEOREM ShownRightCorrect == FileToolsSpec => []ShownRight
<1>1. FilesInv /\ ReadsInv /\ TailInv => ShownRight
  BY TailShown DEF ShownRight, ReadsInv
<1>2. FileToolsInit => TailInv
  BY DEF FileToolsInit, TailInv
<1> QED
  BY <1>1, <1>2, FilesInvInit, FilesInvNext, ReadsInvInit, ReadsInvNext, TailInvNext, PTL DEF FileToolsSpec
=============================================================================
