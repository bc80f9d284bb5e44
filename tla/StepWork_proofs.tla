--------------------------- MODULE StepWork_proofs ---------------------------
(***************************************************************************)
(* Proofs about StepWork, for every set of steps and conditions and every  *)
(* way the evaluator's calls, and the body beside them, interleave.        *)
(***************************************************************************)
EXTENDS StepWork, FiniteSetTheorems, SequenceTheorems, WellFoundedInduction, TLAPS

-----------------------------------------------------------------------------
(* Positions in a text.                                                    *)

LEMMA LeastElement ==
  ASSUME NEW S \in SUBSET Nat, S # {}
  PROVE  \E x \in S : \A y \in S : x <= y
<1> DEFINE Less == OpToRel(<, Nat)
<1>1. PICK x \in S : \A y \in S : <<y, x>> \notin Less
  <2>1. IsWellFoundedOn(Less, Nat)
    BY NatLessThanWellFounded, Zenon
  <2> HIDE DEF Less
  <2> QED BY <2>1, WFMin
<1>2. ASSUME NEW y \in S, y < x PROVE FALSE
  <2>1. <<y, x>> \in Less
    BY <1>2 DEF OpToRel
  <2> HIDE DEF Less
  <2> QED BY <1>1, <2>1
<1> QED BY <1>2

LEMMA MaxOf ==
  ASSUME NEW S \in SUBSET Nat, S # {}, NEW n \in Nat, \A y \in S : y <= n
  PROVE  Max(S) \in S /\ \A y \in S : y <= Max(S)
<1> DEFINE Above == {u \in Nat : \A y \in S : y <= u}
<1>1. Above \in SUBSET Nat /\ Above # {}
  OBVIOUS
<1>2. PICK u \in Above : \A w \in Above : u <= w
  <2> HIDE DEF Above
  <2> QED BY <1>1, LeastElement
<1>3. u \in S
  <2> SUFFICES ASSUME u \notin S PROVE FALSE
    OBVIOUS
  <2>1. PICK z \in S : TRUE
    OBVIOUS
  <2>2. \A y \in S : y < u
    BY <1>2
  <2>3. u - 1 \in Above
    BY <2>1, <2>2
  <2> QED BY <1>2, <2>3
<1>4. \E x \in S : \A y \in S : x >= y
  BY <1>2, <1>3
<1> QED BY <1>4 DEF Max

(* Positions that can be counted off.                                      *)
Ranked(E) ==
  /\ IsFiniteSet(E)
  /\ \A n \in 1..Cardinality(E) : \E x \in E : Cardinality({y \in E : y <= x}) = n

(* A position behind all others is the next one, and theirs stay.          *)
LEMMA NthGrows ==
  ASSUME NEW E \in SUBSET Nat, NEW N \in Nat, \A e \in E : e < N, Ranked(E)
  PROVE  /\ Ranked(E \cup {N}) /\ Cardinality(E) \in Nat
         /\ Cardinality(E \cup {N}) = Cardinality(E) + 1
         /\ \A n \in 1..Cardinality(E) : Nth(E, n) \in E /\ Nth(E \cup {N}, n) = Nth(E, n)
         /\ Nth(E \cup {N}, Cardinality(E) + 1) = N
<1> DEFINE F == E \cup {N}
           m == Cardinality(E)
           AtOf(G, n) == {x \in G : Cardinality({y \in G : y <= x}) = n}
<1>1. IsFiniteSet(E) /\ m \in Nat /\ IsFiniteSet(F) /\ N \notin E /\ Cardinality(F) = m + 1
  <2>1. IsFiniteSet(E) /\ N \notin E
    BY DEF Ranked
  <2> QED BY <2>1, FS_CardinalityType, FS_AddElement
<1>2. ASSUME NEW x \in E PROVE {y \in F : y <= x} = {y \in E : y <= x}
  OBVIOUS
<1>3. {y \in F : y <= N} = F
  <2>1. \A y \in F : y <= N
    OBVIOUS
  <2> HIDE DEF F
  <2> QED BY <2>1
<1>4. \A x \in E : Cardinality({y \in E : y <= x}) \in Nat /\ Cardinality({y \in E : y <= x}) <= m
  <2>1. ASSUME NEW x \in E
        PROVE  Cardinality({y \in E : y <= x}) \in Nat /\ Cardinality({y \in E : y <= x}) <= m
    <3>1. {y \in E : y <= x} \in SUBSET E
      OBVIOUS
    <3> HIDE DEF m
    <3> QED BY <1>1, <3>1, FS_Subset, FS_CardinalityType DEF m
  <2> QED BY <2>1
<1>5. \A n \in 1..m : AtOf(F, n) = AtOf(E, n)
  <2> SUFFICES ASSUME NEW n \in 1..m PROVE AtOf(F, n) = AtOf(E, n)
    OBVIOUS
  <2>1. \A x \in E : x \in AtOf(F, n) <=> x \in AtOf(E, n)
    BY <1>2
  <2>2. N \notin AtOf(F, n)
    BY <1>1, <1>3
  <2>3. AtOf(F, n) \subseteq E
    BY <2>2
  <2> QED BY <2>1, <2>3
<1>6. AtOf(F, m + 1) = {N}
  <2>1. \A x \in E : x \notin AtOf(F, m + 1)
    <3> SUFFICES ASSUME NEW x \in E PROVE x \notin AtOf(F, m + 1)
      OBVIOUS
    <3>1. Cardinality({y \in F : y <= x}) <= m /\ Cardinality({y \in F : y <= x}) \in Nat
      BY <1>2, <1>4
    <3> QED BY <1>1, <3>1
  <2>2. N \in AtOf(F, m + 1)
    BY <1>1, <1>3
  <2> QED BY <2>1, <2>2
<1>7. \A n \in 1..m : AtOf(E, n) # {}
  BY DEF Ranked
<1>8. \A G, n : Nth(G, n) = (CHOOSE e \in AtOf(G, n) : TRUE)
  BY DEF Nth
<1>9. \A n \in 1..m : Nth(E, n) \in E /\ Nth(F, n) = Nth(E, n)
  <2> HIDE DEF m, F
  <2> SUFFICES ASSUME NEW n \in 1..m PROVE Nth(E, n) \in E /\ Nth(F, n) = Nth(E, n)
    OBVIOUS
  <2>1. AtOf(F, n) = AtOf(E, n) /\ AtOf(E, n) # {} /\ AtOf(E, n) \subseteq E
    BY <1>5, <1>7
  <2> HIDE DEF AtOf
  <2> QED BY <1>8, <2>1
<1>10. Nth(F, m + 1) = N
  <2> HIDE DEF m, F, AtOf
  <2> QED BY <1>6, <1>8
<1>11. Ranked(F)
  <2>1. \A n \in 1..(m + 1) : AtOf(F, n) # {}
    <3>1. \A n \in 1..(m + 1) : n \in 1..m \/ n = m + 1
      BY <1>1
    <3> HIDE DEF m, F, AtOf
    <3> QED BY <1>5, <1>6, <1>7, <3>1
  <2> QED BY <1>1, <2>1 DEF Ranked
<1> QED BY <1>1, <1>9, <1>10, <1>11

-----------------------------------------------------------------------------
(* Lines.                                                                  *)

LastEnd(text) == IF Ends(text) = {} THEN 0 ELSE Max(Ends(text))
(* The lines that have ended, and what comes after them.                   *)
Whole(text) == Cut(text, Ends(text))
Rest(text) == SubSeq(text, LastEnd(text) + 1, Len(text))

LEMMA EndsTyped ==
  ASSUME NEW T, NEW text \in Seq(T)
  PROVE  /\ Len(text) \in Nat /\ Ends(text) \in SUBSET Nat
         /\ Ends(text) = {i \in 1..Len(text) : text[i] = LineEnd}
         /\ LastEnd(text) \in 0..Len(text)
         /\ \A i \in Ends(text) : i <= LastEnd(text)
         /\ LastEnd(text) # 0 => LastEnd(text) \in Ends(text)
<1>1. Len(text) \in Nat /\ Ends(text) = {i \in 1..Len(text) : text[i] = LineEnd}
  BY DEF Ends
<1>2. Ends(text) \in SUBSET Nat /\ \A i \in Ends(text) : i <= Len(text) /\ i > 0
  BY <1>1
<1>3. CASE Ends(text) = {}
  BY <1>1, <1>2, <1>3 DEF LastEnd
<1>4. CASE Ends(text) # {}
  <2>1. Max(Ends(text)) \in Ends(text) /\ \A y \in Ends(text) : y <= Max(Ends(text))
    BY <1>1, <1>2, <1>4, MaxOf
  <2> QED BY <1>1, <1>2, <1>4, <2>1 DEF LastEnd
<1> QED BY <1>3, <1>4

LEMMA SubSeqOfPrefix ==
  ASSUME NEW T, NEW text \in Seq(T), NEW tok \in T,
         NEW a \in 1..(Len(text) + 1), NEW b \in 0..Len(text)
  PROVE  SubSeq(Append(text, tok), a, b) = SubSeq(text, a, b)
<1> DEFINE longer == Append(text, tok)
<1>1. Len(text) \in Nat /\ \A i \in 1..Len(text) : longer[i] = text[i] /\ text[i] \in T
  OBVIOUS
<1> HIDE DEF longer
<1>2. /\ SubSeq(longer, a, b) \in Seq(T) /\ SubSeq(text, a, b) \in Seq(T)
      /\ Len(SubSeq(longer, a, b)) = Len(SubSeq(text, a, b))
      /\ Len(SubSeq(text, a, b)) = IF a <= b THEN b - a + 1 ELSE 0
      /\ \A i \in 1..(b - a + 1) : /\ SubSeq(longer, a, b)[i] = longer[a + i - 1]
                                   /\ SubSeq(text, a, b)[i] = text[a + i - 1]
  <2>1. a \in Int /\ b \in Int /\ \A i \in a..b : text[i] \in T /\ longer[i] \in T
    BY <1>1
  <2> QED BY <2>1, SubSeqProperties
<1>3. \A i \in 1..Len(SubSeq(text, a, b)) : SubSeq(longer, a, b)[i] = SubSeq(text, a, b)[i]
  BY <1>1, <1>2
<1>4. SubSeq(longer, a, b) = SubSeq(text, a, b)
  BY <1>2, <1>3, SeqEqual
<1> QED BY <1>4 DEF longer

(* What is behind a position does not matter to the line that ends there.  *)
LEMMA LineBeforeOfPrefix ==
  ASSUME NEW T, NEW text \in Seq(T), NEW tok \in T, NEW e \in 1..(Len(text) + 1)
  PROVE  LineBefore(Append(text, tok), e) = LineBefore(text, e)
<1> DEFINE longer == Append(text, tok)
           B(u) == {i \in Ends(u) : i < e}
           first == IF B(text) = {} THEN 1 ELSE Max(B(text)) + 1
<1>1. Len(text) \in Nat /\ longer \in Seq(T) /\ Len(longer) = Len(text) + 1
      /\ \A i \in 1..Len(text) : longer[i] = text[i]
  OBVIOUS
<1>2. B(longer) = B(text)
  <2>1. Ends(text) = {i \in 1..Len(text) : text[i] = LineEnd}
        /\ Ends(longer) = {i \in 1..Len(longer) : longer[i] = LineEnd}
    BY <1>1, EndsTyped
  <2> HIDE DEF longer
  <2>2. \A i : i \in B(longer) <=> i \in B(text)
    BY <1>1, <2>1
  <2> HIDE DEF B
  <2> QED BY <2>2
<1>3. first \in 1..e
  <2>1. B(text) \in SUBSET Nat /\ \A i \in B(text) : i <= e - 1 /\ e - 1 \in Nat
    BY EndsTyped
  <2>2. CASE B(text) = {}
    BY <2>2
  <2>3. CASE B(text) # {}
    <3> HIDE DEF B
    <3>1. Max(B(text)) \in B(text)
      BY <2>1, <2>3, MaxOf
    <3> QED BY <2>1, <2>3, <3>1
  <2> QED BY <2>2, <2>3
<1>4. LineBefore(text, e) = SubSeq(text, first, e - 1)
      /\ LineBefore(longer, e) = SubSeq(longer, first, e - 1)
  <2> HIDE DEF longer
  <2> QED BY <1>2 DEF LineBefore
<1>5. SubSeq(longer, first, e - 1) = SubSeq(text, first, e - 1)
  <2>1. first \in 1..(Len(text) + 1) /\ e - 1 \in 0..Len(text)
    BY <1>1, <1>3
  <2> DEFINE b == e - 1
  <2> HIDE DEF first, b
  <2>2. first \in 1..(Len(text) + 1) /\ b \in 0..Len(text)
    BY <2>1 DEF b
  <2>3. SubSeq(longer, first, b) = SubSeq(text, first, b)
    BY <2>2, SubSeqOfPrefix
  <2> QED BY <2>3 DEF b
<1> HIDE DEF longer, first
<1> QED BY <1>4, <1>5 DEF longer

(* Cutting off the last line.                                              *)
LEMMA CutGrows ==
  ASSUME NEW T, NEW text \in Seq(T), Ranked(Ends(text))
  PROVE  LET N == Len(text) + 1 IN
         /\ Cut(text, Ends(text) \cup {N}) = Append(Whole(text), Rest(text))
         /\ Ranked(Ends(text) \cup {N})
         /\ Cardinality(Ends(text)) \in Nat
         /\ Cardinality(Ends(text) \cup {N}) = Cardinality(Ends(text)) + 1
         /\ \A n \in 1..(Cardinality(Ends(text)) + 1) : Nth(Ends(text) \cup {N}, n) \in 1..N
         /\ \A n \in 1..Cardinality(Ends(text)) : Nth(Ends(text), n) \in 1..Len(text)
<1> DEFINE N == Len(text) + 1
           E == Ends(text)
           F == E \cup {N}
           m == Cardinality(E)
<1>1. /\ N \in Nat /\ E \in SUBSET Nat /\ E \subseteq 1..Len(text) /\ \A e \in E : e < N
      /\ Len(text) \in Nat
  BY EndsTyped
<1>2. /\ Ranked(F) /\ m \in Nat /\ Cardinality(F) = m + 1
      /\ \A n \in 1..m : Nth(E, n) \in E /\ Nth(F, n) = Nth(E, n)
      /\ Nth(F, m + 1) = N
  <2> HIDE DEF N, E
  <2> QED BY <1>1, NthGrows DEF E
<1>3. LineBefore(text, N) = Rest(text)
  <2>1. {i \in Ends(text) : i < N} = Ends(text)
    BY <1>1
  <2>2. N - 1 = Len(text)
    BY <1>1
  <2>3. LineBefore(text, N) =
          SubSeq(text, IF Ends(text) = {} THEN 1 ELSE Max(Ends(text)) + 1, Len(text))
    <3> HIDE DEF N, E
    <3> QED BY <2>1, <2>2 DEF LineBefore
  <2>4. (IF Ends(text) = {} THEN 1 ELSE Max(Ends(text)) + 1) = LastEnd(text) + 1
    BY DEF LastEnd
  <2> QED BY <2>3, <2>4 DEF Rest
<1>4. Cut(text, F) = [n \in 1..(m + 1) |-> LineBefore(text, Nth(F, n))]
  <2> HIDE DEF F, m
  <2> QED BY <1>2 DEF Cut
<1>5. Whole(text) = [n \in 1..m |-> LineBefore(text, Nth(E, n))]
  BY DEF Whole, Cut
<1>8. \A n \in 1..m : Nth(E, n) \in 1..Len(text)
  BY <1>1, <1>2
<1> HIDE DEF F, m, E
<1>6. Cut(text, F) = Append(Whole(text), Rest(text))
  <2> DEFINE line(n) == LineBefore(text, Nth(F, n))
  <2>1. Whole(text) = [n \in 1..m |-> line(n)]
    BY <1>2, <1>5
  <2>2. line(m + 1) = Rest(text)
    BY <1>2, <1>3
  <2>3. Cut(text, F) = [n \in 1..(m + 1) |-> line(n)]
    BY <1>4
  <2> HIDE DEF line
  <2>4. Append([n \in 1..m |-> line(n)], line(m + 1)) = [n \in 1..(m + 1) |-> line(n)]
    BY <1>2
  <2> QED BY <2>1, <2>2, <2>3, <2>4
<1>7. ASSUME NEW n \in 1..(m + 1) PROVE Nth(F, n) \in 1..N
  <2>1. N \in 1..N /\ 1..Len(text) \subseteq 1..N
    BY <1>1
  <2>2. CASE n \in 1..m
    <3>1. Nth(F, n) = Nth(E, n) /\ Nth(E, n) \in 1..Len(text)
      BY <1>2, <1>8, <2>2
    <3> HIDE DEF N
    <3> QED BY <2>1, <3>1
  <2>3. CASE n = m + 1
    <3> HIDE DEF N
    <3> QED BY <1>2, <2>1, <2>3
  <2> QED BY <1>2, <2>2, <2>3
<1>9. Ranked(F) /\ m \in Nat /\ Cardinality(F) = m + 1
  BY <1>2
<1> QED BY <1>6, <1>7, <1>8, <1>9, Zenon DEF F, m, E

(* What the line writer keeps and publishes, token by token.               *)
LEMMA TokenCut ==
  ASSUME NEW T, NEW text \in Seq(T), NEW tok \in T, Ranked(Ends(text))
  PROVE  LET longer == Append(text, tok) IN
         /\ Ranked(Ends(longer))
         /\ tok = LineEnd => Whole(longer) = Append(Whole(text), Rest(text)) /\ Rest(longer) = <<>>
         /\ tok # LineEnd => Whole(longer) = Whole(text) /\ Rest(longer) = Append(Rest(text), tok)
<1> DEFINE longer == Append(text, tok)
           N == Len(text) + 1
           E == Ends(text)
           F == E \cup {N}
           m == Cardinality(E)
<1>1. /\ Len(text) \in Nat /\ longer \in Seq(T) /\ Len(longer) = N /\ longer[N] = tok
      /\ \A i \in 1..Len(text) : longer[i] = text[i]
  OBVIOUS
<1>2. /\ Ends(text) = {i \in 1..Len(text) : text[i] = LineEnd} /\ LastEnd(text) \in 0..Len(text)
      /\ Ends(longer) = {i \in 1..Len(longer) : longer[i] = LineEnd}
      /\ LastEnd(longer) \in 0..Len(longer)
      /\ \A i \in Ends(longer) : i <= LastEnd(longer)
  BY <1>1, EndsTyped
<1>3. \A e \in 1..N : LineBefore(longer, e) = LineBefore(text, e)
  BY LineBeforeOfPrefix
<1>4. /\ Cut(text, F) = Append(Whole(text), Rest(text))
      /\ Ranked(F) /\ m \in Nat /\ Cardinality(F) = m + 1
      /\ \A n \in 1..(m + 1) : Nth(F, n) \in 1..N
      /\ \A n \in 1..m : Nth(E, n) \in 1..Len(text)
  BY CutGrows
<1>5. CASE tok = LineEnd
  <2>1. Ends(longer) = F
    <3> HIDE DEF longer
    <3> QED BY <1>1, <1>2, <1>5
  <2> HIDE DEF longer, F, m, E
  <2>2. Whole(longer) = Cut(text, F)
    BY <1>3, <1>4, <2>1 DEF Whole, Cut
  <2>3. LastEnd(longer) = N
    <3>1. N \in F
      BY DEF F
    <3> QED BY <1>1, <1>2, <2>1, <3>1
  <2>4. Rest(longer) = <<>>
    BY <1>1, <2>3 DEF Rest
  <2> QED BY <1>4, <1>5, <2>1, <2>2, <2>4 DEF longer
<1>6. CASE tok # LineEnd
  <2>1. Ends(longer) = Ends(text)
    <3> HIDE DEF longer
    <3> QED BY <1>1, <1>2, <1>6
  <2>2. LastEnd(longer) = LastEnd(text)
    BY <2>1 DEF LastEnd
  <2> DEFINE k == LastEnd(text)
  <2>3. Rest(longer) = Append(Rest(text), tok)
    <3>1. Rest(longer) = SubSeq(longer, k + 1, N) /\ Rest(text) = SubSeq(text, k + 1, Len(text))
      BY <1>1, <2>2 DEF Rest
    <3>2. k \in 0..Len(text)
      BY <1>2
    <3> HIDE DEF k
    <3>3. SubSeq(longer, k + 1, N) = Append(SubSeq(longer, k + 1, Len(text)), tok)
      <4>1. k + 1 \in 1..Len(longer) /\ N \in (k + 1)..Len(longer) /\ N - 1 = Len(text)
        BY <1>1, <3>2
      <4>2. SubSeq(longer, k + 1, N) = SubSeq(longer, k + 1, N - 1) \o <<longer[N]>>
        <5> HIDE DEF longer, N
        <5> QED BY <1>1, <4>1, SubSeqRecursiveSecond
      <4>3. SubSeq(longer, k + 1, Len(text)) \in Seq(T)
        <5>1. k + 1 \in Int /\ Len(text) \in Int /\ \A i \in (k + 1)..Len(text) : longer[i] \in T
          BY <1>1, <3>2
        <5> HIDE DEF longer
        <5> QED BY <5>1, SubSeqProperties
      <4> HIDE DEF longer, N
      <4> QED BY <1>1, <4>1, <4>2, <4>3, AppendIsConcat
    <3>4. SubSeq(longer, k + 1, Len(text)) = SubSeq(text, k + 1, Len(text))
      <4>1. k + 1 \in 1..(Len(text) + 1) /\ Len(text) \in 0..Len(text)
        BY <1>1, <3>2
      <4> QED BY <4>1, SubSeqOfPrefix
    <3> QED BY <3>1, <3>3, <3>4
  <2>4. Whole(longer) = Whole(text)
    <3> HIDE DEF longer, F, m
    <3>1. \A n \in 1..m : Nth(E, n) \in 1..N
      BY <1>1, <1>4
    <3> HIDE DEF E
    <3>2. Whole(longer) = [n \in 1..m |-> LineBefore(longer, Nth(E, n))]
          /\ Whole(text) = [n \in 1..m |-> LineBefore(text, Nth(E, n))]
      BY <2>1 DEF Whole, Cut, E, m
    <3> QED BY <1>3, <3>1, <3>2
  <2> QED BY <1>6, <2>1, <2>3, <2>4
<1> QED BY <1>5, <1>6

(* What is left over when nothing more comes is a line of its own.         *)
LEMMA LinesAre ==
  ASSUME NEW T, NEW text \in Seq(T), Ranked(Ends(text))
  PROVE  Lines(text) = IF Rest(text) = <<>> THEN Whole(text) ELSE Append(Whole(text), Rest(text))
<1> DEFINE k == LastEnd(text)
<1>1. /\ Len(text) \in Nat /\ Ends(text) = {i \in 1..Len(text) : text[i] = LineEnd}
      /\ k \in 0..Len(text) /\ (\A i \in Ends(text) : i <= k) /\ (k # 0 => k \in Ends(text))
  BY EndsTyped
<1>2. Rest(text) = SubSeq(text, k + 1, Len(text))
  BY DEF Rest
<1> HIDE DEF k
<1>3. Rest(text) = <<>> <=> k = Len(text)
  BY <1>1, <1>2
<1>4. k = Len(text) <=> (text = <<>> \/ Last(text) = LineEnd)
  <2>1. text = <<>> <=> Len(text) = 0
    BY <1>1
  <2>2. Last(text) = text[Len(text)]
    BY DEF Last
  <2> QED BY <1>1, <2>1, <2>2
<1>5. Cut(text, Ends(text) \cup {Len(text) + 1}) = Append(Whole(text), Rest(text))
  BY CutGrows
<1> QED BY <1>3, <1>4, <1>5 DEF Lines, Whole

(* A text that is fed token by token.                                      *)
Kept(text) == [buf |-> Rest(text), log |-> Whole(text)]

After(f, lw, text, n) ==
  f = [k \in 0..n |-> IF k = 0 THEN lw ELSE LineWriter(f[k - 1], text[k])]

LEMMA FedExists ==
  ASSUME NEW lw, NEW text, NEW n \in Nat
  PROVE  \E f : After(f, lw, text, n)
<1> USE DEF After
<1> DEFINE Bad == {m \in Nat : ~ \E f : After(f, lw, text, m)}
<1> SUFFICES ASSUME Bad # {} PROVE FALSE
  OBVIOUS
<1>1. PICK m \in Bad : \A y \in Bad : m <= y
  <2>1. Bad \in SUBSET Nat
    OBVIOUS
  <2> HIDE DEF Bad
  <2> QED BY <2>1, LeastElement
<1>2. CASE m = 0
  <2>1. After([k \in 0..0 |-> lw], lw, text, 0)
    OBVIOUS
  <2> QED BY <1>2, <2>1
<1>3. CASE m # 0
  <2>1. m - 1 \in Nat /\ m - 1 \notin Bad
    <3>1. m \in Nat
      BY <1>1
    <3> HIDE DEF Bad
    <3> QED BY <1>1, <1>3, <3>1
  <2>2. PICK f : After(f, lw, text, m - 1)
    BY <2>1
  <2> DEFINE g == [k \in 0..m |-> IF k = m THEN LineWriter(f[m - 1], text[m]) ELSE f[k]]
  <2>3. \A k \in 0..(m - 1) : f[k] = IF k = 0 THEN lw ELSE LineWriter(f[k - 1], text[k])
    BY <2>2
  <2>4. ASSUME NEW k \in 0..m
        PROVE  g[k] = IF k = 0 THEN lw ELSE LineWriter(g[k - 1], text[k])
    <3>1. CASE k = m
      <4>1. k # 0 /\ k - 1 \in 0..m /\ k - 1 # m
        BY <1>3, <2>1, <3>1
      <4> QED BY <3>1, <4>1
    <3>2. CASE k \in 0..(m - 1)
      <4>1. k # m /\ (k # 0 => k - 1 \in 0..m /\ k - 1 # m)
        BY <2>1, <3>2
      <4> QED BY <2>3, <3>2, <4>1
    <3> QED BY <2>1, <3>1, <3>2
  <2>5. After(g, lw, text, m)
    BY <2>4
  <2> QED BY <2>5
<1> QED BY <1>2, <1>3

LEMMA FedIs ==
  ASSUME NEW T, NEW done \in Seq(T), NEW text \in Seq(T), Ranked(Ends(done))
  PROVE  Ranked(Ends(done \o text)) /\ Fed(Kept(done), text) = Kept(done \o text)
<1> DEFINE lw == Kept(done)
           n == Len(text)
           upto(k) == done \o SubSeq(text, 1, k)
<1>1. n \in Nat
  OBVIOUS
<1>2. \E f : After(f, lw, text, n)
  <2> HIDE DEF lw, n
  <2> QED BY <1>1, FedExists
<1>3. Fed(lw, text) = (CHOOSE f : After(f, lw, text, n))[n]
  BY DEF Fed, After
<1> DEFINE f == CHOOSE f : After(f, lw, text, n)
<1>4. After(f, lw, text, n)
  BY <1>2
<1> HIDE DEF f, lw
<1>5. f[0] = lw /\ \A k \in 1..n : f[k] = LineWriter(f[k - 1], text[k])
  BY <1>1, <1>4 DEF After
<1>6. \A k \in 0..n : upto(k) \in Seq(T) /\ (k # 0 => upto(k) = Append(upto(k - 1), text[k]))
  <2> SUFFICES ASSUME NEW k \in 0..n
               PROVE  upto(k) \in Seq(T) /\ (k # 0 => upto(k) = Append(upto(k - 1), text[k]))
    OBVIOUS
  <2>1. \A j \in 0..n : SubSeq(text, 1, j) \in Seq(T)
    <3> SUFFICES ASSUME NEW j \in 0..n PROVE SubSeq(text, 1, j) \in Seq(T)
      OBVIOUS
    <3>1. 1 \in Int /\ j \in Int /\ \A i \in 1..j : text[i] \in T
      OBVIOUS
    <3> QED BY <3>1, SubSeqProperties
  <2>2. upto(k) \in Seq(T)
    BY <2>1
  <2>3. ASSUME k # 0 PROVE upto(k) = Append(upto(k - 1), text[k])
    <3>1. k - 1 \in 0..n /\ k \in 1..Len(text) /\ 1 \in 1..Len(text) /\ k \in 1..Len(text)
      BY <1>1, <2>3
    <3> DEFINE front == SubSeq(text, 1, k - 1)
    <3>2. front \in Seq(T) /\ text[k] \in T /\ <<text[k]>> \in Seq(T)
      BY <2>1, <3>1
    <3>3. SubSeq(text, 1, k) = front \o <<text[k]>>
      BY <3>1, SubSeqRecursiveSecond
    <3>4. done \o (front \o <<text[k]>>) = (done \o front) \o <<text[k]>>
      <4> HIDE DEF front
      <4> QED BY <3>2, ConcatAssociative
    <3>5. (done \o front) \o <<text[k]>> = Append(done \o front, text[k])
      <4> HIDE DEF front
      <4>1. done \o front \in Seq(T)
        BY <3>2
      <4> QED BY <3>2, <4>1, AppendIsConcat
    <3> HIDE DEF front
    <3> QED BY <3>3, <3>4, <3>5 DEF front
  <2> QED BY <2>2, <2>3
<1>7. upto(0) = done /\ upto(n) = done \o text
  <2>1. SubSeq(text, 1, 0) = <<>> /\ SubSeq(text, 1, n) = text
    BY SubSeqEmpty, SubSeqFull
  <2>2. done \o <<>> = done
    BY ConcatEmptySeq
  <2> QED BY <2>1, <2>2
<1> HIDE DEF upto
<1> DEFINE Good(k) == Ranked(Ends(upto(k))) /\ f[k] = Kept(upto(k))
           Bad == {k \in 0..n : ~Good(k)}
<1>8. Good(0)
  BY <1>5, <1>7 DEF lw
<1>9. ASSUME NEW k \in 1..n, Good(k - 1) PROVE Good(k)
  <2> DEFINE u == upto(k - 1)
             tok == text[k]
  <2>1. u \in Seq(T) /\ tok \in T /\ upto(k) = Append(u, tok)
    BY <1>6
  <2>2. Ranked(Ends(u)) /\ f[k] = LineWriter(Kept(u), tok)
    BY <1>5, <1>9
  <2> HIDE DEF u, tok
  <2>3. /\ Ranked(Ends(Append(u, tok)))
        /\ tok = LineEnd => Whole(Append(u, tok)) = Append(Whole(u), Rest(u))
                            /\ Rest(Append(u, tok)) = <<>>
        /\ tok # LineEnd => Whole(Append(u, tok)) = Whole(u)
                            /\ Rest(Append(u, tok)) = Append(Rest(u), tok)
    BY <2>1, <2>2, TokenCut
  <2>4. LineWriter(Kept(u), tok) = Kept(Append(u, tok))
    BY <2>3 DEF LineWriter, Kept
  <2> QED BY <2>1, <2>2, <2>3, <2>4
<1> HIDE DEF Good
<1>10. Bad = {}
  <2> SUFFICES ASSUME Bad # {} PROVE FALSE
    OBVIOUS
  <2>1. PICK k \in Bad : \A y \in Bad : k <= y
    <3>1. Bad \in SUBSET Nat
      OBVIOUS
    <3> HIDE DEF Bad
    <3> QED BY <3>1, LeastElement
  <2>2. k # 0
    BY <1>8, <2>1
  <2>3. k \in 1..n /\ k - 1 \in 0..n
    BY <1>1, <2>1, <2>2
  <2>4. k - 1 \notin Bad
    <3> HIDE DEF Bad
    <3> QED BY <2>1, <2>3
  <2>5. Good(k - 1)
    BY <2>3, <2>4
  <2> QED BY <1>9, <2>1, <2>3, <2>5
<1>11. Good(n)
  BY <1>1, <1>10
<1>12. Fed(lw, text) = f[n]
  BY <1>3 DEF f
<1> QED BY <1>7, <1>11, <1>12 DEF Good, lw

-----------------------------------------------------------------------------
(* The evaluator.                                                          *)

Places == {"idle", "reading", "missed", "writing", "run", "done"}

EvTyped ==
  /\ call \in [Steps -> Places]
  /\ status \in [Scopes -> Statuses]
  /\ snapshot \in [Steps -> Statuses]
  /\ DOMAIN answer = Steps
  /\ during \in [Steps -> SUBSET Statuses]

(* A call under way holds a status its scope has had since it began.       *)
SnapshotSound ==
  \A s \in Steps : call[s] \notin {"idle", "done"} => snapshot[s] \in during[s]

IInv == EvTyped /\ SnapshotSound

LEMMA ScopeStatusTyped ==
  ASSUME EvTyped, NEW s \in Steps PROVE ScopeStatusFor(s) \in Statuses
<1>1. CASE ScopeOf[s] = TopLevel
  BY <1>1 DEF ScopeStatusFor, Statuses
<1>2. CASE ScopeOf[s] # TopLevel
  <2>1. ScopeOf[s] \in Scopes
    BY <1>2 DEF Scopes
  <2>2. status[ScopeOf[s]] \in Statuses
    BY <2>1 DEF EvTyped
  <2> QED BY <1>2, <2>2 DEF ScopeStatusFor, Statuses
<1> QED BY <1>1, <1>2

LEMMA InitEstablishes == Init => IInv
<1> SUFFICES ASSUME Init PROVE IInv
  OBVIOUS
<1>1. EvTyped
  BY DEF Init, EvInit, EvTyped, Places, Statuses
<1>2. SnapshotSound
  BY DEF Init, EvInit, SnapshotSound
<1> QED BY <1>1, <1>2 DEF IInv

LEMMA EvaluateKeeps ==
  ASSUME IInv, NEW s \in Steps, Evaluate(s) PROVE IInv'
<1> USE DEF IInv
<1>1. CASE Look(s)
  <2>1. ScopeStatusFor(s) \in Statuses
    BY ScopeStatusTyped
  <2>2. /\ call' = [call EXCEPT ![s] = "reading"]
        /\ snapshot' = [snapshot EXCEPT ![s] = ScopeStatusFor(s)]
        /\ during' = [during EXCEPT ![s] = {ScopeStatusFor(s)}]
        /\ UNCHANGED <<answer, status>>
    BY <1>1 DEF Look, Goto
  <2>3. EvTyped'
    BY <2>1, <2>2 DEF EvTyped, Places
  <2>4. SnapshotSound'
    BY <2>2 DEF EvTyped, SnapshotSound
  <2> QED BY <2>3, <2>4
<1>2. CASE Found(s) \/ Compile(s) \/ Store(s)
  <2>1. /\ \E place \in Places \ {"idle", "done"} : call' = [call EXCEPT ![s] = place]
        /\ call[s] \notin {"idle", "done"}
        /\ UNCHANGED <<snapshot, during, answer, status>>
    <3>1. CASE Found(s)
      BY <3>1 DEF Found, Goto, Places
    <3>2. CASE Compile(s)
      BY <3>2 DEF Compile, Goto, Places
    <3>3. CASE Store(s)
      BY <3>3 DEF Store, Goto, Places
    <3> QED BY <1>2, <3>1, <3>2, <3>3
  <2>2. EvTyped'
    BY <2>1 DEF EvTyped
  <2>3. SnapshotSound'
    BY <2>1 DEF EvTyped, SnapshotSound
  <2> QED BY <2>2, <2>3
<1>3. CASE Run(s)
  <2>1. /\ call' = [call EXCEPT ![s] = "done"]
        /\ snapshot' = [snapshot EXCEPT ![s] = ""]
        /\ during' = [during EXCEPT ![s] = {}]
        /\ answer' = [answer EXCEPT ![s] = Answer(Condition[s], Bound(s))]
        /\ UNCHANGED status
    BY <1>3 DEF Run, Goto
  <2>2. call' \in [Steps -> Places] /\ during' \in [Steps -> SUBSET Statuses]
        /\ snapshot' \in [Steps -> Statuses]
    BY <2>1 DEF EvTyped, Places, Statuses
  <2>3. SnapshotSound'
    BY <2>1 DEF EvTyped, SnapshotSound
  <2> QED BY <2>1, <2>2, <2>3 DEF EvTyped
<1> QED BY <1>1, <1>2, <1>3 DEF Evaluate

LEMMA ElsewhereKeeps ==
  ASSUME IInv, Elsewhere PROVE IInv'
<1> USE DEF IInv
<1>1. PICK p \in Scopes, st \in Statuses \ {""} : Record(p, st)
  BY DEF Elsewhere
<1>2. /\ status' = [status EXCEPT ![p] = st]
      /\ during' = [s \in Steps |-> IF ScopeOf[s] = p /\ call[s] \notin {"idle", "done"}
                                    THEN during[s] \cup {st} ELSE during[s]]
      /\ UNCHANGED <<call, snapshot, answer>>
  BY <1>1 DEF Record, evaluator
<1>3. EvTyped'
  BY <1>2 DEF EvTyped
<1>4. SnapshotSound'
  BY <1>2 DEF SnapshotSound
<1> QED BY <1>3, <1>4

LEMMA StepsKeep == IInv /\ [Next]_vars => IInv'
<1> SUFFICES ASSUME IInv, [Next]_vars PROVE IInv'
  OBVIOUS
<1>1. ASSUME UNCHANGED <<call, status, snapshot, answer, during>> PROVE IInv'
  BY <1>1 DEF IInv, EvTyped, SnapshotSound
<1>2. CASE Evaluating
  BY <1>2, EvaluateKeeps DEF Evaluating
<1>3. CASE Others
  <2>1. CASE Fatal
    BY <1>1, <2>1 DEF Fatal
  <2> QED BY <1>3, <2>1, ElsewhereKeeps DEF Others
<1>4. CASE Body(RunStep) \/ Body(WaitStep) \/ Body(PromptStep) \/ Body(CtxDone)
  BY <1>1, <1>4 DEF Body, evVars, evaluator
<1>5. CASE UNCHANGED vars
  BY <1>1, <1>5 DEF vars, evVars, evaluator
<1> QED BY <1>2, <1>3, <1>4, <1>5 DEF Next

(* The inductive invariant holds throughout.                               *)
THEOREM Invariance == Spec => []IInv
BY InitEstablishes, StepsKeep, PTL DEF Spec

LEMMA CallsAnswerThemselves ==
  IInv /\ [Next]_vars =>
    [\A s \in Steps : call[s] # "done" /\ call'[s] = "done" =>
       \E st \in during[s] : answer'[s] = Answer(Condition[s], st)]_evVars
<1> SUFFICES ASSUME IInv, [Next]_vars, NEW s \in Steps, call[s] # "done", call'[s] = "done"
             PROVE  \E st \in during[s] : answer'[s] = Answer(Condition[s], st)
  OBVIOUS
<1>1. call \in [Steps -> Places] /\ DOMAIN answer = Steps
  BY DEF IInv, EvTyped
<1>2. CASE Evaluating
  <2>1. PICK r \in Steps : Evaluate(r)
    BY <1>2 DEF Evaluating
  <2>2. r = s
    BY <1>1, <2>1 DEF Evaluate, Look, Found, Compile, Store, Run, Goto
  <2>3. Run(s)
    BY <1>1, <2>1, <2>2 DEF Evaluate, Look, Found, Compile, Store, Goto
  <2>4. snapshot[s] \in during[s]
    BY <2>3 DEF IInv, SnapshotSound, Run
  <2>5. answer'[s] = Answer(Condition[s], snapshot[s])
    BY <1>1, <2>3 DEF Run, Bound
  <2> QED BY <2>4, <2>5
<1>3. CASE Others
  BY <1>3 DEF Others, Fatal, Elsewhere, Record, evaluator
<1>4. CASE Body(RunStep) \/ Body(WaitStep) \/ Body(PromptStep) \/ Body(CtxDone)
  BY <1>4 DEF Body, evVars, evaluator
<1>5. CASE UNCHANGED vars
  BY <1>5 DEF vars, evVars, evaluator
<1> QED BY <1>2, <1>3, <1>4, <1>5 DEF Next

(* The if: of a step is answered from a status its own scope had while it  *)
(* was evaluated, whoever compiled the program it shares                   *)
(* (evaluator.go:291-311).                                                 *)
THEOREM AnswersOwnCall == Spec => AnswersThisCall
BY CallsAnswerThemselves, Invariance, PTL DEF Spec, AnswersThisCall
-----------------------------------------------------------------------------
(* The script.                                                             *)

BodyTyped ==
  /\ stage \in {"idle", "started", "reaped", "held", "pause", "returned"}
  /\ todo \in [Processes -> [Streams -> Seq(Tokens)]]
  /\ running \subseteq Processes
  /\ pipe \in [Streams -> Seq(Tokens)] /\ wrote \in [Streams -> Seq(Tokens)]
  /\ copier \in [Streams -> {"copying", "done", "cut"}]
  /\ DOMAIN buf = Streams /\ DOMAIN log = Streams

(* What was written is what was copied and what is still in the pipe; the  *)
(* line writer has published the whole lines of the former and keeps the   *)
(* rest.                                                                   *)
Copied(s, text) ==
  /\ Ranked(Ends(text))
  /\ wrote[s] = text \o pipe[s]
  /\ buf[s] = Rest(text) /\ log[s] = Whole(text)

LinesSound ==
  stage # "returned" =>
    \A s \in Streams : copier[s] # "cut" => \E text \in Seq(Tokens) : Copied(s, text)

(* A copy is done when nobody can write any more.                          *)
CopiersSound ==
  \A s \in Streams : copier[s] = "done" =>
    running = {} /\ stage # "idle" /\ pipe[s] = <<>>

ShellGone == body = "run" /\ stage \in {"reaped", "returned"} => Shell \notin running

SuccessSound ==
  body = "run" /\ result = "success" =>
    /\ stage = "returned" /\ exit = "zero" /\ ctx # "deadline"
    /\ \A s \in Streams : copier[s] = "done" /\ log[s] = Lines(wrote[s])

BInv == BodyTyped /\ LinesSound /\ CopiersSound /\ ShellGone /\ SuccessSound

LEMMA BodyInitEstablishes == Init => BInv
<1> SUFFICES ASSUME Init PROVE BInv
  OBVIOUS
<1>1. /\ stage = "idle" /\ running = {} /\ result = "none"
      /\ pipe = [s \in Streams |-> <<>>] /\ wrote = [s \in Streams |-> <<>>]
      /\ buf = [s \in Streams |-> <<>>] /\ log = [s \in Streams |-> <<>>]
      /\ copier = [s \in Streams |-> "copying"]
  BY DEF Init, BodyInit
<1>2. todo \in [Processes -> [Streams -> Seq(Tokens)]]
  <2>1. todo \in Scripts \/ todo = CHOOSE t \in Scripts : TRUE
    BY DEF Init, BodyInit
  <2>2. (CHOOSE t \in Scripts : TRUE) \in Scripts
    BY ScriptsAssumption
  <2> QED BY <2>1, <2>2, ScriptsAssumption
<1>3. BodyTyped
  BY <1>1, <1>2 DEF BodyTyped
<1>4. LinesSound
  <2>1. <<>> \in Seq(Tokens) /\ Ends(<<>>) = {}
    BY DEF Ends
  <2>2. Cardinality({}) = 0 /\ IsFiniteSet({})
    BY FS_EmptySet
  <2>3. Ranked({})
    BY <2>2 DEF Ranked
  <2>4. Rest(<<>>) = <<>>
    BY <2>1 DEF Rest, LastEnd
  <2>5. Whole(<<>>) = <<>>
    <3>1. Whole(<<>>) = [n \in 1..0 |-> LineBefore(<<>>, Nth({}, n))]
      BY <2>1, <2>2 DEF Whole, Cut
    <3>2. ASSUME NEW w, w = [n \in 1..0 |-> LineBefore(<<>>, Nth({}, n))] PROVE w = <<>>
      <4>1. w \in [1..0 -> Tokens]
        BY <3>2
      <4>2. w \in Seq(Tokens) /\ Len(w) = 0
        BY <4>1, SeqDef
      <4> QED BY <4>2, EmptySeq
    <3> QED BY <3>1, <3>2
  <2>6. <<>> \o <<>> = <<>>
    BY <2>1, ConcatEmptySeq
  <2>7. ASSUME NEW s \in Streams PROVE Copied(s, <<>>)
    BY <1>1, <2>1, <2>3, <2>4, <2>5, <2>6 DEF Copied
  <2> QED BY <2>1, <2>7 DEF LinesSound
<1>5. CopiersSound /\ ShellGone /\ SuccessSound
  BY <1>1 DEF CopiersSound, ShellGone, SuccessSound
<1> QED BY <1>3, <1>4, <1>5 DEF BInv

(* The lines of a stream nobody has touched are as they were.              *)
LEMMA LinesStay ==
  ASSUME LinesSound, stage' # "returned" => stage # "returned",
         NEW s \in Streams, stage' # "returned", copier'[s] # "cut",
         copier[s] # "cut", wrote'[s] = wrote[s], pipe'[s] = pipe[s],
         buf'[s] = buf[s], log'[s] = log[s]
  PROVE  \E text \in Seq(Tokens) : Copied(s, text)'
<1>1. PICK text \in Seq(Tokens) : Copied(s, text)
  BY DEF LinesSound
<1>2. Copied(s, text)'
  BY <1>1 DEF Copied
<1> QED BY <1>2

LEMMA StartRunKeeps == BInv /\ StartRun => BInv'
<1> SUFFICES ASSUME BInv, StartRun PROVE BInv'
  OBVIOUS
<1> USE DEF BInv
<1>1. /\ stage = "idle" /\ stage' = "started" /\ running' = Processes
      /\ UNCHANGED <<body, ctx, exit, todo, pipe, copier, buf, log, wrote, result>>
  BY DEF StartRun, streams
<1>2. BodyTyped'
  BY <1>1 DEF BodyTyped
<1>3. LinesSound'
  BY <1>1, LinesStay DEF LinesSound
<1>4. CopiersSound' /\ ShellGone' /\ SuccessSound'
  BY <1>1 DEF CopiersSound, ShellGone, SuccessSound
<1> QED BY <1>2, <1>3, <1>4

LEMMA AppendOnto ==
  ASSUME NEW T, NEW a \in Seq(T), NEW b \in Seq(T), NEW tok \in T
  PROVE  Append(a \o b, tok) = a \o Append(b, tok)
<1>1. PICK ab \in Seq(T) : ab = a \o b
  BY ConcatProperties
<1>2. PICK bt \in Seq(T) : bt = Append(b, tok)
  BY AppendProperties
<1>3. <<tok>> \in Seq(T)
  OBVIOUS
<1>4. Append(ab, tok) = ab \o <<tok>> /\ bt = b \o <<tok>>
  BY <1>2, AppendIsConcat
<1>5. (a \o b) \o <<tok>> = a \o (b \o <<tok>>)
  BY <1>3, ConcatAssociative
<1>6. ab \o <<tok>> = a \o bt
  BY <1>1, <1>4, <1>5
<1> QED BY <1>1, <1>2, <1>4, <1>6

LEMMA WriteKeeps ==
  ASSUME BInv, NEW p \in Processes, NEW s \in Streams, Write(p, s) PROVE BInv'
<1> USE DEF BInv
<1> DEFINE tok == Head(todo[p][s])
<1>1. /\ p \in running /\ todo[p][s] # <<>>
      /\ todo' = [todo EXCEPT ![p][s] = Tail(@)]
      /\ pipe' = [pipe EXCEPT ![s] = IF copier[s] = "copying" THEN Append(pipe[s], tok) ELSE pipe[s]]
      /\ wrote' = [wrote EXCEPT ![s] = Append(wrote[s], tok)]
      /\ UNCHANGED <<body, stage, ctx, running, exit, copier, buf, log, result>>
  BY DEF Write
<1>2. todo[p][s] \in Seq(Tokens) /\ tok \in Tokens /\ Tail(todo[p][s]) \in Seq(Tokens)
  BY <1>1 DEF BodyTyped
<1>3. /\ wrote'[s] = Append(wrote[s], tok) /\ wrote' \in [Streams -> Seq(Tokens)]
      /\ pipe' \in [Streams -> Seq(Tokens)]
      /\ copier[s] = "copying" => pipe'[s] = Append(pipe[s], tok)
      /\ \A r \in Streams \ {s} : wrote'[r] = wrote[r] /\ pipe'[r] = pipe[r]
  BY <1>1, <1>2 DEF BodyTyped
<1>4. todo' \in [Processes -> [Streams -> Seq(Tokens)]]
  BY <1>1, <1>2 DEF BodyTyped
<1> HIDE DEF tok
<1>5. BodyTyped'
  BY <1>1, <1>3, <1>4 DEF BodyTyped
<1>6. copier[s] # "done"
  BY <1>1 DEF CopiersSound
<1>7. LinesSound'
  <2> SUFFICES ASSUME NEW r \in Streams, stage' # "returned", copier'[r] # "cut"
               PROVE  \E text \in Seq(Tokens) : Copied(r, text)'
    BY DEF LinesSound
  <2>1. CASE r # s
    BY <1>1, <1>3, <2>1, LinesStay
  <2>2. CASE r = s
    <3>1. PICK text \in Seq(Tokens) : Copied(s, text)
      BY <1>1, <2>2 DEF LinesSound
    <3>2. copier[s] = "copying"
      BY <1>1, <1>6, <2>2 DEF BodyTyped
    <3>3. pipe[s] \in Seq(Tokens)
      BY DEF BodyTyped
    <3>4. Append(text \o pipe[s], tok) = text \o Append(pipe[s], tok)
      <4>1. \A b \in Seq(Tokens), x \in Tokens : Append(text \o b, x) = text \o Append(b, x)
        BY <3>1, AppendOnto
      <4> QED BY <1>2, <3>3, <4>1
    <3>5. Copied(s, text)'
      BY <1>1, <1>3, <3>1, <3>2, <3>4 DEF Copied
    <3> QED BY <2>2, <3>5
  <2> QED BY <2>1, <2>2
<1>8. CopiersSound'
  BY <1>1, <1>3, <1>6 DEF CopiersSound
<1>9. ShellGone' /\ SuccessSound'
  BY <1>1, <1>3, <1>6 DEF ShellGone, SuccessSound
<1> QED BY <1>5, <1>7, <1>8, <1>9

LEMMA EndKeeps == ASSUME BInv, NEW p \in Processes, End(p) PROVE BInv'
<1> USE DEF BInv
<1>1. /\ p \in running /\ running' = running \ {p}
      /\ UNCHANGED <<body, stage, ctx, todo, pipe, copier, buf, log, wrote, result>>
      /\ p # Shell => exit' = exit
  BY DEF End, streams
<1>2. BodyTyped'
  BY <1>1 DEF BodyTyped
<1>3. LinesSound'
  BY <1>1, LinesStay DEF LinesSound
<1>4. CopiersSound' /\ ShellGone'
  BY <1>1 DEF CopiersSound, ShellGone
<1>5. SuccessSound'
  BY <1>1 DEF ShellGone, SuccessSound
<1> QED BY <1>2, <1>3, <1>4, <1>5

LEMMA KillKeeps == BInv /\ Kill => BInv'
<1> SUFFICES ASSUME BInv, Kill PROVE BInv'
  OBVIOUS
<1> USE DEF BInv
<1>1. /\ stage = "started" /\ running' \subseteq running
      /\ UNCHANGED <<body, stage, ctx, todo, pipe, copier, buf, log, wrote, result>>
  BY DEF Kill, streams
<1>2. BodyTyped'
  BY <1>1 DEF BodyTyped
<1>3. LinesSound'
  BY <1>1, LinesStay DEF LinesSound
<1>4. CopiersSound' /\ ShellGone' /\ SuccessSound'
  BY <1>1 DEF CopiersSound, ShellGone, SuccessSound
<1> QED BY <1>2, <1>3, <1>4

LEMMA ReapKeeps == BInv /\ (Reap \/ CtxDone) => BInv'
<1> SUFFICES ASSUME BInv, Reap \/ CtxDone PROVE BInv'
  OBVIOUS
<1> USE DEF BInv
<1>1. /\ stage \in {"started", "reaped"} /\ stage' \in {"started", "reaped"}
      /\ body = "run" /\ stage' = "reaped" => Shell \notin running
      /\ UNCHANGED <<body, exit, todo, running, pipe, copier, buf, log, wrote, result>>
  BY DEF Reap, CtxDone, script, streams, ShellGone
<1>2. BodyTyped'
  BY <1>1 DEF BodyTyped
<1>3. LinesSound'
  BY <1>1, LinesStay DEF LinesSound
<1>4. CopiersSound' /\ ShellGone' /\ SuccessSound'
  BY <1>1 DEF CopiersSound, ShellGone, SuccessSound
<1> QED BY <1>2, <1>3, <1>4

LEMMA CopyKeeps == ASSUME BInv, NEW s \in Streams, Copy(s) PROVE BInv'
<1> USE DEF BInv
<1> DEFINE lw == Fed([buf |-> buf[s], log |-> log[s]], pipe[s])
<1>1. /\ stage \in {"started", "reaped"} /\ copier[s] = "copying"
      /\ buf' = [buf EXCEPT ![s] = lw.buf] /\ log' = [log EXCEPT ![s] = lw.log]
      /\ pipe' = [pipe EXCEPT ![s] = <<>>]
      /\ UNCHANGED <<body, stage, ctx, running, exit, todo, copier, wrote, result>>
  BY DEF Copy
<1>2. PICK text \in Seq(Tokens) : Copied(s, text)
  BY <1>1 DEF LinesSound
<1>3. pipe[s] \in Seq(Tokens) /\ <<>> \in Seq(Tokens)
  BY DEF BodyTyped
<1>4. [buf |-> buf[s], log |-> log[s]] = Kept(text) /\ Ranked(Ends(text))
  BY <1>2 DEF Copied, Kept
<1>5. Ranked(Ends(text \o pipe[s])) /\ lw = Kept(text \o pipe[s])
  BY <1>3, <1>4, FedIs
<1> HIDE DEF lw
<1>6. PICK all \in Seq(Tokens) : all = text \o pipe[s]
  BY <1>3, ConcatProperties
<1>7. Ranked(Ends(all)) /\ lw.buf = Rest(all) /\ lw.log = Whole(all) /\ wrote[s] = all \o <<>>
  <2>1. all \o <<>> = all
    BY ConcatEmptySeq
  <2> QED BY <1>2, <1>5, <1>6, <2>1 DEF Kept, Copied
<1>8. /\ buf'[s] = lw.buf /\ log'[s] = lw.log /\ pipe'[s] = <<>>
      /\ \A r \in Streams \ {s} : buf'[r] = buf[r] /\ log'[r] = log[r] /\ pipe'[r] = pipe[r]
  BY <1>1 DEF BodyTyped
<1>9. BodyTyped'
  BY <1>1, <1>3 DEF BodyTyped
<1>10. LinesSound'
  <2>1. Copied(s, all)'
    BY <1>1, <1>7, <1>8 DEF Copied
  <2> SUFFICES ASSUME NEW r \in Streams, stage' # "returned", copier'[r] # "cut"
               PROVE  \E u \in Seq(Tokens) : Copied(r, u)'
    BY DEF LinesSound
  <2>2. CASE r # s
    BY <1>1, <1>8, <2>2, LinesStay
  <2>3. CASE r = s
    BY <2>1, <2>3
  <2> QED BY <2>2, <2>3
<1>11. CopiersSound' /\ ShellGone' /\ SuccessSound'
  BY <1>1, <1>8 DEF CopiersSound, ShellGone, SuccessSound
<1> QED BY <1>9, <1>10, <1>11

LEMMA CopyEndKeeps == ASSUME BInv, NEW s \in Streams, CopyEnd(s) PROVE BInv'
<1> USE DEF BInv
<1>1. /\ stage \in {"started", "reaped"} /\ copier[s] = "copying"
      /\ pipe[s] = <<>> /\ running = {}
      /\ copier' = [copier EXCEPT ![s] = "done"]
      /\ UNCHANGED <<body, stage, ctx, running, exit, todo, pipe, buf, log, wrote, result>>
  BY DEF CopyEnd
<1>2. BodyTyped'
  BY <1>1 DEF BodyTyped
<1>3. LinesSound'
  <2>1. \A r \in Streams : copier'[r] # "cut" => copier[r] # "cut"
    BY <1>1 DEF BodyTyped
  <2> QED BY <1>1, <2>1, LinesStay DEF LinesSound
<1>4. CopiersSound'
  BY <1>1 DEF BodyTyped, CopiersSound
<1>5. ShellGone' /\ SuccessSound'
  BY <1>1 DEF ShellGone, SuccessSound
<1> QED BY <1>2, <1>3, <1>4, <1>5

LEMMA WaitDelayKeeps == BInv /\ WaitDelay => BInv'
<1> SUFFICES ASSUME BInv, WaitDelay PROVE BInv'
  OBVIOUS
<1> USE DEF BInv
<1>1. /\ stage = "reaped"
      /\ copier' = [s \in Streams |-> IF copier[s] = "copying" THEN "cut" ELSE copier[s]]
      /\ pipe' = [s \in Streams |-> IF copier[s] = "copying" THEN <<>> ELSE pipe[s]]
      /\ UNCHANGED <<body, stage, ctx, running, exit, todo, buf, log, wrote, result>>
  BY DEF WaitDelay
<1>2. BodyTyped'
  <2>1. <<>> \in Seq(Tokens)
    OBVIOUS
  <2> QED BY <1>1, <2>1 DEF BodyTyped
<1>3. LinesSound'
  <2>1. \A r \in Streams : copier'[r] # "cut" => copier[r] # "cut" /\ pipe'[r] = pipe[r]
    BY <1>1
  <2> QED BY <1>1, <2>1, LinesStay DEF LinesSound
<1>4. CopiersSound' /\ ShellGone' /\ SuccessSound'
  BY <1>1 DEF CopiersSound, ShellGone, SuccessSound
<1> QED BY <1>2, <1>3, <1>4

LEMMA ReturnRunKeeps == BInv /\ ReturnRun => BInv'
<1> SUFFICES ASSUME BInv, ReturnRun PROVE BInv'
  OBVIOUS
<1> USE DEF BInv
<1>1. /\ stage = "reaped" /\ \A s \in Streams : copier[s] # "copying"
      /\ log' = [s \in Streams |-> IF buf[s] = <<>> THEN log[s] ELSE Append(log[s], buf[s])]
      /\ buf' = [s \in Streams |-> <<>>]
      /\ stage' = "returned"
      /\ result' = "success" => ctx # "deadline" /\ ~WaitError
      /\ UNCHANGED <<body, ctx, running, exit, todo, pipe, copier, wrote>>
  BY DEF ReturnRun
<1>2. BodyTyped'
  BY <1>1 DEF BodyTyped
<1>3. LinesSound' /\ CopiersSound' /\ ShellGone'
  BY <1>1 DEF LinesSound, CopiersSound, ShellGone
<1>4. SuccessSound'
  <2> SUFFICES ASSUME result' = "success", NEW s \in Streams
               PROVE  copier[s] = "done" /\ log'[s] = Lines(wrote[s])
    BY <1>1 DEF SuccessSound, WaitError
  <2>1. copier[s] = "done"
    BY <1>1 DEF WaitError, BodyTyped
  <2>2. PICK text \in Seq(Tokens) : Copied(s, text)
    BY <1>1, <2>1 DEF LinesSound
  <2>3. wrote[s] = text
    BY <2>1, <2>2, ConcatEmptySeq DEF Copied, CopiersSound
  <2>4. Lines(text) = IF Rest(text) = <<>> THEN Whole(text) ELSE Append(Whole(text), Rest(text))
    BY <2>2, LinesAre DEF Copied
  <2>5. log'[s] = IF Rest(text) = <<>> THEN Whole(text) ELSE Append(Whole(text), Rest(text))
    BY <1>1, <2>2 DEF Copied
  <2> QED BY <2>1, <2>3, <2>4, <2>5
<1> QED BY <1>2, <1>3, <1>4

(* A wait and a prompt have no script.                                     *)
LEMMA AsideKeeps == BInv /\ (WaitStep \/ PromptStep) => BInv'
<1> SUFFICES ASSUME BInv, WaitStep \/ PromptStep PROVE BInv'
  OBVIOUS
<1> USE DEF BInv
<1>1. /\ body # "run" /\ stage # "returned" /\ stage' # "idle"
      /\ stage' \in {"started", "held", "pause", "returned"}
      /\ UNCHANGED <<body, ctx, script>>
  BY DEF WaitStep, StartWait, LeaveBehind, Probe, Pause, PromptStep, StartPrompt, ReturnPrompt
<1>2. UNCHANGED <<running, exit, todo, pipe, copier, buf, log, wrote>>
  BY <1>1 DEF script, streams
<1>3. BodyTyped'
  BY <1>1, <1>2 DEF BodyTyped
<1>4. LinesSound'
  BY <1>1, <1>2, LinesStay DEF LinesSound
<1>5. CopiersSound' /\ ShellGone' /\ SuccessSound'
  BY <1>1, <1>2 DEF CopiersSound, ShellGone, SuccessSound
<1> QED BY <1>3, <1>4, <1>5

LEMMA BodyStepsKeep == BInv /\ [Next]_vars => BInv'
<1> SUFFICES ASSUME BInv, [Next]_vars PROVE BInv'
  OBVIOUS
<1>1. ASSUME UNCHANGED bodyVars PROVE BInv'
  <2>1. UNCHANGED <<body, stage, ctx, running, exit, todo, pipe, copier, buf, log, wrote, result>>
    BY <1>1 DEF bodyVars, script, streams
  <2>2. BodyTyped' /\ LinesSound' /\ CopiersSound'
    BY <2>1 DEF BInv, BodyTyped, LinesSound, Copied, CopiersSound
  <2>3. ShellGone' /\ SuccessSound'
    BY <2>1 DEF BInv, ShellGone, SuccessSound
  <2> QED BY <2>2, <2>3 DEF BInv
<1>2. CASE RunStep
  BY <1>2, StartRunKeeps, WriteKeeps, EndKeeps, KillKeeps, ReapKeeps, CopyKeeps, CopyEndKeeps,
     WaitDelayKeeps, ReturnRunKeeps DEF RunStep
<1>3. CASE WaitStep \/ PromptStep
  BY <1>3, AsideKeeps
<1>4. CASE CtxDone
  BY <1>4, ReapKeeps
<1> QED BY <1>1, <1>2, <1>3, <1>4 DEF Next, Evaluating, Others, Body, vars

(* The invariant of the script holds throughout.                           *)
THEOREM BodyInvariance == Spec => []BInv
BY BodyInitEstablishes, BodyStepsKeep, PTL DEF Spec

(* A script that succeeded has exited with zero, in time, and all that it  *)
(* wrote is published in whole lines, once, in order (run.go:118-126).     *)
THEOREM WholeOutput == Spec => []SuccessIsWhole
<1>1. BInv => SuccessIsWhole
  BY DEF BInv, SuccessSound, SuccessIsWhole
<1> QED BY <1>1, BodyInvariance, PTL
=============================================================================
